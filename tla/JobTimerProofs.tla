--------------------------- MODULE JobTimerProofs ---------------------------
(***************************************************************************)
(* Proofs about JobQueue and, on top of it, JobTimer.  The queues:         *)
(* QueueInv is inductive for any finite set of threads, any queues, any    *)
(* jobs; one executor per queue and no lost wakeup follow.  The timer uses *)
(* the queues only as JobQueue allows, so what is proved of JobQueue holds *)
(* under it; one distributor at a time; no job before its tick; no later   *)
(* job before an earlier one.                                              *)
(***************************************************************************)
EXTENDS JobTimer, FiniteSetTheorems, SequenceTheorems, TLAPS

USE JobQueueAssumption

PushFrame == [stage : {"none", "item", "route"}, q : Queues \union {NoQueue},
              job : Jobs \union {NoJob}, first : BOOLEAN]
ExecFrame == [stage : {"none", "pop", "run", "job", "check"},
              q : Queues \union {NoQueue}, batch : Seq(Jobs), n : Nat]

\* The type invariant in terms of the two kinds of frame.
LEMMA Types ==
  TypeOK <=>
    /\ jobs \in [Queues -> Seq(Jobs)]
    /\ jobCount \in [Queues -> Nat]
    /\ globalQ \in Seq(Queues)
    /\ cur \in [Threads -> Queues \union {NoQueue}]
    /\ push \in [Threads -> PushFrame]
    /\ exec \in [Threads -> ExecFrame]
    /\ ctx \in [Threads -> {"io", "timer", "global"}]
    /\ expired \in [Threads -> BOOLEAN]
    /\ pushed \in SUBSET Jobs
    /\ clears \in Nat
  BY DEF TypeOK, PushFrame, ExecFrame

\* The empty frames are frames.
LEMMA EmptyFrames == NoPush \in PushFrame /\ NoExec \in ExecFrame
  BY DEF NoPush, NoExec, PushFrame, ExecFrame

\* The frame of an executor that has popped everything is a frame.
LEMMA PoppedFrame ==
  ASSUME NEW e \in ExecFrame, NEW popped \in Seq(Jobs)
  PROVE  [e EXCEPT !.stage = "run", !.batch = popped, !.n = Len(popped)] \in ExecFrame
  <1>1. Len(popped) \in Nat
    OBVIOUS
  <1>2. QED
    BY <1>1 DEF ExecFrame

\* A frame stays one when an executor goes on.
LEMMA FrameSteps ==
  ASSUME NEW e \in ExecFrame, NEW rest \in Seq(Jobs)
  PROVE  /\ [e EXCEPT !.stage = "job"] \in ExecFrame
         /\ [e EXCEPT !.stage = "run", !.batch = rest] \in ExecFrame
         /\ [e EXCEPT !.stage = "check", !.n = 0] \in ExecFrame
         /\ [e EXCEPT !.stage = "pop"] \in ExecFrame
  <1>1. [e EXCEPT !.stage = "job"] \in ExecFrame
    BY DEF ExecFrame
  <1>2. [e EXCEPT !.stage = "run", !.batch = rest] \in ExecFrame
    BY DEF ExecFrame
  <1>3. [e EXCEPT !.stage = "check", !.n = 0] \in ExecFrame
    BY DEF ExecFrame
  <1>4. [e EXCEPT !.stage = "pop"] \in ExecFrame
    BY DEF ExecFrame
  <1>5. QED
    BY <1>1, <1>2, <1>3, <1>4

\* The threads with a push under way are finitely many.
LEMMA InFlightFinite ==
  ASSUME NEW q
  PROVE  IsFiniteSet(InFlight(q)) /\ Cardinality(InFlight(q)) \in Nat
  <1>1. InFlight(q) \in SUBSET Threads
    BY DEF InFlight
  <1>2. QED
    BY <1>1, FS_Subset, FS_CardinalityType

-----------------------------------------------------------------------------
\* Type correctness of every step, given the frames are well formed.
LEMMA TypeStep ==
  ASSUME TypeOK, FrameInv, CountInv, [Next]_vars
  PROVE  TypeOK'
  <1> USE DEF TypeOK
  <1>1. CASE UNCHANGED vars
    BY <1>1 DEF vars
  <1>2. ASSUME NEW t \in Threads, NEW q \in Queues, NEW j \in Jobs, PushCount(t, q, j)
        PROVE  TypeOK'
    BY <1>2 DEF PushCount
  <1>3. ASSUME NEW q \in Queues, ClearJobs(q) PROVE TypeOK'
    BY <1>3 DEF ClearJobs
  <1>4. ASSUME NEW t \in Threads, ThreadStep(t) PROVE TypeOK'
    <2> DEFINE p == push[t]
               e == exec[t]
    <2>a. /\ p.stage \in {"none", "item", "route"} /\ p.q \in Queues \union {NoQueue}
          /\ p.job \in Jobs \union {NoJob} /\ p.first \in BOOLEAN
          /\ e.q \in Queues \union {NoQueue} /\ e.batch \in Seq(Jobs) /\ e.n \in Nat
      OBVIOUS
    <2>b. e \in ExecFrame /\ <<>> \in Seq(Jobs)
      BY Types
    <2>1. CASE PushItem(t)
      <3>1. p.q \in Queues /\ p.job \in Jobs
        BY <2>1 DEF PushItem, FrameInv, FrameOK
      <3>2. jobs' \in [Queues -> Seq(Jobs)]
        BY <2>1, <3>1 DEF PushItem
      <3>3. push' \in [Threads -> PushFrame]
        BY <2>1, <2>a, EmptyFrames DEF PushItem, PushFrame
      <3>4. QED
        BY <2>1, <3>2, <3>3, Types DEF PushItem, PushFrame
    <2>2. CASE PushInline(t)
      <3>1. p.q \in Queues
        BY <2>2 DEF PushInline, FrameInv, FrameOK
      <3>2. push' \in [Threads -> PushFrame]
        BY <2>2, EmptyFrames, Types DEF PushInline
      <3>3. exec' \in [Threads -> ExecFrame] /\ cur' \in [Threads -> Queues \union {NoQueue}]
        BY <2>2, <3>1 DEF PushInline, BeginExecute, ExecFrame
      <3>4. QED
        BY <2>2, <3>2, <3>3 DEF PushInline, PushFrame, ExecFrame
    <2>3. CASE PushGlobal(t)
      <3>1. p.q \in Queues
        BY <2>3 DEF PushGlobal, FrameInv, FrameOK
      <3>2. push' \in [Threads -> PushFrame] /\ globalQ' \in Seq(Queues)
        BY <2>3, <3>1, EmptyFrames, Types DEF PushGlobal
      <3>3. QED
        BY <2>3, <3>2 DEF PushGlobal, PushFrame
    <2>4. CASE ExecPopAll(t)
      <3>1. e.q \in Queues
        BY <2>4 DEF ExecPopAll, FrameInv, FrameOK
      <3>2. jobs[e.q] \in Seq(Jobs) /\ Len(jobs[e.q]) \in Nat
        BY <3>1
      <3>3. [e EXCEPT !.stage = "run", !.batch = jobs[e.q], !.n = Len(jobs[e.q])] \in ExecFrame
        <4> HIDE DEF e
        <4>1. QED
          BY <2>b, <3>2, PoppedFrame
      <3>4. exec' = [exec EXCEPT ![t] = [e EXCEPT !.stage = "run", !.batch = jobs[e.q],
                                                   !.n = Len(jobs[e.q])]]
        BY <2>4 DEF ExecPopAll
      <3>5. exec' \in [Threads -> ExecFrame] /\ jobs' \in [Queues -> Seq(Jobs)]
        BY <2>4, <3>1, <3>3, <3>4, Types DEF ExecPopAll
      <3>6. QED
        BY <2>4, <3>5 DEF ExecPopAll, ExecFrame
    <2>5. CASE JobBegin(t)
      <3>1. exec' \in [Threads -> ExecFrame]
        <4>1. [e EXCEPT !.stage = "job"] \in ExecFrame
          BY <2>b, FrameSteps
        <4>2. exec' = [exec EXCEPT ![t] = [e EXCEPT !.stage = "job"]]
          BY <2>5 DEF JobBegin
        <4>3. QED
          BY <4>1, <4>2, Types
      <3>2. QED
        BY <2>5, <3>1 DEF JobBegin, ExecFrame
    <2>6. CASE JobEnd(t)
      <3>1. Tail(e.batch) \in Seq(Jobs)
        BY <2>6, <2>a DEF JobEnd, FrameInv, FrameOK
      <3>2. exec' \in [Threads -> ExecFrame] /\ expired' \in [Threads -> BOOLEAN]
        <4>1. [e EXCEPT !.stage = "run", !.batch = Tail(e.batch)] \in ExecFrame
          BY <2>b, <3>1, FrameSteps
        <4>2. exec' = [exec EXCEPT ![t] = [e EXCEPT !.stage = "run", !.batch = Tail(e.batch)]]
          BY <2>6 DEF JobEnd
        <4>3. expired' \in [Threads -> BOOLEAN]
          BY <2>6 DEF JobEnd
        <4>4. QED
          BY <4>1, <4>2, <4>3, Types
      <3>3. QED
        BY <2>6, <3>2 DEF JobEnd, ExecFrame
    <2>7. CASE ExecSub(t)
      <3>1. e.q \in Queues
        BY <2>7 DEF ExecSub, FrameInv, FrameOK
      <3>2. Cardinality(InFlight(e.q)) \in Nat /\ t \in Fetched(e.q) /\ Len(jobs[e.q]) \in Nat
        BY <3>1, InFlightFinite DEF Fetched
      <3>3. jobCount[e.q] - e.n \in Nat
        BY <2>a, <3>1, <3>2 DEF CountInv, CountOK
      <3>4. jobCount' \in [Queues -> Nat]
        BY <2>7, <3>3 DEF ExecSub
      <3>5. exec' \in [Threads -> ExecFrame] /\ cur' \in [Threads -> Queues \union {NoQueue}]
        <4>1. [e EXCEPT !.stage = "check", !.n = 0] \in ExecFrame
          BY <2>b, FrameSteps
        <4>2. \/ EndExecute(t)
              \/ exec' = [exec EXCEPT ![t].stage = "check", ![t].n = 0] /\ cur' = cur
          BY <2>7 DEF ExecSub
        <4>3. QED
          <5>1. CASE EndExecute(t)
            BY <5>1, EmptyFrames, Types DEF EndExecute
          <5>2. CASE exec' = [exec EXCEPT ![t].stage = "check", ![t].n = 0] /\ cur' = cur
            <6>1. exec' = [exec EXCEPT ![t] = [e EXCEPT !.stage = "check", !.n = 0]]
              BY <5>2
            <6>2. QED
              BY <4>1, <5>2, <6>1, Types
          <5>3. QED
            BY <4>2, <5>1, <5>2
      <3>6. QED
        BY <2>7, <3>4, <3>5 DEF ExecSub, ExecFrame
    <2>8. CASE ExecAgain(t)
      <3>1. exec' \in [Threads -> ExecFrame]
        <4>1. [e EXCEPT !.stage = "pop"] \in ExecFrame
          BY <2>b, FrameSteps
        <4>2. exec' = [exec EXCEPT ![t] = [e EXCEPT !.stage = "pop"]]
          BY <2>8 DEF ExecAgain
        <4>3. QED
          BY <4>1, <4>2, Types
      <3>2. QED
        BY <2>8, <3>1 DEF ExecAgain, ExecFrame
    <2>9. CASE ExecYield(t)
      <3>1. e.q \in Queues
        BY <2>9 DEF ExecYield, FrameInv, FrameOK
      <3>2. /\ exec' \in [Threads -> ExecFrame] /\ cur' \in [Threads -> Queues \union {NoQueue}]
            /\ globalQ' \in Seq(Queues) /\ expired' \in [Threads -> BOOLEAN]
        BY <2>9, <3>1, EmptyFrames, Types DEF ExecYield, EndExecute
      <3>3. QED
        BY <2>9, <3>2 DEF ExecYield, ExecFrame
    <2>10. CASE EndDispatch(t) \/ EndTimers(t) \/ EndGlobalWork(t)
      BY <2>10 DEF EndDispatch, EndTimers, EndGlobalWork
    <2>11. CASE GlobalPop(t)
      <3>1. Head(globalQ) \in Queues /\ Tail(globalQ) \in Seq(Queues)
        BY <2>11 DEF GlobalPop
      <3>2. exec' \in [Threads -> ExecFrame] /\ cur' \in [Threads -> Queues \union {NoQueue}]
        BY <2>11, <3>1 DEF GlobalPop, BeginExecute, ExecFrame
      <3>3. QED
        BY <2>11, <3>1, <3>2 DEF GlobalPop, ExecFrame
    <2>12. QED
      BY <1>4, <2>1, <2>2, <2>3, <2>4, <2>5, <2>6, <2>7, <2>8, <2>9, <2>10, <2>11 DEF ThreadStep
  <1>5. QED
    BY <1>1, <1>2, <1>3, <1>4 DEF Next

-----------------------------------------------------------------------------
\* Every step keeps the frames consistent: only the acting thread's change.
LEMMA FrameStep ==
  ASSUME TypeOK, FrameInv, TokenInv, [Next]_vars
  PROVE  FrameInv'
  <1>0. /\ push \in [Threads -> PushFrame] /\ exec \in [Threads -> ExecFrame]
        /\ cur \in [Threads -> Queues \union {NoQueue}]
    BY Types
  <1>1. CASE UNCHANGED vars
    BY <1>1 DEF vars, FrameInv, FrameOK
  <1>2. ASSUME NEW t \in Threads, NEW q \in Queues, NEW j \in Jobs, PushCount(t, q, j)
        PROVE  FrameInv'
    <2>1. ASSUME NEW u \in Threads, u # t PROVE FrameOK(u)'
      BY <1>0, <1>2, <2>1 DEF PushCount, FrameInv, FrameOK
    <2>2. FrameOK(t)'
      BY <1>0, <1>2 DEF PushCount, FrameInv, FrameOK, CanPush, Idle, NoExec
    <2>3. QED
      BY <2>1, <2>2 DEF FrameInv
  <1>3. ASSUME NEW q \in Queues, ClearJobs(q) PROVE FrameInv'
    BY <1>3 DEF ClearJobs, FrameInv, FrameOK
  <1>4. ASSUME NEW t \in Threads, ThreadStep(t) PROVE FrameInv'
    <2>1. ASSUME NEW u \in Threads, u # t PROVE FrameOK(u)'
      <3>1. push'[u] = push[u] /\ exec'[u] = exec[u] /\ cur'[u] = cur[u] /\ pushed' = pushed
        BY <1>0, <1>4, <2>1 DEF ThreadStep, PushItem, PushInline, PushGlobal, ExecPopAll,
           JobBegin, JobEnd, ExecSub, ExecAgain, ExecYield, EndDispatch, EndTimers,
           GlobalPop, EndGlobalWork, BeginExecute, EndExecute
      <3>2. QED
        BY <3>1 DEF FrameInv, FrameOK
    <2>2. FrameOK(t)'
      <3> USE <1>0 DEF FrameInv, FrameOK, NoPush, NoExec, PushFrame, ExecFrame
      <3>1. CASE PushItem(t)
        BY <3>1 DEF PushItem
      <3>2. CASE PushInline(t)
        BY <3>2 DEF PushInline, BeginExecute
      <3>3. CASE PushGlobal(t)
        BY <3>3 DEF PushGlobal
      <3>4. CASE ExecPopAll(t)
        BY <3>4 DEF ExecPopAll
      <3>5. CASE JobBegin(t)
        BY <3>5 DEF JobBegin
      <3>6. CASE JobEnd(t)
        BY <3>6 DEF JobEnd
      <3>7. CASE ExecSub(t)
        <4>1. push'[t] = push[t] /\ pushed' = pushed /\ push[t].stage = "none"
          BY <3>7 DEF ExecSub
        <4>2. CASE jobCount[exec[t].q] = exec[t].n
          BY <3>7, <4>1, <4>2 DEF ExecSub, EndExecute
        <4>3. CASE jobCount[exec[t].q] # exec[t].n
          BY <3>7, <4>1, <4>3 DEF ExecSub
        <4>4. QED
          BY <4>2, <4>3
      <3>8. CASE ExecAgain(t)
        BY <3>8 DEF ExecAgain
      <3>9. CASE ExecYield(t)
        BY <3>9 DEF ExecYield, EndExecute
      <3>10. CASE EndDispatch(t) \/ EndTimers(t) \/ EndGlobalWork(t)
        BY <3>10 DEF EndDispatch, EndTimers, EndGlobalWork
      <3>11. CASE GlobalPop(t)
        <4>1. Head(globalQ) \in Queues
          BY <3>11 DEF GlobalPop, TypeOK
        <4>2. QED
          BY <3>11, <4>1 DEF GlobalPop, BeginExecute, Idle
      <3>12. QED
        BY <1>4, <3>1, <3>2, <3>3, <3>4, <3>5, <3>6, <3>7, <3>8, <3>9, <3>10, <3>11 DEF ThreadStep
    <2>3. QED
      BY <2>1, <2>2 DEF FrameInv
  <1>5. QED
    BY <1>1, <1>2, <1>3, <1>4 DEF Next

-----------------------------------------------------------------------------
\* A step that moves no token of q and does not start or end its count.
LEMMA TokenSame ==
  ASSUME NEW q, TokenOK(q), UNCHANGED globalQ,
         (jobCount[q] > 0)' <=> jobCount[q] > 0,
         \A u \in Threads : /\ Pushing(u, q)' <=> Pushing(u, q)
                            /\ Executing(u, q)' <=> Executing(u, q)
  PROVE  TokenOK(q)'
  BY DEF TokenOK, HasToken, Waiting

\* Thread t passes a queue's token to the end of the global queue.
LEMMA TokenToGlobal ==
  ASSUME NEW t \in Threads, NEW p \in Queues, NEW q \in Queues, TokenInv,
         globalQ \in Seq(Queues), globalQ' = Append(globalQ, p), UNCHANGED jobCount,
         HasToken(t, p), ~ HasToken(t, p)',
         \A u \in Threads : u # t \/ q # p =>
           /\ Pushing(u, q)' <=> Pushing(u, q)
           /\ Executing(u, q)' <=> Executing(u, q)
  PROVE  TokenOK(q)'
  <1> DEFINE k == Len(globalQ) + 1
  <1>1. /\ TokenOK(p) /\ TokenOK(q)
        /\ Len(globalQ) \in Nat /\ Len(globalQ') = k /\ globalQ'[k] = p
        /\ \A i \in 1..Len(globalQ) : globalQ'[i] = globalQ[i]
        /\ \A i \in 1..k : i = k \/ i \in 1..Len(globalQ)
        /\ k \in 1..k /\ \A i \in 1..Len(globalQ) : i \in 1..k
    BY DEF TokenInv
  <1>2. Waiting(q)' <=> Waiting(q) \/ q = p
    BY <1>1 DEF Waiting
  <1>3. CASE q # p
    <2>1. \A u \in Threads : /\ Pushing(u, q)' <=> Pushing(u, q)
                             /\ Executing(u, q)' <=> Executing(u, q)
                             /\ HasToken(u, q)' <=> HasToken(u, q)
      BY <1>3 DEF HasToken
    <2>2. \A i, j \in 1..k : globalQ'[i] = q /\ globalQ'[j] = q => i = j
      BY <1>1, <1>3 DEF TokenOK
    <2>3. QED
      BY <1>1, <1>2, <1>3, <2>1, <2>2 DEF TokenOK
  <1>4. CASE q = p
    <2>1. \A u \in Threads : ~ HasToken(u, q)'
      <3>1. \A u \in Threads : u # t => ~ HasToken(u, q)
        BY <1>1, <1>4 DEF TokenOK
      <3>2. QED
        BY <1>4, <3>1 DEF HasToken
    <2>2. ~ Waiting(q) /\ jobCount[q] > 0
      BY <1>1, <1>4 DEF TokenOK
    <2>3. \A i, j \in 1..k : globalQ'[i] = q /\ globalQ'[j] = q => i = j
      BY <1>1, <2>2 DEF Waiting
    <2>4. QED
      BY <1>1, <1>2, <1>4, <2>1, <2>2, <2>3 DEF TokenOK, HasToken
  <1>5. QED
    BY <1>3, <1>4

\* Every step keeps exactly one token per queue with a positive count.
LEMMA TokenStep ==
  ASSUME TypeOK, FrameInv, TokenInv, CountInv, [Next]_vars
  PROVE  TokenInv'
  <1>0. /\ push \in [Threads -> PushFrame] /\ exec \in [Threads -> ExecFrame]
        /\ jobCount \in [Queues -> Nat] /\ globalQ \in Seq(Queues)
        /\ \A q \in Queues : q # NoQueue
    BY Types
  <1>1. CASE UNCHANGED vars
    BY <1>1 DEF vars, TokenInv, TokenOK, HasToken, Pushing, Executing, Waiting
  <1>2. ASSUME NEW t \in Threads, NEW p \in Queues, NEW j \in Jobs, PushCount(t, p, j)
        PROVE  TokenInv'
    <2> SUFFICES ASSUME NEW q \in Queues PROVE TokenOK(q)'
      BY DEF TokenInv
    <2>1. /\ push[t] = NoPush /\ UNCHANGED <<globalQ, exec>>
          /\ push' = [push EXCEPT ![t] = [stage |-> "item", q |-> p, job |-> j,
                                          first |-> jobCount[p] = 0]]
          /\ jobCount' = [jobCount EXCEPT ![p] = @ + 1]
          /\ TokenOK(q)
      BY <1>2 DEF PushCount, CanPush, Idle, TokenInv
    <2>2. \A u \in Threads : Executing(u, q)' <=> Executing(u, q)
      BY <2>1 DEF Executing
    <2>3. \A u \in Threads : u # t => (Pushing(u, q)' <=> Pushing(u, q))
      BY <1>0, <2>1 DEF Pushing
    <2>4. ~ Pushing(t, q) /\ (Pushing(t, q)' <=> q = p /\ jobCount[p] = 0)
      <3>1. push[t].first = FALSE
        BY <2>1 DEF NoPush
      <3>2. push'[t].q = p /\ push'[t].first = (jobCount[p] = 0)
        BY <1>0, <2>1
      <3>3. QED
        BY <3>1, <3>2 DEF Pushing
    <2>5. CASE q # p \/ jobCount[p] # 0
      <3>1. (jobCount[q] > 0)' <=> jobCount[q] > 0
        BY <1>0, <2>1, <2>5
      <3>2. QED
        BY <2>1, <2>2, <2>3, <2>4, <2>5, <3>1, TokenSame
    <2>6. CASE q = p /\ jobCount[p] = 0
      <3>1. ~ Waiting(q) /\ \A u \in Threads : ~ HasToken(u, q)
        BY <1>0, <2>1, <2>6 DEF TokenOK
      <3>2. \A u \in Threads : ~ Executing(u, q)' /\ (Pushing(u, q)' <=> u = t)
        BY <2>2, <2>3, <2>4, <2>6, <3>1 DEF HasToken
      <3>3. ~ Waiting(q)' /\ jobCount'[q] > 0
        BY <1>0, <2>1, <2>6, <3>1 DEF Waiting
      <3>4. QED
        BY <2>1, <3>2, <3>3 DEF TokenOK, HasToken, Waiting
    <2>7. QED
      BY <2>5, <2>6
  <1>3. ASSUME NEW p \in Queues, ClearJobs(p) PROVE TokenInv'
    BY <1>3 DEF ClearJobs, TokenInv, TokenOK, HasToken, Pushing, Executing, Waiting
  <1>4. ASSUME NEW t \in Threads, ThreadStep(t) PROVE TokenInv'
    <2> SUFFICES ASSUME NEW q \in Queues PROVE TokenOK(q)'
      BY DEF TokenInv
    <2>0. TokenOK(q) /\ CountOK(q) /\ FrameOK(t) /\ jobCount[q] \in Nat
      BY <1>0 DEF TokenInv, CountInv, FrameInv
    <2>1. CASE PushItem(t)
      <3>1. \A u \in Threads : Pushing(u, q)' <=> Pushing(u, q)
        BY <1>0, <2>1 DEF PushItem, Pushing, NoPush, PushFrame
      <3>2. QED
        BY <2>0, <2>1, <3>1, TokenSame DEF PushItem, Executing
    <2>2. CASE PushInline(t)
      <3>1. /\ push[t].q \in Queues /\ push[t].first /\ exec[t].q = NoQueue
            /\ push' = [push EXCEPT ![t] = NoPush] /\ UNCHANGED <<jobCount, globalQ>>
            /\ exec' = [exec EXCEPT ![t] = [stage |-> "pop", q |-> push[t].q, batch |-> <<>>, n |-> 0]]
        BY <2>0, <2>2 DEF PushInline, BeginExecute, FrameOK
      <3>2. \A u \in Threads : u # t => /\ Pushing(u, q)' <=> Pushing(u, q)
                                        /\ Executing(u, q)' <=> Executing(u, q)
        BY <1>0, <3>1 DEF Pushing, Executing
      <3>3. ~ Pushing(t, q)' /\ (Executing(t, q)' <=> Pushing(t, q)) /\ ~ Executing(t, q)
        BY <1>0, <3>1 DEF Pushing, Executing, NoPush
      <3>4. QED
        BY <2>0, <3>1, <3>2, <3>3 DEF TokenOK, HasToken, Waiting
    <2>3. CASE PushGlobal(t)
      <3>0. PICK p \in Queues : push[t].q = p
        BY <2>0, <2>3 DEF PushGlobal, FrameOK
      <3>1. /\ push[t].first /\ UNCHANGED <<exec, jobCount>>
            /\ push' = [push EXCEPT ![t] = NoPush] /\ globalQ' = Append(globalQ, p)
        BY <2>0, <2>3, <3>0 DEF PushGlobal, FrameOK
      <3>2. Pushing(t, p) /\ ~ Pushing(t, q)' /\ ~ Pushing(t, p)'
        BY <1>0, <3>0, <3>1 DEF Pushing, NoPush
      <3>3. \A u \in Threads : /\ Executing(u, q)' <=> Executing(u, q)
                               /\ Executing(u, p)' <=> Executing(u, p)
        BY <3>1 DEF Executing
      <3>4. \A u \in Threads : u # t \/ q # p => (Pushing(u, q)' <=> Pushing(u, q))
        BY <1>0, <3>0, <3>1, <3>2 DEF Pushing
      <3>5. HasToken(t, p) /\ ~ HasToken(t, p)'
        BY <3>2, <3>3 DEF HasToken, TokenInv, TokenOK
      <3>6. QED
        BY <1>0, <3>1, <3>3, <3>4, <3>5, TokenToGlobal
    <2>4. CASE ExecPopAll(t) \/ JobBegin(t) \/ JobEnd(t) \/ ExecAgain(t)
      <3>1. \A u \in Threads : exec'[u].q = exec[u].q
        <4>1. \A u \in Threads : u # t => exec'[u] = exec[u]
          BY <1>0, <2>4 DEF ExecPopAll, JobBegin, JobEnd, ExecAgain
        <4>2. exec'[t].q = exec[t].q
          <5>1. CASE ExecPopAll(t)
            BY <1>0, <5>1 DEF ExecPopAll, ExecFrame
          <5>2. CASE JobBegin(t) \/ JobEnd(t) \/ ExecAgain(t)
            BY <1>0, <5>2 DEF JobBegin, JobEnd, ExecAgain, ExecFrame
          <5>3. QED
            BY <2>4, <5>1, <5>2
        <4>3. QED
          BY <4>1, <4>2
      <3>2. UNCHANGED <<globalQ, jobCount, push>>
        BY <2>4 DEF ExecPopAll, JobBegin, JobEnd, ExecAgain
      <3>3. QED
        BY <2>0, <3>1, <3>2, TokenSame DEF Pushing, Executing
    <2>5. CASE ExecSub(t)
      <3> DEFINE p == exec[t].q
      <3>1. /\ p \in Queues /\ exec[t].n \in Nat /\ UNCHANGED <<globalQ, push>>
            /\ jobCount' = [jobCount EXCEPT ![p] = @ - exec[t].n]
            /\ jobCount[p] >= exec[t].n /\ push[t].stage = "none"
        <4>1. p \in Queues
          BY <2>0, <2>5 DEF ExecSub, FrameOK
        <4>2. CountOK(p) /\ t \in Fetched(p) /\ Len(jobs[p]) \in Nat
          BY <4>1 DEF CountInv, Fetched, TypeOK
        <4>3. Cardinality(InFlight(p)) \in Nat
          BY InFlightFinite
        <4>4. exec[t].n \in Nat
          BY <1>0 DEF ExecFrame
        <4>5. jobCount[p] >= exec[t].n
          BY <1>0, <4>1, <4>2, <4>3, <4>4 DEF CountOK
        <4>6. QED
          BY <2>0, <2>5, <4>1, <4>4, <4>5 DEF ExecSub, FrameOK
      <3>2. \A u \in Threads : Pushing(u, q)' <=> Pushing(u, q)
        BY <3>1 DEF Pushing
      <3>3. CASE jobCount[p] = exec[t].n
        <4>1. exec' = [exec EXCEPT ![t] = NoExec]
          BY <2>5, <3>3 DEF ExecSub, EndExecute
        <4>2. \A u \in Threads : Executing(u, q)' <=> u # t /\ Executing(u, q)
          BY <1>0, <4>1 DEF Executing, NoExec
        <4>3. CASE q # p
          BY <1>0, <2>0, <3>1, <3>2, <4>2, <4>3, TokenSame DEF Executing
        <4>4. CASE q = p
          <5>1. Executing(t, q) /\ ~ Waiting(q) /\ ~ Pushing(t, q)
            BY <2>0, <4>4 DEF Executing, TokenOK, HasToken
          <5>2. \A u \in Threads : ~ HasToken(u, q)'
            BY <2>0, <3>2, <4>2, <5>1 DEF TokenOK, HasToken
          <5>3. jobCount'[q] = 0 /\ ~ Waiting(q)'
            BY <1>0, <3>1, <3>3, <4>4, <5>1 DEF Waiting
          <5>4. QED
            BY <2>0, <3>1, <5>2, <5>3 DEF TokenOK, HasToken, Waiting
        <4>5. QED
          BY <4>3, <4>4
      <3>4. CASE jobCount[p] # exec[t].n
        <4>1. \A u \in Threads : exec'[u].q = exec[u].q
          <5>1. exec' = [exec EXCEPT ![t].stage = "check", ![t].n = 0]
            BY <2>5, <3>4 DEF ExecSub
          <5>2. exec'[t].q = exec[t].q
            BY <1>0, <5>1 DEF ExecFrame
          <5>3. \A u \in Threads : u # t => exec'[u] = exec[u]
            BY <1>0, <5>1
          <5>4. QED
            BY <5>2, <5>3
        <4>2. \A u \in Threads : Executing(u, q)' <=> Executing(u, q)
          BY <4>1 DEF Executing
        <4>3. (jobCount[q] > 0)' <=> jobCount[q] > 0
          <5>1. CASE q # p
            BY <1>0, <3>1, <5>1
          <5>2. CASE q = p
            BY <1>0, <3>1, <3>4, <5>2
          <5>3. QED
            BY <5>1, <5>2
        <4>4. QED
          BY <2>0, <3>1, <3>2, <4>2, <4>3, TokenSame
      <3>5. QED
        BY <3>3, <3>4
    <2>6. CASE ExecYield(t)
      <3>0. PICK p \in Queues : exec[t].q = p
        BY <2>0, <2>6 DEF ExecYield, FrameOK
      <3>1. /\ UNCHANGED <<push, jobCount>>
            /\ exec' = [exec EXCEPT ![t] = NoExec] /\ globalQ' = Append(globalQ, p)
        BY <2>0, <2>6, <3>0 DEF ExecYield, EndExecute
      <3>2. Executing(t, p) /\ ~ Executing(t, q)' /\ ~ Executing(t, p)'
        BY <1>0, <3>0, <3>1 DEF Executing, NoExec
      <3>3. \A u \in Threads : /\ Pushing(u, q)' <=> Pushing(u, q)
                               /\ Pushing(u, p)' <=> Pushing(u, p)
        BY <3>1 DEF Pushing
      <3>4. \A u \in Threads : u # t \/ q # p => (Executing(u, q)' <=> Executing(u, q))
        BY <1>0, <3>0, <3>1, <3>2 DEF Executing
      <3>5. HasToken(t, p) /\ ~ HasToken(t, p)'
        BY <3>2, <3>3 DEF HasToken, TokenInv, TokenOK
      <3>6. QED
        BY <1>0, <3>1, <3>3, <3>4, <3>5, TokenToGlobal
    <2>7. CASE EndDispatch(t) \/ EndTimers(t) \/ EndGlobalWork(t)
      <3>1. UNCHANGED <<globalQ, jobCount, push, exec>>
        BY <2>7 DEF EndDispatch, EndTimers, EndGlobalWork
      <3>2. QED
        BY <2>0, <3>1, TokenSame DEF Pushing, Executing
    <2>8. CASE GlobalPop(t)
      <3> DEFINE p == Head(globalQ)
      <3>1. /\ p \in Queues /\ UNCHANGED <<push, jobCount>> /\ push[t] = NoPush /\ exec[t] = NoExec
            /\ exec' = [exec EXCEPT ![t] = [stage |-> "pop", q |-> p, batch |-> <<>>, n |-> 0]]
            /\ Len(globalQ) \in Nat \ {0} /\ globalQ[1] = p
            /\ Len(globalQ') = Len(globalQ) - 1
            /\ \A i \in 1..(Len(globalQ) - 1) : globalQ'[i] = globalQ[i + 1]
        BY <1>0, <2>8 DEF GlobalPop, BeginExecute, Idle
      <3>2. \A u \in Threads : Pushing(u, q)' <=> Pushing(u, q)
        BY <3>1 DEF Pushing
      <3>3. \A u \in Threads : u # t => (Executing(u, q)' <=> Executing(u, q))
        BY <1>0, <3>1 DEF Executing
      <3>4. ~ Executing(t, q) /\ ~ Pushing(t, q) /\ (Executing(t, q)' <=> q = p)
        BY <1>0, <3>1 DEF Executing, Pushing, NoExec, NoPush
      <3>5. \A i, k \in 1..(Len(globalQ) - 1) : globalQ'[i] = q /\ globalQ'[k] = q => i = k
        <4>1. SUFFICES ASSUME NEW i \in 1..(Len(globalQ) - 1), NEW k \in 1..(Len(globalQ) - 1),
                              globalQ'[i] = q, globalQ'[k] = q
                       PROVE  i = k
          OBVIOUS
        <4>2. /\ globalQ[i + 1] = q /\ globalQ[k + 1] = q
              /\ i + 1 \in 1..Len(globalQ) /\ k + 1 \in 1..Len(globalQ)
          BY <3>1, <4>1
        <4>3. i + 1 = k + 1
          BY <2>0, <4>2 DEF TokenOK
        <4>4. QED
          BY <4>3
      <3>6. Waiting(q)' <=> Waiting(q) /\ q # p
        <4>1. \A i \in 1..Len(globalQ) : globalQ[i] = p => i = 1
          <5>1. TokenOK(p) /\ 1 \in 1..Len(globalQ) /\ globalQ[1] = p
            BY <3>1 DEF TokenInv
          <5>2. QED
            BY <5>1 DEF TokenOK
        <4>2. ASSUME Waiting(q)' PROVE Waiting(q) /\ q # p
          <5>1. PICK i \in 1..(Len(globalQ) - 1) : globalQ'[i] = q
            BY <3>1, <4>2 DEF Waiting
          <5>2. i + 1 \in 1..Len(globalQ) /\ globalQ[i + 1] = q /\ i + 1 # 1
            BY <3>1, <5>1
          <5>3. QED
            BY <4>1, <5>2 DEF Waiting
        <4>3. ASSUME Waiting(q), q # p PROVE Waiting(q)'
          <5>1. PICK i \in 1..Len(globalQ) : globalQ[i] = q
            BY <4>3 DEF Waiting
          <5>2. i # 1
            BY <3>1, <4>3, <5>1
          <5>3. i - 1 \in 1..(Len(globalQ) - 1) /\ i = (i - 1) + 1
            BY <3>1, <5>1, <5>2
          <5>4. globalQ'[i - 1] = q
            BY <3>1, <5>1, <5>3
          <5>5. QED
            BY <3>1, <5>3, <5>4 DEF Waiting
        <4>4. QED
          BY <4>2, <4>3
      <3>7. CASE q # p
        BY <2>0, <3>1, <3>2, <3>3, <3>4, <3>5, <3>6, <3>7 DEF TokenOK, HasToken
      <3>8. CASE q = p
        <4>1. Waiting(q) /\ jobCount[q] > 0 /\ \A u \in Threads : ~ HasToken(u, q)
          BY <2>0, <3>1, <3>8 DEF TokenOK, Waiting
        <4>2. /\ ~ Waiting(q)' /\ jobCount'[q] > 0
              /\ \A u \in Threads : ~ Pushing(u, q)' /\ (Executing(u, q)' <=> u = t)
          BY <3>1, <3>2, <3>3, <3>4, <3>6, <3>8, <4>1 DEF HasToken
        <4>3. QED
          BY <3>1, <3>5, <4>2 DEF TokenOK, HasToken
      <3>9. QED
        BY <3>7, <3>8
    <2>9. QED
      BY <1>4, <2>1, <2>2, <2>3, <2>4, <2>5, <2>6, <2>7, <2>8 DEF ThreadStep
  <1>5. QED
    BY <1>1, <1>2, <1>3, <1>4 DEF Next

-----------------------------------------------------------------------------
\* A step that leaves the counter, the container and the pushes of q alone, and
\* in which a thread that executes q either did so with the same batch or has
\* not fetched any.
LEMMA CountSame ==
  ASSUME NEW q \in Queues, TypeOK, CountOK(q),
         jobCount'[q] = jobCount[q], Len(jobs'[q]) \in Nat, Len(jobs'[q]) <= Len(jobs[q]),
         InFlight(q)' = InFlight(q),
         \A u \in Threads : exec'[u].q = q =>
           exec'[u].n = 0 \/ (exec[u].q = q /\ exec'[u].n = exec[u].n)
  PROVE  CountOK(q)'
  <1>1. /\ Cardinality(InFlight(q)) \in Nat /\ Len(jobs[q]) \in Nat /\ jobCount[q] \in Nat
        /\ \A u \in Threads : exec[u].n \in Nat
    BY InFlightFinite DEF TypeOK
  <1>2. jobCount'[q] >= Cardinality(InFlight(q)') + Len(jobs'[q])
    BY <1>1 DEF CountOK
  <1>3. ASSUME NEW u \in Threads, exec'[u].q = q
        PROVE  jobCount'[q] >= Cardinality(InFlight(q)') + Len(jobs'[q]) + exec'[u].n
    <2>1. CASE exec'[u].n = 0
      BY <1>1, <1>2, <2>1
    <2>2. CASE exec[u].q = q /\ exec'[u].n = exec[u].n
      <3>1. jobCount[q] >= Cardinality(InFlight(q)) + Len(jobs[q]) + exec[u].n
        BY <2>2 DEF CountOK, Fetched
      <3>2. QED
        BY <1>1, <2>2, <3>1
    <2>3. QED
      BY <1>3, <2>1, <2>2
  <1>4. QED
    BY <1>2, <1>3 DEF CountOK, Fetched

\* At most one thread executes q.
LEMMA FetchedUnique ==
  ASSUME NEW q \in Queues, TokenInv, NEW t \in Fetched(q), NEW u \in Fetched(q)
  PROVE  t = u
  BY DEF TokenInv, TokenOK, HasToken, Executing, Fetched

\* Every step keeps the counter at least what it has to account for.
LEMMA CountStep ==
  ASSUME TypeOK, TypeOK', FrameInv, TokenInv, CountInv, [Next]_vars
  PROVE  CountInv'
  <1>0. /\ push \in [Threads -> PushFrame] /\ exec \in [Threads -> ExecFrame]
        /\ jobCount \in [Queues -> Nat] /\ jobs \in [Queues -> Seq(Jobs)]
        /\ \A q \in Queues : q # NoQueue /\ Len(jobs[q]) \in Nat /\ Len(jobs'[q]) \in Nat
    <2>1. jobs \in [Queues -> Seq(Jobs)] /\ jobs' \in [Queues -> Seq(Jobs)]
      BY DEF TypeOK
    <2>2. \A q \in Queues : Len(jobs[q]) \in Nat /\ Len(jobs'[q]) \in Nat
      BY <2>1
    <2>3. QED
      BY <2>1, <2>2, Types
  <1> SUFFICES ASSUME NEW q \in Queues PROVE CountOK(q)'
    BY DEF CountInv
  <1>a. CountOK(q) /\ Cardinality(InFlight(q)) \in Nat /\ IsFiniteSet(InFlight(q))
    BY InFlightFinite DEF CountInv
  <1>1. CASE UNCHANGED vars
    <2>1. InFlight(q)' = InFlight(q)
      BY <1>1 DEF vars, InFlight
    <2>2. QED
      BY <1>0, <1>1, <1>a, <2>1, CountSame DEF vars
  <1>2. ASSUME NEW t \in Threads, NEW p \in Queues, NEW j \in Jobs, PushCount(t, p, j)
        PROVE  CountOK(q)'
    <2>1. /\ push[t] = NoPush /\ UNCHANGED <<jobs, exec>>
          /\ push' = [push EXCEPT ![t] = [stage |-> "item", q |-> p, job |-> j,
                                          first |-> jobCount[p] = 0]]
          /\ jobCount' = [jobCount EXCEPT ![p] = @ + 1]
      BY <1>2 DEF PushCount, CanPush, Idle
    <2>2. t \notin InFlight(q)
      BY <2>1 DEF InFlight, NoPush
    <2>3. push'[t].q = p /\ push'[t].stage = "item" /\ \A u \in Threads : u # t => push'[u] = push[u]
      BY <1>0, <2>1
    <2>4. CASE q # p
      <3>1. InFlight(q)' = InFlight(q)
        BY <2>2, <2>3, <2>4 DEF InFlight
      <3>2. jobCount'[q] = jobCount[q]
        BY <1>0, <2>1, <2>4
      <3>3. QED
        BY <1>0, <1>a, <2>1, <3>1, <3>2, CountSame
    <2>5. CASE q = p
      <3>1. InFlight(q)' = InFlight(q) \union {t}
        BY <2>3, <2>5 DEF InFlight
      <3>2. Cardinality(InFlight(q)') = Cardinality(InFlight(q)) + 1
        BY <1>a, <2>2, <3>1, FS_AddElement
      <3>3. jobCount'[q] = jobCount[q] + 1 /\ jobCount[q] \in Nat
        BY <1>0, <2>1, <2>5
      <3>4. \A u \in Threads : exec[u].n \in Nat
        BY DEF TypeOK
      <3>5. QED
        BY <1>0, <1>a, <2>1, <3>2, <3>3, <3>4 DEF CountOK, Fetched
    <2>6. QED
      BY <2>4, <2>5
  <1>3. ASSUME NEW p \in Queues, ClearJobs(p) PROVE CountOK(q)'
    <2>1. InFlight(q)' = InFlight(q) /\ UNCHANGED <<jobCount, exec>>
      BY <1>3 DEF ClearJobs, InFlight
    <2>2. Len(jobs'[q]) <= Len(jobs[q])
      BY <1>0, <1>3 DEF ClearJobs
    <2>3. QED
      BY <1>0, <1>a, <2>1, <2>2, CountSame
  <1>4. ASSUME NEW t \in Threads, ThreadStep(t) PROVE CountOK(q)'
    <2>0. FrameOK(t)
      BY DEF FrameInv
    <2>1. CASE PushItem(t)
      <3>0. PICK p \in Queues : push[t].q = p
        BY <2>0, <2>1 DEF PushItem, FrameOK
      <3>1. /\ push[t].stage = "item" /\ UNCHANGED <<jobCount, exec>>
            /\ jobs' = [jobs EXCEPT ![p] = Append(@, push[t].job)]
        BY <2>1, <3>0 DEF PushItem
      <3>2. push'[t].stage # "item" /\ \A u \in Threads : u # t => push'[u] = push[u]
        BY <1>0, <2>1 DEF PushItem, NoPush, PushFrame
      <3>3. CASE q # p
        <4>1. InFlight(q)' = InFlight(q)
          BY <3>0, <3>2, <3>3 DEF InFlight
        <4>2. Len(jobs'[q]) = Len(jobs[q])
          BY <1>0, <3>1, <3>3
        <4>3. QED
          BY <1>0, <1>a, <3>1, <4>1, <4>2, CountSame
      <3>4. CASE q = p
        <4>1. InFlight(q)' = InFlight(q) \ {t} /\ t \in InFlight(q)
          BY <3>0, <3>1, <3>2, <3>4 DEF InFlight
        <4>2. Cardinality(InFlight(q)') = Cardinality(InFlight(q)) - 1
          BY <1>a, <4>1, FS_RemoveElement
        <4>3. Len(jobs'[q]) = Len(jobs[q]) + 1
          <5>1. push[t].job \in Jobs
            BY <2>0, <3>1 DEF FrameOK, TypeOK
          <5>2. jobs[q] \in Seq(Jobs) /\ jobs'[q] = Append(jobs[q], push[t].job)
            BY <1>0, <3>1, <3>4
          <5>3. QED
            BY <5>1, <5>2
        <4>4. /\ jobCount[q] \in Nat
              /\ \A u \in Threads : exec[u].n \in Nat
          BY DEF TypeOK
        <4>5. QED
          BY <1>0, <1>a, <3>1, <4>2, <4>3, <4>4 DEF CountOK, Fetched
      <3>5. QED
        BY <3>3, <3>4
    <2>2. CASE PushInline(t) \/ GlobalPop(t)
      <3>1. /\ UNCHANGED <<jobs, jobCount>>
            /\ \/ push' = push
               \/ push[t].stage = "route" /\ push' = [push EXCEPT ![t] = NoPush]
            /\ \E p : exec' = [exec EXCEPT ![t] = [stage |-> "pop", q |-> p, batch |-> <<>>, n |-> 0]]
        BY <2>2 DEF PushInline, GlobalPop, BeginExecute
      <3>2. InFlight(q)' = InFlight(q)
        <4>1. CASE push' = push
          BY <4>1 DEF InFlight
        <4>2. CASE push[t].stage = "route" /\ push' = [push EXCEPT ![t] = NoPush]
          BY <1>0, <4>2 DEF InFlight, NoPush
        <4>3. QED
          BY <3>1, <4>1, <4>2
      <3>3. \A u \in Threads : exec'[u].n = 0 \/ exec'[u] = exec[u]
        BY <1>0, <3>1
      <3>4. \A u \in Threads : exec'[u].q = q =>
              exec'[u].n = 0 \/ (exec[u].q = q /\ exec'[u].n = exec[u].n)
        BY <3>3
      <3>5. jobCount'[q] = jobCount[q] /\ jobs'[q] = jobs[q]
        BY <3>1
      <3>6. QED
        BY <1>0, <1>a, <3>2, <3>4, <3>5, CountSame
    <2>3. CASE PushGlobal(t)
      <3>1. /\ UNCHANGED <<jobs, jobCount, exec>> /\ push[t].stage = "route"
            /\ push' = [push EXCEPT ![t] = NoPush]
        BY <2>3 DEF PushGlobal
      <3>2. InFlight(q)' = InFlight(q)
        BY <1>0, <3>1 DEF InFlight, NoPush
      <3>3. QED
        BY <1>0, <1>a, <3>1, <3>2, CountSame
    <2>4. CASE ExecPopAll(t)
      <3>0. PICK p \in Queues : exec[t].q = p
        BY <2>0, <2>4 DEF ExecPopAll, FrameOK
      <3>1. /\ UNCHANGED <<push, jobCount>> /\ jobs' = [jobs EXCEPT ![p] = <<>>]
            /\ \A u \in Threads : u # t => exec'[u] = exec[u]
            /\ exec'[t].q = p /\ exec'[t].n = Len(jobs[p])
        BY <1>0, <2>4, <3>0 DEF ExecPopAll, ExecFrame
      <3>2. InFlight(q)' = InFlight(q)
        BY <3>1 DEF InFlight
      <3>3. CASE q # p
        <4>1. jobs'[q] = jobs[q]
          BY <1>0, <3>1, <3>3
        <4>2. \A u \in Threads : exec'[u].q = q => exec[u].q = q /\ exec'[u].n = exec[u].n
          BY <3>1, <3>3
        <4>3. QED
          BY <1>0, <1>a, <3>1, <3>2, <4>1, <4>2, CountSame
      <3>4. CASE q = p
        <4>1. jobs'[q] = <<>> /\ Len(jobs'[q]) = 0
          BY <1>0, <3>1, <3>4
        <4>2. \A u \in Threads : exec'[u].q = q => u = t
          BY <3>0, <3>1, <3>4, FetchedUnique DEF Fetched
        <4>3. jobCount[q] >= Cardinality(InFlight(q)) + Len(jobs[q]) /\ jobCount[q] \in Nat
          BY <1>0, <1>a DEF CountOK
        <4>4. jobCount[q] >= Cardinality(InFlight(q)')
          BY <1>0, <1>a, <3>2, <4>3
        <4>5. jobCount[q] >= Cardinality(InFlight(q)') + exec'[t].n
          BY <1>0, <1>a, <3>1, <3>2, <3>4, <4>3
        <4>6. QED
          BY <1>0, <1>a, <3>1, <3>2, <4>1, <4>2, <4>4, <4>5 DEF CountOK, Fetched
      <3>5. QED
        BY <3>3, <3>4
    <2>5. CASE JobBegin(t) \/ JobEnd(t) \/ ExecAgain(t)
      <3>1. UNCHANGED <<push, jobCount, jobs>> /\ \A u \in Threads : u # t => exec'[u] = exec[u]
        BY <1>0, <2>5 DEF JobBegin, JobEnd, ExecAgain
      <3>2. exec'[t].q = exec[t].q /\ exec'[t].n = exec[t].n
        BY <1>0, <2>5 DEF JobBegin, JobEnd, ExecAgain, ExecFrame
      <3>3. InFlight(q)' = InFlight(q)
        BY <3>1 DEF InFlight
      <3>4. QED
        BY <1>0, <1>a, <3>1, <3>2, <3>3, CountSame
    <2>6. CASE ExecSub(t)
      <3>0. PICK p \in Queues : exec[t].q = p
        BY <2>0, <2>6 DEF ExecSub, FrameOK
      <3>1. /\ UNCHANGED <<push, jobs>> /\ jobCount' = [jobCount EXCEPT ![p] = @ - exec[t].n]
            /\ \/ exec' = [exec EXCEPT ![t] = NoExec]
               \/ exec' = [exec EXCEPT ![t].stage = "check", ![t].n = 0]
        BY <2>6, <3>0 DEF ExecSub, EndExecute
      <3>2. exec'[t].n = 0 /\ \A u \in Threads : u # t => exec'[u] = exec[u]
        BY <1>0, <3>1 DEF NoExec, ExecFrame
      <3>3. InFlight(q)' = InFlight(q)
        BY <3>1 DEF InFlight
      <3>4. CASE q # p
        <4>1. jobCount'[q] = jobCount[q]
          BY <1>0, <3>1, <3>4
        <4>2. \A u \in Threads : exec'[u].q = q =>
                exec'[u].n = 0 \/ (exec[u].q = q /\ exec'[u].n = exec[u].n)
          BY <3>2
        <4>3. Len(jobs'[q]) \in Nat /\ Len(jobs'[q]) <= Len(jobs[q])
          BY <1>0, <3>1
        <4>4. QED
          BY <1>0, <1>a, <3>3, <4>1, <4>2, <4>3, CountSame
      <3>5. CASE q = p
        <4>1. t \in Fetched(q) /\ exec[t].n \in Nat
          BY <1>0, <3>0, <3>5 DEF Fetched, ExecFrame
        <4>2. jobCount[q] >= Cardinality(InFlight(q)) + Len(jobs[q]) + exec[t].n
          BY <1>a, <4>1 DEF CountOK
        <4>3. jobCount'[q] = jobCount[q] - exec[t].n
          BY <1>0, <3>1, <3>5
        <4>4. jobCount'[q] >= Cardinality(InFlight(q)) + Len(jobs[q])
          BY <1>0, <1>a, <4>1, <4>2, <4>3
        <4>5. \A u \in Threads : exec'[u].q = q => u = t
          BY <3>2, <4>1, FetchedUnique DEF Fetched
        <4>6. QED
          BY <1>0, <1>a, <3>1, <3>2, <3>3, <4>4, <4>5 DEF CountOK, Fetched
      <3>6. QED
        BY <3>4, <3>5
    <2>7. CASE ExecYield(t)
      <3>1. UNCHANGED <<push, jobs, jobCount>> /\ exec' = [exec EXCEPT ![t] = NoExec]
        BY <2>7 DEF ExecYield, EndExecute
      <3>2. InFlight(q)' = InFlight(q)
        BY <3>1 DEF InFlight
      <3>3. \A u \in Threads : exec'[u].n = 0 \/ exec'[u] = exec[u]
        BY <1>0, <3>1 DEF NoExec
      <3>4. \A u \in Threads : exec'[u].q = q =>
              exec'[u].n = 0 \/ (exec[u].q = q /\ exec'[u].n = exec[u].n)
        BY <3>3
      <3>5. QED
        BY <1>0, <1>a, <3>1, <3>2, <3>4, CountSame
    <2>8. CASE EndDispatch(t) \/ EndTimers(t) \/ EndGlobalWork(t)
      <3>1. UNCHANGED <<jobs, jobCount, push, exec>>
        BY <2>8 DEF EndDispatch, EndTimers, EndGlobalWork
      <3>2. InFlight(q)' = InFlight(q)
        BY <3>1 DEF InFlight
      <3>3. QED
        BY <1>0, <1>a, <3>1, <3>2, CountSame
    <2>9. QED
      BY <1>4, <2>1, <2>2, <2>3, <2>4, <2>5, <2>6, <2>7, <2>8 DEF ThreadStep
  <1>5. QED
    BY <1>1, <1>2, <1>3, <1>4 DEF Next

-----------------------------------------------------------------------------
\* No thread is inside a queue at the start and all counters are zero.
LEMMA QueueInvInit == Init => QueueInv
  <1> SUFFICES ASSUME Init PROVE QueueInv
    OBVIOUS
  <1>1. TypeOK
    BY EmptyFrames, Types DEF Init
  <1>2. FrameInv
    BY DEF Init, FrameInv, FrameOK, NoPush, NoExec
  <1>3. TokenInv
    BY DEF Init, TokenInv, TokenOK, HasToken, Pushing, Executing, Waiting, NoPush, NoExec
  <1>4. CountInv
    <2>1. \A q \in Queues : InFlight(q) = {} /\ Fetched(q) = {}
      BY DEF Init, InFlight, Fetched, NoPush, NoExec
    <2>2. \A q \in Queues : jobCount[q] = 0 /\ Len(jobs[q]) = 0
      BY DEF Init
    <2>3. Cardinality({}) = 0
      BY FS_EmptySet
    <2>4. ASSUME NEW q \in Queues PROVE CountOK(q)
      <3>1. Cardinality(InFlight(q)) = 0 /\ Fetched(q) = {}
        BY <2>1, <2>3
      <3>2. QED
        BY <2>2, <3>1 DEF CountOK
    <2>5. QED
      BY <2>4 DEF CountInv
  <1>5. QED
    BY <1>1, <1>2, <1>3, <1>4 DEF QueueInv

\* QueueInv is inductive.
LEMMA QueueInvNext == QueueInv /\ [Next]_vars => QueueInv'
  BY TypeStep, FrameStep, TokenStep, CountStep DEF QueueInv

\* At every point inside Push and Execute the atomic counter of a queue is
\* positive exactly while one thread, or the global queue, owns the queue.
THEOREM QueueInvariant == Spec => []QueueInv
  <1>1. QED
    BY QueueInvInit, QueueInvNext, PTL DEF Spec

\* Two workers never execute jobs of one queue at the same time.
THEOREM QueueSerialExecution == Spec => []SerialExecution
  <1>1. QueueInv => SerialExecution
    BY DEF QueueInv, FrameInv, FrameOK, TokenInv, TokenOK, HasToken, Executing, SerialExecution
  <1>2. QED
    BY <1>1, QueueInvariant, PTL

\* A job in a container always has somebody who will execute its queue.
THEOREM QueueNoLostWakeup == Spec => []NoLostWakeup
  <1>1. ASSUME QueueInv PROVE NoLostWakeup
    <2>1. SUFFICES ASSUME NEW q \in Queues, jobs[q] # <<>>
                   PROVE  Waiting(q) \/ \E t \in Threads : HasToken(t, q)
      BY DEF NoLostWakeup
    <2>2. Len(jobs[q]) \in Nat /\ Len(jobs[q]) > 0 /\ jobCount[q] \in Nat
      BY <1>1, <2>1 DEF QueueInv, TypeOK
    <2>3. Cardinality(InFlight(q)) \in Nat /\ CountOK(q) /\ TokenOK(q)
      BY <1>1, InFlightFinite DEF QueueInv, CountInv, TokenInv
    <2>4. jobCount[q] > 0
      BY <2>2, <2>3 DEF CountOK
    <2>5. QED
      BY <2>3, <2>4 DEF TokenOK
  <1>2. QED
    BY <1>1, QueueInvariant, PTL
-----------------------------------------------------------------------------
(***************************************************************************)
(* The refinement of SerialQueue.  At most one thread has a frame of       *)
(* Execute for a queue (TokenInv), so the two CHOOSE of the mapping pick   *)
(* that thread.                                                            *)
(***************************************************************************)

\* Two pushes under way never carry the same job.
ItemsInv ==
  \A t, u \in Threads :
    push[t].stage = "item" /\ push[u].stage = "item" /\ push[t].job = push[u].job => t = u

\* A push under way begins with a job nobody has pushed.
LEMMA ItemsStep ==
  ASSUME TypeOK, FrameInv, ItemsInv, [Next]_vars
  PROVE  ItemsInv'
  <1>0. push \in [Threads -> PushFrame]
    BY Types
  <1>1. ASSUME NEW t \in Threads, NEW q \in Queues, NEW j \in Jobs, PushCount(t, q, j)
        PROVE  ItemsInv'
    <2>1. /\ push'[t].job = j /\ \A u \in Threads : u # t => push'[u] = push[u]
          /\ j \notin pushed
      BY <1>0, <1>1 DEF PushCount
    <2>2. \A u \in Threads : u # t /\ push'[u].stage = "item" => push'[u].job # j
      BY <2>1 DEF FrameInv, FrameOK
    <2>3. QED
      BY <2>1, <2>2 DEF ItemsInv
  <1>2. ASSUME NEW t \in Threads, ThreadStep(t) PROVE ItemsInv'
    <2>1. \/ push' = push
          \/ push' = [push EXCEPT ![t] = NoPush]
          \/ push' = [push EXCEPT ![t] = [@ EXCEPT !.stage = "route"]]
      BY <1>2 DEF ThreadStep, PushItem, PushInline, PushGlobal, ExecPopAll, JobBegin, JobEnd,
         ExecSub, ExecAgain, ExecYield, EndDispatch, EndTimers, GlobalPop, EndGlobalWork
    <2>2. \A u \in Threads : push'[u] = push[u] \/ push'[u].stage # "item"
      BY <1>0, <2>1 DEF NoPush, PushFrame
    <2>3. QED
      BY <2>2 DEF ItemsInv
  <1>3. CASE UNCHANGED push
    BY <1>3 DEF ItemsInv
  <1>4. QED
    BY <1>1, <1>2, <1>3 DEF Next, ClearJobs, vars

\* No two pushes under way carry the same job.
LEMMA ItemsInvariant == Spec => []ItemsInv
  <1>1. Init => ItemsInv
    BY DEF Init, ItemsInv, NoPush
  <1>2. QueueInv /\ ItemsInv /\ [Next]_vars => ItemsInv'
    BY ItemsStep DEF QueueInv
  <1>3. QED
    BY <1>1, <1>2, QueueInvariant, PTL DEF Spec

\* The mapping as a function of the frames of Execute.
FetchedIn(E, q) == {t \in Threads : E[t].q = q}
RestIn(E, t)    == IF E[t].stage = "job" THEN Tail(E[t].batch) ELSE E[t].batch
RestOfIn(E, q)  == IF FetchedIn(E, q) = {} THEN <<>>
                   ELSE RestIn(E, CHOOSE t \in FetchedIn(E, q) : TRUE)
ActiveIn(E, q)  == IF \E t \in FetchedIn(E, q) : E[t].stage = "job"
                   THEN Head(E[CHOOSE t \in FetchedIn(E, q) : E[t].stage = "job"].batch)
                   ELSE NoJob

\* Nothing of a queue that nobody executes is fetched or active.
LEMMA NobodyFetched ==
  ASSUME NEW E, NEW q, \A u \in Threads : E[u].q # q
  PROVE  RestOfIn(E, q) = <<>> /\ ActiveIn(E, q) = NoJob
  BY DEF FetchedIn, RestOfIn, ActiveIn

\* What is fetched and active of a queue is in the frame of the thread executing it.
LEMMA SomebodyFetched ==
  ASSUME NEW E, NEW q, NEW t \in Threads, E[t].q = q, \A u \in Threads : E[u].q = q => u = t
  PROVE  /\ RestOfIn(E, q) = RestIn(E, t)
         /\ ActiveIn(E, q) = IF E[t].stage = "job" THEN Head(E[t].batch) ELSE NoJob
  <1>1. FetchedIn(E, q) = {t}
    BY DEF FetchedIn
  <1>2. (CHOOSE u \in FetchedIn(E, q) : TRUE) = t
    BY <1>1
  <1>3. RestOfIn(E, q) = RestIn(E, t)
    BY <1>1, <1>2 DEF RestOfIn
  <1>4. CASE E[t].stage = "job"
    <2>1. (CHOOSE u \in FetchedIn(E, q) : E[u].stage = "job") = t
      BY <1>1, <1>4
    <2>2. QED
      BY <1>1, <1>3, <1>4, <2>1 DEF ActiveIn
  <1>5. CASE E[t].stage # "job"
    BY <1>1, <1>3, <1>5 DEF ActiveIn
  <1>6. QED
    BY <1>4, <1>5

\* The mapping is that function of exec, before and after a step.
LEMMA FetchedNow ==
  ASSUME NEW q
  PROVE  /\ RestOf(q) = RestOfIn(exec, q) /\ ActiveOf(q) = ActiveIn(exec, q)
         /\ RestOf(q)' = RestOfIn(exec', q) /\ ActiveOf(q)' = ActiveIn(exec', q)
  BY DEF RestOf, ActiveOf, Rest, Started, Fetched, RestOfIn, ActiveIn, RestIn, FetchedIn

\* At most one thread executes q, before and after a step.
LEMMA FetchedOnce ==
  ASSUME NEW q \in Queues, TokenInv, TokenInv', NEW t \in Threads, NEW u \in Threads
  PROVE  /\ exec[t].q = q /\ exec[u].q = q => t = u
         /\ exec'[t].q = q /\ exec'[u].q = q => t = u
  BY DEF TokenInv, TokenOK, HasToken, Executing

\* A step of thread t leaves what is fetched and active of the queues that t
\* executes neither before nor after it.
LEMMA FetchedElsewhere ==
  ASSUME NEW q \in Queues, NEW t \in Threads, TokenInv, TokenInv',
         exec[t].q # q, exec'[t].q # q, \A u \in Threads : u # t => exec'[u] = exec[u]
  PROVE  RestOf(q)' = RestOf(q) /\ ActiveOf(q)' = ActiveOf(q)
  <1>1. CASE \A u \in Threads : exec[u].q # q
    <2>1. \A u \in Threads : exec'[u].q # q
      BY <1>1
    <2>2. QED
      BY <1>1, <2>1, NobodyFetched, FetchedNow
  <1>2. ASSUME NEW v \in Threads, exec[v].q = q
        PROVE  RestOf(q)' = RestOf(q) /\ ActiveOf(q)' = ActiveOf(q)
    <2>1. exec'[v] = exec[v]
      BY <1>2
    <2>2. \A u \in Threads : /\ exec[u].q = q => u = v
                             /\ exec'[u].q = q => u = v
      BY <1>2, <2>1, FetchedOnce
    <2>3. /\ RestOfIn(exec, q) = RestIn(exec, v) /\ RestOfIn(exec', q) = RestIn(exec', v)
          /\ ActiveIn(exec, q) = IF exec[v].stage = "job" THEN Head(exec[v].batch) ELSE NoJob
          /\ ActiveIn(exec', q) = IF exec'[v].stage = "job" THEN Head(exec'[v].batch) ELSE NoJob
      BY <1>2, <2>1, <2>2, SomebodyFetched
    <2>4. QED
      BY <2>1, <2>3, FetchedNow DEF RestIn
  <1>3. QED
    BY <1>1, <1>2

\* What a thread has fetched of a queue it executes before and after its step.
LEMMA FetchedHere ==
  ASSUME NEW q \in Queues, NEW t \in Threads, TokenInv, TokenInv', FrameInv
  PROVE  /\ exec[t].q = q =>
              /\ RestOf(q) = RestIn(exec, t)
              /\ ActiveOf(q) = IF exec[t].stage = "job" THEN Head(exec[t].batch) ELSE NoJob
         /\ exec'[t].q = q =>
              /\ RestOf(q)' = RestIn(exec', t)
              /\ ActiveOf(q)' = IF exec'[t].stage = "job" THEN Head(exec'[t].batch) ELSE NoJob
  <1>1. ASSUME exec[t].q = q
        PROVE  /\ RestOf(q) = RestIn(exec, t)
               /\ ActiveOf(q) = IF exec[t].stage = "job" THEN Head(exec[t].batch) ELSE NoJob
    <2>1. \A u \in Threads : exec[u].q = q => u = t
      BY <1>1, FetchedOnce
    <2>2. QED
      BY <1>1, <2>1, SomebodyFetched, FetchedNow
  <1>2. ASSUME exec'[t].q = q
        PROVE  /\ RestOf(q)' = RestIn(exec', t)
               /\ ActiveOf(q)' = IF exec'[t].stage = "job" THEN Head(exec'[t].batch) ELSE NoJob
    <2>1. \A u \in Threads : exec'[u].q = q => u = t
      BY <1>2, FetchedOnce
    <2>2. QED
      BY <1>2, <2>1, SomebodyFetched, FetchedNow
  <1>3. QED
    BY <1>1, <1>2

\* What is fetched of a queue is a sequence of jobs.
LEMMA FetchedJobs ==
  ASSUME NEW q \in Queues, TypeOK, FrameInv, TokenInv
  PROVE  RestOf(q) \in Seq(Jobs)
  <1>1. CASE \A u \in Threads : exec[u].q # q
    <2>1. RestOf(q) = <<>>
      BY <1>1, NobodyFetched, FetchedNow
    <2>2. QED
      BY <2>1
  <1>2. ASSUME NEW t \in Threads, exec[t].q = q PROVE RestOf(q) \in Seq(Jobs)
    <2>1. \A u \in Threads : exec[u].q = q => u = t
      BY <1>2 DEF TokenInv, TokenOK, HasToken, Executing
    <2>2. RestOf(q) = RestIn(exec, t)
      BY <1>2, <2>1, SomebodyFetched, FetchedNow
    <2>3. exec[t].batch \in Seq(Jobs) /\ (exec[t].stage = "job" => exec[t].batch # <<>>)
      BY DEF TypeOK, FrameInv, FrameOK
    <2>4. QED
      BY <2>2, <2>3 DEF RestIn
  <1>3. QED
    BY <1>1, <1>2

-----------------------------------------------------------------------------
\* What the mapping gives pending and active.
Pend == [q \in Queues |-> RestOf(q) \o jobs[q]]
Act  == [q \in Queues |-> ActiveOf(q)]

\* The steps of the serial queue, over the mapping.
SerialNext ==
  \E q \in Queues :
    \/ \E j \in Jobs \ SubmittedJobs :
         /\ SubmittedJobs' = SubmittedJobs \union {j}
         /\ Pend' = [Pend EXCEPT ![q] = Append(@, j)] /\ Act' = Act
    \/ /\ Act[q] = NoJob /\ Pend[q] # <<>>
       /\ Act' = [Act EXCEPT ![q] = Head(Pend[q])]
       /\ Pend' = [Pend EXCEPT ![q] = Tail(@)] /\ SubmittedJobs' = SubmittedJobs
    \/ /\ Act[q] # NoJob
       /\ Act' = [Act EXCEPT ![q] = NoJob]
       /\ Pend' = Pend /\ SubmittedJobs' = SubmittedJobs
    \/ /\ \E k \in 0..Len(Pend[q]) : Pend' = [Pend EXCEPT ![q] = SubSeq(@, 1, k)]
       /\ Act' = Act /\ SubmittedJobs' = SubmittedJobs

\* Or a step the serial queue does not see.
SerialStep == SerialNext \/ (SubmittedJobs' = SubmittedJobs /\ Pend' = Pend /\ Act' = Act)

\* Appending to the container appends to what is pending.
LEMMA ConcatAppend ==
  ASSUME NEW S, NEW u \in Seq(S), NEW v \in Seq(S), NEW e \in S
  PROVE  u \o Append(v, e) = Append(u \o v, e)
  <1>1. Append(v, e) = v \o <<e>> /\ Append(u \o v, e) = (u \o v) \o <<e>> /\ <<e>> \in Seq(S)
    BY AppendIsConcat, ConcatProperties
  <1>2. QED
    BY <1>1, ConcatAssociative

\* The oldest pending job is the head of what is fetched.
LEMMA ConcatHead ==
  ASSUME NEW S, NEW u \in Seq(S), NEW v \in Seq(S), u # <<>>
  PROVE  u \o v # <<>> /\ Head(u \o v) = Head(u) /\ Tail(u \o v) = Tail(u) \o v
  OBVIOUS

\* What is fetched is what is pending without the container.
LEMMA ConcatPrefix ==
  ASSUME NEW S, NEW u \in Seq(S), NEW v \in Seq(S)
  PROVE  Len(u) \in 0..Len(u \o v) /\ SubSeq(u \o v, 1, Len(u)) = u
  <1>1. Len(u) \in Nat /\ Len(v) \in Nat /\ Len(u \o v) = Len(u) + Len(v) /\ SubSeq(u, 1, Len(u)) = u
    BY LenProperties, ConcatProperties, SubSeqFull
  <1>2. SubSeq(u \o v, 1, Len(u)) = SubSeq(u, 1, Len(u))
    <2>1. CASE u = <<>>
      BY <1>1, <2>1, SubSeqEmpty, ConcatProperties
    <2>2. CASE u # <<>>
      <3>1. Len(u) \in 1..Len(u) /\ 1 \in 1..Len(u)
        BY <1>1, <2>2, EmptySeq
      <3>2. QED
        BY <3>1, SubSeqOfConcat1
    <2>3. QED
      BY <2>1, <2>2
  <1>3. QED
    BY <1>1, <1>2

-----------------------------------------------------------------------------
\* A step of thread t inside Execute of p: the other queues do not see it.
LEMMA ExecuteSteps ==
  ASSUME NEW t \in Threads, NEW p \in Queues, TypeOK, TypeOK', FrameInv, TokenInv, TokenInv',
         pushed' = pushed, push' = push, jobs' = [jobs EXCEPT ![p] = jobs'[p]],
         \A u \in Threads : u # t => exec'[u] = exec[u],
         exec[t].q \in {p, NoQueue}, exec'[t].q \in {p, NoQueue}
  PROVE  /\ SubmittedJobs' = SubmittedJobs
         /\ Pend' = [Pend EXCEPT ![p] = RestOf(p)' \o jobs'[p]]
         /\ Act' = [Act EXCEPT ![p] = ActiveOf(p)']
  <1>1. SubmittedJobs' = SubmittedJobs
    BY DEF SubmittedJobs
  <1>2. ASSUME NEW q \in Queues, q # p
        PROVE  RestOf(q)' = RestOf(q) /\ ActiveOf(q)' = ActiveOf(q) /\ jobs'[q] = jobs[q]
    <2>1. exec[t].q # q /\ exec'[t].q # q
      BY <1>2
    <2>2. jobs'[q] = jobs[q]
      BY <1>2 DEF TypeOK
    <2>3. QED
      BY <2>1, <2>2, FetchedElsewhere
  <1>3. Pend' = [Pend EXCEPT ![p] = RestOf(p)' \o jobs'[p]]
    BY <1>2 DEF Pend
  <1>4. Act' = [Act EXCEPT ![p] = ActiveOf(p)']
    BY <1>2 DEF Act
  <1>5. QED
    BY <1>1, <1>3, <1>4

\* A step inside Execute of p after which as much is fetched, pending and active.
LEMMA ExecuteStutters ==
  ASSUME NEW t \in Threads, NEW p \in Queues, TypeOK, TypeOK', FrameInv, TokenInv, TokenInv',
         pushed' = pushed, push' = push, jobs' = [jobs EXCEPT ![p] = jobs'[p]],
         \A u \in Threads : u # t => exec'[u] = exec[u],
         exec[t].q \in {p, NoQueue}, exec'[t].q \in {p, NoQueue},
         RestOf(p)' \o jobs'[p] = RestOf(p) \o jobs[p], ActiveOf(p)' = ActiveOf(p)
  PROVE  SerialStep
  <1>1. /\ SubmittedJobs' = SubmittedJobs
        /\ Pend' = [Pend EXCEPT ![p] = RestOf(p) \o jobs[p]]
        /\ Act' = [Act EXCEPT ![p] = ActiveOf(p)]
    BY ExecuteSteps
  <1>2. Pend' = Pend /\ Act' = Act
    BY <1>1 DEF Pend, Act
  <1>3. QED
    BY <1>1, <1>2 DEF SerialStep

\* Every step of the job queues is a step of the serial queue, or changes
\* nothing of it.
LEMMA QueueSerialStep ==
  ASSUME QueueInv, QueueInv', ItemsInv, [Next]_vars
  PROVE  SerialStep
  <1> USE DEF QueueInv
  <1>0. /\ push \in [Threads -> PushFrame] /\ exec \in [Threads -> ExecFrame]
        /\ jobs \in [Queues -> Seq(Jobs)] /\ pushed \in SUBSET Jobs
        /\ \A q \in Queues : q # NoQueue
    BY Types
  \* A step that does not touch Execute.
  <1>1. ASSUME exec' = exec, jobs' = jobs, SubmittedJobs' = SubmittedJobs
        PROVE  SerialStep
    <2>1. \A q \in Queues : RestOf(q)' = RestOf(q) /\ ActiveOf(q)' = ActiveOf(q)
      BY <1>1, FetchedNow
    <2>2. QED
      BY <1>1, <2>1 DEF SerialStep, Pend, Act
  <1>2. CASE UNCHANGED vars
    <2>1. SubmittedJobs' = SubmittedJobs
      BY <1>2 DEF SubmittedJobs, vars
    <2>2. QED
      BY <1>1, <1>2, <2>1 DEF vars
  <1>3. ASSUME NEW t \in Threads, NEW q \in Queues, NEW j \in Jobs, PushCount(t, q, j)
        PROVE  SerialStep
    <2>1. /\ exec' = exec /\ jobs' = jobs /\ pushed' = pushed \union {j} /\ j \notin pushed
          /\ push[t].stage # "item"
          /\ push'[t].stage = "item" /\ push'[t].job = j
          /\ \A u \in Threads : u # t => push'[u] = push[u]
      BY <1>0, <1>3 DEF PushCount, CanPush, Idle, NoPush
    <2>2. \A u \in Threads : push[u].stage = "item" => push[u].job # j
      BY <2>1 DEF FrameInv, FrameOK
    <2>3. SubmittedJobs' = SubmittedJobs
      BY <2>1, <2>2 DEF SubmittedJobs
    <2>4. QED
      BY <1>1, <2>1, <2>3
  <1>4. ASSUME NEW p \in Queues, ClearJobs(p) PROVE SerialStep
    <2>1. /\ exec' = exec /\ push' = push /\ pushed' = pushed
          /\ jobs' = [jobs EXCEPT ![p] = <<>>]
      BY <1>4 DEF ClearJobs
    <2>2. SubmittedJobs' = SubmittedJobs
      BY <2>1 DEF SubmittedJobs
    <2>3. \A q \in Queues : /\ RestOf(q)' = RestOf(q) /\ ActiveOf(q)' = ActiveOf(q)
                            /\ RestOf(q) \in Seq(Jobs) /\ jobs[q] \in Seq(Jobs)
      BY <1>0, <2>1, FetchedNow, FetchedJobs
    <2>4. /\ Act' = Act
          /\ Pend' = [Pend EXCEPT ![p] = RestOf(p) \o <<>>]
      BY <1>0, <2>1, <2>3 DEF Pend, Act
    <2>5. RestOf(p) \o <<>> = RestOf(p)
      BY <2>3, ConcatEmptySeq
    <2>6. /\ Len(RestOf(p)) \in 0..Len(RestOf(p) \o jobs[p])
          /\ SubSeq(RestOf(p) \o jobs[p], 1, Len(RestOf(p))) = RestOf(p)
      BY <2>3, ConcatPrefix
    <2>7. Pend[p] = RestOf(p) \o jobs[p]
      BY DEF Pend
    <2>8. \E k \in 0..Len(Pend[p]) : Pend' = [Pend EXCEPT ![p] = SubSeq(@, 1, k)]
      BY <2>4, <2>5, <2>6, <2>7
    <2>9. QED
      BY <2>2, <2>4, <2>8 DEF SerialStep, SerialNext
  <1>5. ASSUME NEW t \in Threads, ThreadStep(t) PROVE SerialStep
    <2>0. FrameOK(t) /\ FrameOK(t)'
      BY DEF FrameInv
    <2>1. CASE PushItem(t)
      <3>1. PICK p \in Queues, j \in Jobs : push[t].q = p /\ push[t].job = j /\ j \in pushed
        BY <1>0, <2>0, <2>1 DEF PushItem, FrameOK
      <3>2. /\ exec' = exec /\ pushed' = pushed /\ push[t].stage = "item"
            /\ jobs' = [jobs EXCEPT ![p] = Append(@, j)]
        BY <2>1, <3>1 DEF PushItem
      <3>3. push'[t].stage # "item" /\ \A u \in Threads : u # t => push'[u] = push[u]
        BY <1>0, <2>1 DEF PushItem, NoPush, PushFrame
      <3>4. SubmittedJobs' = SubmittedJobs \union {j} /\ j \notin SubmittedJobs
        BY <3>1, <3>2, <3>3 DEF SubmittedJobs, ItemsInv
      <3>5. \A q \in Queues : /\ RestOf(q)' = RestOf(q) /\ ActiveOf(q)' = ActiveOf(q)
                              /\ RestOf(q) \in Seq(Jobs) /\ jobs[q] \in Seq(Jobs)
        BY <1>0, <3>2, FetchedNow, FetchedJobs
      <3>6. RestOf(p) \o Append(jobs[p], j) = Append(RestOf(p) \o jobs[p], j)
        BY <3>5, ConcatAppend
      <3>7. Act' = Act /\ Pend' = [Pend EXCEPT ![p] = RestOf(p) \o Append(jobs[p], j)]
        BY <1>0, <3>2, <3>5 DEF Pend, Act
      <3>8. Pend' = [Pend EXCEPT ![p] = Append(@, j)]
        BY <3>6, <3>7 DEF Pend
      <3>9. QED
        BY <3>4, <3>7, <3>8 DEF SerialStep, SerialNext
    <2>2. CASE PushInline(t) \/ GlobalPop(t)
      <3>1. /\ jobs' = jobs /\ pushed' = pushed /\ exec[t].stage = "none"
            /\ \E p : exec' = [exec EXCEPT ![t] = [stage |-> "pop", q |-> p, batch |-> <<>>, n |-> 0]]
            /\ push' = push \/ (push[t].stage # "item" /\ push' = [push EXCEPT ![t] = NoPush])
        BY <1>0, <2>0, <2>2 DEF PushInline, GlobalPop, BeginExecute, Idle, NoExec, FrameOK
      <3>2. PICK p : exec' = [exec EXCEPT ![t] = [stage |-> "pop", q |-> p, batch |-> <<>>, n |-> 0]]
        BY <3>1
      <3>3. /\ exec[t].q = NoQueue
            /\ exec'[t] = [stage |-> "pop", q |-> p, batch |-> <<>>, n |-> 0]
            /\ \A u \in Threads : u # t => exec'[u] = exec[u]
        BY <1>0, <2>0, <3>1, <3>2 DEF FrameOK, NoExec
      <3>4. p \in Queues
        BY <2>0, <3>3 DEF FrameOK
      <3>5. \A u \in Threads : exec[u].q # p
        BY <1>0, <3>3, <3>4, FetchedOnce
      <3>6. RestOf(p) = <<>> /\ ActiveOf(p) = NoJob /\ RestOf(p)' = <<>> /\ ActiveOf(p)' = NoJob
        BY <3>3, <3>4, <3>5, NobodyFetched, FetchedNow, FetchedHere DEF RestIn
      <3>7. ASSUME NEW q \in Queues PROVE RestOf(q)' = RestOf(q) /\ ActiveOf(q)' = ActiveOf(q)
        <4>1. CASE q = p
          BY <3>6, <4>1
        <4>2. CASE q # p
          BY <1>0, <3>3, <4>2, FetchedElsewhere
        <4>3. QED
          BY <4>1, <4>2
      <3>8. SubmittedJobs' = SubmittedJobs
        <4>1. \A u \in Threads : push'[u] = push[u] \/ (push[u].stage # "item" /\ push'[u] = NoPush)
          BY <1>0, <3>1
        <4>2. \A u \in Threads : push'[u].stage = "item" <=> push[u].stage = "item"
          BY <4>1 DEF NoPush
        <4>3. \A u \in Threads : push'[u].stage = "item" => push'[u].job = push[u].job
          BY <4>1 DEF NoPush
        <4>4. QED
          BY <3>1, <4>2, <4>3 DEF SubmittedJobs
      <3>9. QED
        BY <3>1, <3>7, <3>8 DEF SerialStep, Pend, Act
    <2>3. CASE PushGlobal(t)
      <3>1. /\ exec' = exec /\ jobs' = jobs /\ pushed' = pushed
            /\ push[t].stage # "item" /\ push' = [push EXCEPT ![t] = NoPush]
        BY <2>3 DEF PushGlobal
      <3>2. SubmittedJobs' = SubmittedJobs
        BY <1>0, <3>1 DEF SubmittedJobs, NoPush
      <3>3. QED
        BY <1>1, <3>1, <3>2
    <2>4. CASE EndDispatch(t) \/ EndTimers(t) \/ EndGlobalWork(t)
      <3>1. exec' = exec /\ jobs' = jobs /\ pushed' = pushed /\ push' = push
        BY <2>4 DEF EndDispatch, EndTimers, EndGlobalWork
      <3>2. SubmittedJobs' = SubmittedJobs
        BY <3>1 DEF SubmittedJobs
      <3>3. QED
        BY <1>1, <3>1, <3>2
    <2> DEFINE Executes == ExecPopAll(t) \/ JobBegin(t) \/ JobEnd(t) \/ ExecSub(t)
                           \/ ExecAgain(t) \/ ExecYield(t)
    <2>5. CASE Executes
      <3>1. PICK p \in Queues : exec[t].q = p
        BY <2>0, <2>5 DEF ExecPopAll, JobBegin, JobEnd, ExecSub, ExecAgain, ExecYield, FrameOK
      <3>2. /\ pushed' = pushed /\ push' = push /\ exec[t].q \in {p, NoQueue}
            /\ jobs' = jobs \/ jobs' = [jobs EXCEPT ![p] = <<>>]
        BY <2>5, <3>1 DEF ExecPopAll, JobBegin, JobEnd, ExecSub, ExecAgain, ExecYield
      <3>3. jobs' = [jobs EXCEPT ![p] = jobs'[p]]
        BY <1>0, <3>2
      <3>4. \A u \in Threads : u # t => exec'[u] = exec[u]
        BY <1>0, <2>5 DEF ExecPopAll, JobBegin, JobEnd, ExecSub, ExecAgain, ExecYield, EndExecute
      <3>5. /\ RestOf(p) = RestIn(exec, t)
            /\ ActiveOf(p) = IF exec[t].stage = "job" THEN Head(exec[t].batch) ELSE NoJob
            /\ exec'[t].q = p =>
                 /\ RestOf(p)' = RestIn(exec', t)
                 /\ ActiveOf(p)' = IF exec'[t].stage = "job" THEN Head(exec'[t].batch) ELSE NoJob
        BY <3>1, FetchedHere
      <3>6. jobs[p] \in Seq(Jobs) /\ exec[t].batch \in Seq(Jobs) /\ RestOf(p) \in Seq(Jobs)
        BY <1>0, FetchedJobs DEF ExecFrame
      \* The thread has nothing fetched and leaves, or stays with nothing fetched.
      <3>7. ASSUME exec[t].batch = <<>>, exec[t].stage # "job", jobs' = jobs,
                   \/ exec' = [exec EXCEPT ![t] = NoExec]
                   \/ /\ exec'[t].q = p /\ exec'[t].batch = <<>> /\ exec'[t].stage # "job"
            PROVE  SerialStep
        <4>1. RestOf(p) = <<>> /\ ActiveOf(p) = NoJob
          BY <3>5, <3>7 DEF RestIn
        <4>2. exec'[t].q \in {p, NoQueue} /\ RestOf(p)' = <<>> /\ ActiveOf(p)' = NoJob
          <5>1. CASE exec' = [exec EXCEPT ![t] = NoExec]
            <6>1. exec'[t].q = NoQueue
              BY <1>0, <5>1 DEF NoExec
            <6>2. \A u \in Threads : exec'[u].q # p
              BY <1>0, <3>1, <3>4, <6>1, FetchedOnce
            <6>3. QED
              BY <6>1, <6>2, NobodyFetched, FetchedNow
          <5>2. CASE exec'[t].q = p /\ exec'[t].batch = <<>> /\ exec'[t].stage # "job"
            BY <3>5, <5>2 DEF RestIn
          <5>3. QED
            BY <3>7, <5>1, <5>2
        <4>3. QED
          BY <3>2, <3>3, <3>4, <3>7, <4>1, <4>2, ExecuteStutters
      <3>8. CASE ExecPopAll(t)
        <4>1. /\ exec[t].batch = <<>> /\ exec[t].stage # "job" /\ jobs'[p] = <<>>
              /\ exec'[t].q = p /\ exec'[t].batch = jobs[p] /\ exec'[t].stage = "run"
          BY <1>0, <2>0, <3>1, <3>8 DEF ExecPopAll, FrameOK, ExecFrame
        <4>2. /\ RestOf(p) = <<>> /\ ActiveOf(p) = NoJob
              /\ RestOf(p)' = jobs[p] /\ ActiveOf(p)' = NoJob
          BY <3>5, <4>1 DEF RestIn
        <4>3. RestOf(p)' \o jobs'[p] = RestOf(p) \o jobs[p]
          BY <3>6, <4>1, <4>2, ConcatEmptySeq
        <4>4. QED
          BY <3>2, <3>3, <3>4, <4>1, <4>2, <4>3, ExecuteStutters
      <3>9. CASE JobBegin(t)
        <4>1. /\ exec[t].batch # <<>> /\ exec[t].stage = "run" /\ jobs' = jobs
              /\ exec'[t].q = p /\ exec'[t].batch = exec[t].batch /\ exec'[t].stage = "job"
          BY <1>0, <3>1, <3>9 DEF JobBegin, ExecFrame
        <4>2. /\ RestOf(p) = exec[t].batch /\ ActiveOf(p) = NoJob
              /\ RestOf(p)' = Tail(exec[t].batch) /\ ActiveOf(p)' = Head(exec[t].batch)
          BY <3>5, <4>1 DEF RestIn
        <4>3. /\ SubmittedJobs' = SubmittedJobs
              /\ Pend' = [Pend EXCEPT ![p] = RestOf(p)' \o jobs'[p]]
              /\ Act' = [Act EXCEPT ![p] = ActiveOf(p)']
          BY <3>2, <3>3, <3>4, <4>1, ExecuteSteps
        <4>4. /\ Act[p] = NoJob /\ Pend[p] = exec[t].batch \o jobs[p]
          BY <4>2 DEF Pend, Act
        <4>5. /\ Pend[p] # <<>> /\ Head(Pend[p]) = ActiveOf(p)'
              /\ Tail(Pend[p]) = RestOf(p)' \o jobs'[p]
          <5> DEFINE b == exec[t].batch
                     v == jobs[p]
          <5>1. b \in Seq(Jobs) /\ v \in Seq(Jobs) /\ b # <<>>
            BY <3>6, <4>1
          <5> HIDE DEF b, v
          <5>2. b \o v # <<>> /\ Head(b \o v) = Head(b) /\ Tail(b \o v) = Tail(b) \o v
            BY <5>1, ConcatHead
          <5>3. QED
            BY <4>1, <4>2, <4>4, <5>2 DEF b, v
        <4>6. QED
          BY <4>3, <4>4, <4>5 DEF SerialStep, SerialNext
      <3>10. CASE JobEnd(t)
        <4>1. /\ exec[t].batch # <<>> /\ exec[t].stage = "job" /\ jobs' = jobs
              /\ exec'[t].q = p /\ exec'[t].batch = Tail(exec[t].batch) /\ exec'[t].stage = "run"
          BY <1>0, <2>0, <3>1, <3>10 DEF JobEnd, FrameOK, ExecFrame
        <4>2. /\ RestOf(p) = Tail(exec[t].batch) /\ ActiveOf(p) = Head(exec[t].batch)
              /\ RestOf(p)' = Tail(exec[t].batch) /\ ActiveOf(p)' = NoJob
          BY <3>5, <4>1 DEF RestIn
        <4>3. /\ SubmittedJobs' = SubmittedJobs
              /\ Pend' = [Pend EXCEPT ![p] = RestOf(p) \o jobs[p]]
              /\ Act' = [Act EXCEPT ![p] = NoJob]
          <5>1. /\ SubmittedJobs' = SubmittedJobs
                /\ Pend' = [Pend EXCEPT ![p] = RestOf(p)' \o jobs'[p]]
                /\ Act' = [Act EXCEPT ![p] = ActiveOf(p)']
            BY <3>2, <3>3, <3>4, <4>1, ExecuteSteps
          <5>2. QED
            BY <4>1, <4>2, <5>1
        <4>4. Pend' = Pend
          BY <4>3 DEF Pend
        <4>5. Head(exec[t].batch) \in Jobs
          BY <3>6, <4>1
        <4>6. Act[p] # NoJob
          BY <4>2, <4>5 DEF Act
        <4>7. QED
          BY <4>3, <4>4, <4>6 DEF SerialStep, SerialNext
      <3>11. CASE ExecSub(t)
        BY <1>0, <3>1, <3>7, <3>11 DEF ExecSub, EndExecute, ExecFrame
      <3>12. CASE ExecAgain(t)
        BY <1>0, <2>0, <3>1, <3>7, <3>12 DEF ExecAgain, FrameOK, ExecFrame
      <3>13. CASE ExecYield(t)
        BY <2>0, <3>7, <3>13 DEF ExecYield, EndExecute, FrameOK
      <3>14. QED
        BY <2>5, <3>8, <3>9, <3>10, <3>11, <3>12, <3>13
    <2>6. QED
      BY <1>5, <2>1, <2>2, <2>3, <2>4, <2>5 DEF ThreadStep
  <1>6. QED
    BY <1>2, <1>3, <1>4, <1>5 DEF Next

\* Push, Execute and the worker loop implement the serial queue: whoever runs
\* them, the jobs of a queue start in the order they reached its container, one
\* at a time, none twice.
THEOREM QueueIsSerial == Spec => RefinesSerialQueue
  <1>1. Init => Serial!Init
    <2> SUFFICES ASSUME Init PROVE Serial!Init
      OBVIOUS
    <2>1. \A t \in Threads : exec[t].q = NoQueue
      BY DEF Init, NoExec
    <2>2. \A q \in Queues : RestOf(q) = <<>> /\ ActiveOf(q) = NoJob /\ jobs[q] = <<>>
      BY <2>1, NobodyFetched, FetchedNow DEF Init
    <2>3. SubmittedJobs = {}
      BY DEF Init, SubmittedJobs
    <2>4. [q \in Queues |-> RestOf(q) \o jobs[q]] = [q \in Queues |-> <<>>]
      BY <2>2, ConcatEmptySeq
    <2>5. [q \in Queues |-> ActiveOf(q)] = [q \in Queues |-> NoJob]
      BY <2>2
    <2>6. QED
      BY <2>3, <2>4, <2>5 DEF Serial!Init
  <1>2. QueueInv /\ QueueInv' /\ ItemsInv /\ [Next]_vars => [Serial!Next]_(Serial!svars)
    <2> SUFFICES ASSUME QueueInv, QueueInv', ItemsInv, [Next]_vars
                 PROVE  [Serial!Next]_(Serial!svars)
      OBVIOUS
    <2>1. SerialStep
      BY QueueSerialStep
    <2>2. QED
      BY <2>1 DEF SerialStep, SerialNext, Pend, Act, Serial!Next, Serial!svars, Serial!Submit,
                  Serial!Start, Serial!Finish, Serial!Drop
  <1>3. QED
    BY <1>1, <1>2, QueueInvariant, ItemsInvariant, PTL DEF Spec, RefinesSerialQueue, Serial!Spec

-----------------------------------------------------------------------------
(* The timer on top of the queues.                                         *)

USE JobTimerAssumption

\* A step of the timer is a step of the queues, or leaves them alone.
LEMMA TimerStepIsQueueStep ==
  ASSUME TimerTypeOK, [TimerNext]_allVars
  PROVE  [Next]_vars
  <1>1. CASE UNCHANGED allVars
    BY <1>1 DEF allVars
  <1>2. ASSUME NEW t \in Threads, WorkerStep(t) PROVE [Next]_vars
    <2>1. CASE QueueStep(t)
      BY <2>1 DEF QueueStep, Next
    <2>2. CASE DistSkip(t) \/ DistEnd(t)
      BY <2>2 DEF DistSkip, DistEnd, ThreadStep, Next
    <2>3. CASE DistPush(t)
      <3>1. PICK x \in dist[t].taken : PushCount(t, x.q, x.job)
        BY <2>3 DEF DistPush, Foremost
      <3>2. x.q \in Queues /\ x.job \in Jobs
        BY DEF TimerTypeOK, Item
      <3>3. QED
        BY <3>1, <3>2 DEF Next
    <2>4. CASE ReserveInsert(t) \/ DistRead(t) \/ DistEnter(t) \/ DistCollect(t) \/ DistDrop(t)
      BY <2>4 DEF ReserveInsert, DistRead, DistEnter, DistCollect, DistDrop
    <2>5. QED
      BY <1>2, <2>1, <2>2, <2>3, <2>4 DEF WorkerStep
  <1>3. ASSUME NEW t \in Threads, NEW q \in Queues, NEW j \in Jobs,
               ReserveRead(t, q, j) \/ DirectPush(t, q, j)
        PROVE  [Next]_vars
    BY <1>3 DEF ReserveRead, DirectPush, Next
  <1>4. ASSUME NEW q \in Queues, Release(q) \/ TimerClearJobs(q) PROVE [Next]_vars
    BY <1>4 DEF Release, TimerClearJobs, Next
  <1>5. CASE ClearTimer \/ Tick
    BY <1>5 DEF ClearTimer, Tick
  <1>6. QED
    BY <1>1, <1>2, <1>3, <1>4, <1>5 DEF TimerNext

-----------------------------------------------------------------------------
\* Type correctness of every step.
LEMMA TimerTypeStep ==
  ASSUME TimerTypeOK, [TimerNext]_allVars
  PROVE  TimerTypeOK'
  <1> USE DEF TimerTypeOK
  <1>1. CASE UNCHANGED allVars
    BY <1>1 DEF allVars, timerVars
  <1>2. ASSUME NEW t \in Threads, WorkerStep(t) PROVE TimerTypeOK'
    <2>1. CASE QueueStep(t)
      BY <2>1 DEF QueueStep, timerVars
    <2>2. CASE ReserveInsert(t)
      <3>1. reserve[t] \in Item /\ items' \in SUBSET Item
        BY <2>2 DEF ReserveInsert
      <3>2. together' \in SUBSET (Jobs \X Jobs)
        BY <2>2 DEF ReserveInsert, Earlier
      <3>3. reserve' \in [Threads -> Item \union {NoItem}]
        BY <2>2 DEF ReserveInsert
      <3>4. UNCHANGED <<clock, distributing, dist, alive, reserved, timerClears>>
        BY <2>2 DEF ReserveInsert
      <3>5. QED
        BY <3>1, <3>2, <3>3, <3>4
    <2>3. CASE DistRead(t)
      BY <2>3 DEF DistRead
    <2>4. CASE DistSkip(t) \/ DistEnd(t)
      <3>1. dist' = [dist EXCEPT ![t] = NoDist] /\ distributing' \in BOOLEAN
        BY <2>4 DEF DistSkip, DistEnd
      <3>2. dist' \in [Threads -> [stage : {"none", "read", "collect", "push"}, now : Nat,
                                  taken : SUBSET Item]]
        BY <3>1 DEF NoDist
      <3>3. UNCHANGED <<clock, items, reserve, alive, reserved, together, timerClears>>
        BY <2>4 DEF DistSkip, DistEnd
      <3>4. QED
        BY <3>1, <3>2, <3>3
    <2>5. CASE DistEnter(t)
      BY <2>5 DEF DistEnter
    <2>6. CASE DistCollect(t)
      BY <2>6 DEF DistCollect
    <2>7. CASE DistPush(t) \/ DistDrop(t)
      <3>1. PICK x : dist' = [dist EXCEPT ![t].taken = @ \ {x}]
        BY <2>7 DEF DistPush, DistDrop
      <3>2. dist' \in [Threads -> [stage : {"none", "read", "collect", "push"}, now : Nat,
                                  taken : SUBSET Item]]
        BY <3>1
      <3>3. QED
        BY <2>7, <3>2 DEF DistPush, DistDrop
    <2>8. QED
      BY <1>2, <2>1, <2>2, <2>3, <2>4, <2>5, <2>6, <2>7 DEF WorkerStep
  <1>3. ASSUME NEW t \in Threads, NEW q \in Queues, NEW j \in Jobs,
               ReserveRead(t, q, j) \/ DirectPush(t, q, j)
        PROVE  TimerTypeOK'
    <2>1. CASE ReserveRead(t, q, j)
      <3>1. PICK after \in Delays :
              reserve' = [reserve EXCEPT ![t] = [tick |-> clock + after, q |-> q, job |-> j]]
        BY <2>1 DEF ReserveRead
      <3>2. [tick |-> clock + after, q |-> q, job |-> j] \in Item
        BY DEF Item
      <3>3. QED
        BY <2>1, <3>1, <3>2 DEF ReserveRead
    <2>2. QED
      BY <1>3, <2>1 DEF DirectPush, timerVars
  <1>4. ASSUME NEW q \in Queues, Release(q) \/ TimerClearJobs(q) PROVE TimerTypeOK'
    BY <1>4 DEF Release, TimerClearJobs, timerVars
  <1>5. CASE ClearTimer \/ Tick
    BY <1>5 DEF ClearTimer, Tick
  <1>6. QED
    BY <1>1, <1>2, <1>3, <1>4, <1>5 DEF TimerNext

\* One distributor at a time, and the flag says whether there is one.
LEMMA FlagStep ==
  ASSUME TimerTypeOK, FlagInv, [TimerNext]_allVars
  PROVE  FlagInv'
  <1> USE DEF FlagInv, Distributes
  <1>1. ASSUME UNCHANGED <<dist, distributing>> PROVE FlagInv'
    BY <1>1
  <1>2. ASSUME NEW t \in Threads, WorkerStep(t) PROVE FlagInv'
    <2>1. CASE QueueStep(t) \/ ReserveInsert(t)
      BY <1>1, <2>1 DEF QueueStep, ReserveInsert, timerVars
    <2>2. CASE DistRead(t)
      BY <2>2 DEF DistRead, TimerTypeOK, NoDist
    <2>3. CASE DistSkip(t)
      BY <2>3 DEF DistSkip, TimerTypeOK, NoDist
    <2>4. CASE DistEnter(t)
      BY <2>4 DEF DistEnter, TimerTypeOK
    <2>5. CASE DistCollect(t)
      BY <2>5 DEF DistCollect, TimerTypeOK
    <2>6. CASE DistPush(t) \/ DistDrop(t)
      <3>1. PICK x : dist' = [dist EXCEPT ![t].taken = @ \ {x}]
        BY <2>6 DEF DistPush, DistDrop
      <3>2. \A u \in Threads : dist'[u].stage = dist[u].stage
        BY <3>1 DEF TimerTypeOK
      <3>3. distributing' = distributing
        BY <2>6 DEF DistPush, DistDrop
      <3>4. QED
        BY <3>2, <3>3
    <2>7. CASE DistEnd(t)
      BY <2>7 DEF DistEnd, TimerTypeOK, NoDist
    <2>8. QED
      BY <1>2, <2>1, <2>2, <2>3, <2>4, <2>5, <2>6, <2>7 DEF WorkerStep
  <1>3. QED
    BY <1>1, <1>2 DEF TimerNext, allVars, timerVars, ReserveRead, DirectPush, Release,
                      TimerClearJobs, ClearTimer, Tick

-----------------------------------------------------------------------------
\* A thread changes its own frames only, keeps its part of the loop while it is
\* inside a call, and pushes nothing new.
LEMMA StepIsLocal ==
  ASSUME TypeOK, NEW t \in Threads, ThreadStep(t)
  PROVE  /\ \A u \in Threads \ {t} :
              push'[u] = push[u] /\ exec'[u] = exec[u] /\ ctx'[u] = ctx[u]
         /\ ~ Idle(t) => ctx'[t] = ctx[t]
         /\ pushed' = pushed
  <1> USE DEF TypeOK
  <1>1. CASE PushItem(t) \/ PushInline(t) \/ PushGlobal(t)
    BY <1>1 DEF PushItem, PushInline, PushGlobal, BeginExecute
  <1>2. CASE ExecPopAll(t) \/ JobBegin(t) \/ JobEnd(t)
    BY <1>2 DEF ExecPopAll, JobBegin, JobEnd
  <1>3. CASE ExecSub(t) \/ ExecAgain(t) \/ ExecYield(t)
    BY <1>3 DEF ExecSub, ExecAgain, ExecYield, EndExecute
  <1>4. CASE EndDispatch(t) \/ EndTimers(t) \/ GlobalPop(t) \/ EndGlobalWork(t)
    BY <1>4 DEF EndDispatch, EndTimers, GlobalPop, EndGlobalWork, BeginExecute
  <1>5. QED
    BY <1>1, <1>2, <1>3, <1>4 DEF ThreadStep

\* What DistInv says of one thread.
DistOK(t) ==
  /\ dist[t].stage = "none" => dist[t] = NoDist
  /\ dist[t].stage # "none" => ctx[t] = "timer"
  /\ dist[t].stage \in {"read", "collect"} => Idle(t) /\ dist[t].taken = {}
  /\ dist[t].now <= clock
  /\ \A x \in dist[t].taken : x.tick <= dist[t].now

\* DistInv of a thread whose frames nobody touched.
LEMMA DistSame ==
  ASSUME TimerTypeOK, TimerTypeOK', NEW u \in Threads, DistOK(u),
         push'[u] = push[u], exec'[u] = exec[u], ctx'[u] = ctx[u], dist'[u] = dist[u],
         clock' >= clock
  PROVE  DistOK(u)'
  BY DEF DistOK, Idle, TimerTypeOK

\* A distributor is in the timer part of the loop and has taken only due jobs.
LEMMA DistStep ==
  ASSUME TypeOK, TimerTypeOK, DistInv, [TimerNext]_allVars
  PROVE  DistInv'
  <1>t. TimerTypeOK'
    BY TimerTypeStep
  <1>a. \A u \in Threads : DistOK(u)
    BY DEF DistInv, DistOK
  <1>b. SUFFICES \A u \in Threads : DistOK(u)'
    BY DEF DistInv, DistOK
  <1>c. clock \in Nat /\ clock' \in Nat /\ \A u \in Threads : dist[u].now \in Nat
    BY <1>t DEF TimerTypeOK
  <1>1. ASSUME UNCHANGED <<push, exec, ctx, dist>>, clock' >= clock
        PROVE  \A u \in Threads : DistOK(u)'
    BY <1>1, <1>a, <1>t, DistSame
  <1>2. ASSUME NEW t \in Threads, WorkerStep(t) PROVE \A u \in Threads : DistOK(u)'
    <2>1. CASE QueueStep(t)
      <3>1. \A u \in Threads \ {t} :
              push'[u] = push[u] /\ exec'[u] = exec[u] /\ ctx'[u] = ctx[u]
        BY <2>1, StepIsLocal DEF QueueStep
      <3>2. dist' = dist /\ clock' = clock
        BY <2>1 DEF QueueStep, timerVars
      <3>3. \A u \in Threads \ {t} : DistOK(u)'
        BY <3>1, <3>2, <1>a, <1>c, <1>t, DistSame
      <3>4. Idle(t) => dist[t].stage = "none"
        BY <2>1, <1>a DEF QueueStep, DistOK
      <3>5. ~ Idle(t) => ctx'[t] = ctx[t] /\ dist[t].stage \notin {"read", "collect"}
        BY <2>1, <1>a, StepIsLocal DEF QueueStep, DistOK
      <3>6. DistOK(t)'
        BY <3>2, <3>4, <3>5, <1>a DEF DistOK
      <3>7. QED
        BY <3>3, <3>6
    <2>2. CASE ReserveInsert(t)
      BY <1>1, <1>c, <2>2 DEF ReserveInsert, vars
    <2>3. CASE DistRead(t)
      <3>1. DistOK(t)'
        BY <2>3, <1>c DEF DistRead, DistOK, TimerTypeOK, Idle, vars
      <3>2. \A u \in Threads \ {t} : DistOK(u)'
        BY <2>3, <1>a, <1>c, <1>t, DistSame DEF DistRead, vars, TimerTypeOK
      <3>3. QED
        BY <3>1, <3>2
    <2>4. CASE DistSkip(t) \/ DistEnd(t)
      <3>1. EndTimers(t) /\ dist' = [dist EXCEPT ![t] = NoDist] /\ clock' = clock
        BY <2>4 DEF DistSkip, DistEnd
      <3>2. DistOK(t)'
        BY <3>1, <1>c DEF DistOK, NoDist, TimerTypeOK
      <3>3. \A u \in Threads \ {t} : DistOK(u)'
        BY <3>1, <1>a, <1>c, <1>t, DistSame DEF EndTimers, TypeOK, TimerTypeOK
      <3>4. QED
        BY <3>2, <3>3
    <2>5. CASE DistEnter(t)
      <3>1. DistOK(t)'
        BY <2>5, <1>a, <1>c DEF DistEnter, DistOK, TimerTypeOK, Idle, vars
      <3>2. \A u \in Threads \ {t} : DistOK(u)'
        BY <2>5, <1>a, <1>c, <1>t, DistSame DEF DistEnter, vars, TimerTypeOK
      <3>3. QED
        BY <3>1, <3>2
    <2>6. CASE DistCollect(t)
      <3>a. /\ dist[t].stage = "collect" /\ dist[t].now <= clock
            /\ ctx[t] = "timer" /\ clock' = clock /\ ctx' = ctx
        BY <2>6, <1>a DEF DistCollect, DistOK, vars
      <3>b. /\ dist'[t].stage = "push" /\ dist'[t].now = dist[t].now
            /\ dist'[t].taken = {x \in items : x.tick <= dist[t].now}
        BY <2>6 DEF DistCollect, TimerTypeOK
      <3>1. DistOK(t)'
        BY <3>a, <3>b DEF DistOK
      <3>c. /\ \A u \in Threads \ {t} : dist'[u] = dist[u]
            /\ UNCHANGED <<push, exec, ctx, clock>>
        BY <2>6 DEF DistCollect, vars, TimerTypeOK
      <3>2. \A u \in Threads \ {t} : DistOK(u)'
        BY <3>c, <1>a, <1>c, <1>t, DistSame
      <3>3. QED
        BY <3>1, <3>2
    <2>7. CASE DistPush(t) \/ DistDrop(t)
      <3>1. PICK x : dist' = [dist EXCEPT ![t].taken = @ \ {x}]
        BY <2>7 DEF DistPush, DistDrop
      <3>2. dist[t].stage = "push" /\ clock' = clock /\ ctx' = ctx /\ exec' = exec
        BY <2>7 DEF DistPush, DistDrop, PushCount, vars
      <3>3. \A u \in Threads \ {t} : push'[u] = push[u]
        BY <2>7 DEF DistPush, DistDrop, PushCount, vars, TypeOK
      <3>4. DistOK(t)'
        BY <3>1, <3>2, <1>a DEF DistOK, TimerTypeOK
      <3>5. \A u \in Threads \ {t} : DistOK(u)'
        BY <3>1, <3>2, <3>3, <1>a, <1>c, <1>t, DistSame DEF TimerTypeOK
      <3>6. QED
        BY <3>4, <3>5
    <2>8. QED
      BY <1>2, <2>1, <2>2, <2>3, <2>4, <2>5, <2>6, <2>7 DEF WorkerStep
  <1>3. ASSUME NEW t \in Threads, NEW q \in Queues, NEW j \in Jobs, DirectPush(t, q, j)
        PROVE  \A u \in Threads : DistOK(u)'
    <2>1. dist' = dist /\ clock' = clock /\ ctx' = ctx /\ exec' = exec
      BY <1>3 DEF DirectPush, PushCount, timerVars
    <2>2. \A u \in Threads \ {t} : push'[u] = push[u]
      BY <1>3 DEF DirectPush, PushCount, TypeOK
    <2>3. dist[t].stage \notin {"read", "collect"}
      BY <1>3, <1>a DEF DirectPush, DistOK
    <2>4. DistOK(t)'
      BY <2>1, <2>3, <1>a DEF DistOK
    <2>5. \A u \in Threads \ {t} : DistOK(u)'
      BY <2>1, <2>2, <1>a, <1>c, <1>t, DistSame
    <2>6. QED
      BY <2>4, <2>5
  <1>4. CASE UNCHANGED allVars
    BY <1>1, <1>4, <1>c DEF allVars, vars, timerVars
  <1>5. ASSUME NEW t \in Threads, NEW q \in Queues, NEW j \in Jobs, ReserveRead(t, q, j)
        PROVE  \A u \in Threads : DistOK(u)'
    BY <1>1, <1>5, <1>c DEF ReserveRead, vars
  <1>6. ASSUME NEW q \in Queues, Release(q) \/ TimerClearJobs(q)
        PROVE  \A u \in Threads : DistOK(u)'
    BY <1>1, <1>6, <1>c DEF Release, TimerClearJobs, ClearJobs, vars, timerVars
  <1>7. CASE ClearTimer \/ Tick
    BY <1>1, <1>7, <1>c DEF ClearTimer, Tick, vars
  <1>8. QED
    BY <1>2, <1>3, <1>4, <1>5, <1>6, <1>7 DEF TimerNext

-----------------------------------------------------------------------------
\* What is in the timer, before and after a step.
LEMMA InWaits ==
  /\ \A x : x \in Waits <=> (x \in items \/ \E t \in Threads : x \in dist[t].taken)
  /\ \A x : x \in Waits' <=> (x \in items' \/ \E t \in Threads : x \in dist'[t].taken)
  BY DEF Waits

LEMMA InTimed ==
  /\ \A x : x \in Timed <=>
       (x \in Waits \/ \E t \in Threads : reserve[t] # NoItem /\ x = reserve[t])
  /\ \A x : x \in Timed' <=>
       (x \in Waits' \/ \E t \in Threads : reserve'[t] # NoItem /\ x = reserve'[t])
  BY DEF Timed

\* A step seen from the timer's items: nobody moves one, a thread reserves one,
\* inserts it, takes the due ones out, hands one over or drops it; Clear.
SameTaken == \A u \in Threads : dist'[u].taken = dist[u].taken
Nothing ==
  /\ SameTaken
  /\ UNCHANGED <<items, reserve, together, reserved, timerClears>>
  /\ \E S : S \intersect reserved = {} /\ pushed' = pushed \union S
Reserves(t, r) ==
  /\ SameTaken
  /\ UNCHANGED <<items, together, pushed, timerClears>>
  /\ reserve[t] = NoItem /\ r # NoItem /\ r.tick >= clock
  /\ reserve' = [reserve EXCEPT ![t] = r]
  /\ r.job \notin pushed \union reserved
  /\ reserved' = reserved \union {r.job}
Inserts(t) ==
  /\ SameTaken
  /\ UNCHANGED <<reserved, pushed, timerClears>>
  /\ reserve[t] # NoItem
  /\ items' = items \union {reserve[t]}
  /\ together' = together \union Earlier({reserve[t]}, items) \union Earlier(items, {reserve[t]})
  /\ reserve' = [reserve EXCEPT ![t] = NoItem]
Collects(t) ==
  /\ \A u \in Threads \ {t} : dist'[u].taken = dist[u].taken
  /\ dist[t].taken = {}
  /\ dist'[t].taken = {x \in items : x.tick <= dist[t].now}
  /\ items' = items \ {x \in items : x.tick <= dist[t].now}
  /\ UNCHANGED <<reserve, together, reserved, pushed, timerClears>>
HandsOver(t, x) ==
  /\ \A u \in Threads \ {t} : dist[u].taken = {} /\ dist'[u].taken = {}
  /\ x \in dist[t].taken /\ \A y \in dist[t].taken : x.tick <= y.tick
  /\ dist'[t].taken = dist[t].taken \ {x}
  /\ UNCHANGED <<items, reserve, together, reserved, timerClears>>
  /\ (pushed' = pushed \union {x.job}) \/ (pushed' = pushed /\ ~ alive[x.q])
Clears ==
  /\ SameTaken
  /\ UNCHANGED <<reserve, together, reserved, pushed>>
  /\ items' = {} /\ timerClears' = timerClears + 1

TimerMove ==
  \/ Nothing \/ Clears
  \/ \E t \in Threads :
       \/ \E r \in Item : Reserves(t, r)
       \/ Inserts(t) \/ Collects(t)
       \/ \E x \in Item : HandsOver(t, x)

LEMMA TimerMoves ==
  ASSUME TypeOK, TimerTypeOK, FlagInv, DistInv, [TimerNext]_allVars
  PROVE  TimerMove
  <1>a. /\ \A S : UNCHANGED pushed => pushed' = pushed \union {}
        /\ {} \intersect reserved = {}
    OBVIOUS
  <1>b. ASSUME SameTaken, UNCHANGED <<items, reserve, together, reserved, timerClears, pushed>>
        PROVE  TimerMove
    BY <1>b, <1>a DEF TimerMove, Nothing
  <1>c. \A u \in Threads : ~ Distributes(u) => dist[u].taken = {}
    BY DEF DistInv, Distributes, NoDist, TimerTypeOK
  <1>1. ASSUME NEW t \in Threads, WorkerStep(t) PROVE TimerMove
    <2>1. CASE QueueStep(t)
      <3>1. UNCHANGED <<items, dist, reserve, together, reserved, timerClears, pushed>>
        BY <2>1, StepIsLocal DEF QueueStep, timerVars
      <3>2. QED
        BY <3>1, <1>b DEF SameTaken
    <2>2. CASE ReserveInsert(t)
      <3>1. Inserts(t)
        BY <2>2 DEF ReserveInsert, Inserts, SameTaken, vars
      <3>2. QED
        BY <3>1 DEF TimerMove
    <2>3. CASE DistRead(t) \/ DistEnter(t)
      <3>1. UNCHANGED <<items, reserve, together, reserved, timerClears, pushed>>
        BY <2>3 DEF DistRead, DistEnter, vars
      <3>a. ASSUME DistRead(t) PROVE dist'[t].taken = dist[t].taken
        BY <3>a DEF DistRead, TimerTypeOK, NoDist
      <3>b. ASSUME DistEnter(t) PROVE dist'[t].taken = dist[t].taken
        BY <3>b DEF DistEnter, TimerTypeOK
      <3>c. \A u \in Threads \ {t} : dist'[u] = dist[u]
        BY <2>3 DEF DistRead, DistEnter, TimerTypeOK
      <3>2. /\ dist'[t].taken = dist[t].taken
            /\ \A u \in Threads \ {t} : dist'[u] = dist[u]
        BY <2>3, <3>a, <3>b, <3>c
      <3>4. SameTaken
        BY <3>2 DEF SameTaken
      <3>3. QED
        BY <3>1, <3>4, <1>b
    <2>4. CASE DistSkip(t) \/ DistEnd(t)
      <3>1. UNCHANGED <<items, reserve, together, reserved, timerClears, pushed>>
        BY <2>4 DEF DistSkip, DistEnd, EndTimers
      <3>2. dist[t].taken = {} /\ dist' = [dist EXCEPT ![t] = NoDist]
        BY <2>4, <1>c DEF DistSkip, DistEnd, Distributes
      <3>3. SameTaken
        BY <3>2 DEF SameTaken, NoDist, TimerTypeOK
      <3>4. QED
        BY <3>1, <3>3, <1>b
    <2>5. CASE DistCollect(t)
      <3>1. UNCHANGED <<reserve, together, reserved, timerClears, pushed>>
        BY <2>5 DEF DistCollect, vars
      <3>2. dist[t].taken = {}
        BY <2>5 DEF DistCollect, DistInv
      <3>3. /\ items' = items \ {x \in items : x.tick <= dist[t].now}
            /\ dist'[t].taken = {x \in items : x.tick <= dist[t].now}
            /\ \A u \in Threads \ {t} : dist'[u].taken = dist[u].taken
        BY <2>5 DEF DistCollect, TimerTypeOK
      <3>4. Collects(t)
        BY <3>1, <3>2, <3>3 DEF Collects
      <3>5. QED
        BY <3>4 DEF TimerMove
    <2>6. CASE DistPush(t) \/ DistDrop(t)
      <3>1. PICK x \in Foremost(dist[t].taken) :
              /\ dist' = [dist EXCEPT ![t].taken = @ \ {x}]
              /\ (pushed' = pushed \union {x.job}) \/ (pushed' = pushed /\ ~ alive[x.q])
        BY <2>6 DEF DistPush, DistDrop, PushCount, vars
      <3>2. UNCHANGED <<items, reserve, together, reserved, timerClears>>
        BY <2>6 DEF DistPush, DistDrop
      <3>3. Distributes(t)
        BY <2>6 DEF DistPush, DistDrop, Distributes
      <3>4. \A u \in Threads \ {t} : dist[u].taken = {} /\ dist'[u].taken = {}
        BY <3>1, <3>3, <1>c DEF FlagInv, TimerTypeOK
      <3>5. x \in dist[t].taken /\ \A y \in dist[t].taken : x.tick <= y.tick
        BY <3>1 DEF Foremost
      <3>6. dist'[t].taken = dist[t].taken \ {x}
        BY <3>1 DEF TimerTypeOK
      <3>7. x \in Item
        BY <3>5 DEF TimerTypeOK
      <3>8. HandsOver(t, x)
        BY <3>1, <3>2, <3>4, <3>5, <3>6 DEF HandsOver
      <3>9. QED
        BY <3>7, <3>8 DEF TimerMove
    <2>7. QED
      BY <1>1, <2>1, <2>2, <2>3, <2>4, <2>5, <2>6 DEF WorkerStep
  <1>2. ASSUME NEW t \in Threads, NEW q \in Queues, NEW j \in Jobs, ReserveRead(t, q, j)
        PROVE  TimerMove
    <2>a. PICK after \in Delays :
            reserve' = [reserve EXCEPT ![t] = [tick |-> clock + after, q |-> q, job |-> j]]
      BY <1>2 DEF ReserveRead
    <2>b. PICK r : r = [tick |-> clock + after, q |-> q, job |-> j]
      OBVIOUS
    <2>1. reserve' = [reserve EXCEPT ![t] = r]
      BY <2>a, <2>b
    <2>c. after \in Nat /\ clock \in Nat
      BY DEF TimerTypeOK
    <2>d. r \in Item /\ r.tick >= clock /\ r.job = j /\ r.q = q
      BY <2>b, <2>c DEF Item
    <2>e. NoItem.q = NoQueue
      BY DEF NoItem
    <2>2. r \in Item /\ r # NoItem /\ r.tick >= clock /\ r.job = j
      BY <2>d, <2>e, JobQueueAssumption
    <2>3. SameTaken /\ UNCHANGED <<items, together, pushed, timerClears>>
      BY <1>2 DEF ReserveRead, SameTaken, vars
    <2>4. /\ reserve[t] = NoItem /\ j \notin pushed \union reserved
          /\ reserved' = reserved \union {j}
      BY <1>2 DEF ReserveRead
    <2>5. Reserves(t, r)
      BY <2>1, <2>2, <2>3, <2>4 DEF Reserves
    <2>6. QED
      BY <2>2, <2>5 DEF TimerMove
  <1>3. ASSUME NEW t \in Threads, NEW q \in Queues, NEW j \in Jobs, DirectPush(t, q, j)
        PROVE  TimerMove
    <2>1. UNCHANGED <<items, dist, reserve, together, reserved, timerClears>>
      BY <1>3 DEF DirectPush, timerVars
    <2>2. {j} \intersect reserved = {} /\ pushed' = pushed \union {j}
      BY <1>3 DEF DirectPush, PushCount
    <2>3. QED
      BY <2>1, <2>2 DEF TimerMove, Nothing, SameTaken
  <1>4. ASSUME NEW q \in Queues, Release(q) \/ TimerClearJobs(q) PROVE TimerMove
    <2>1. UNCHANGED <<items, dist, reserve, together, reserved, timerClears, pushed>>
      BY <1>4 DEF Release, TimerClearJobs, ClearJobs, vars, timerVars
    <2>2. QED
      BY <2>1, <1>b DEF SameTaken
  <1>5. CASE ClearTimer
    BY <1>5 DEF ClearTimer, TimerMove, Clears, SameTaken, vars
  <1>6. CASE Tick \/ UNCHANGED allVars
    <2>1. UNCHANGED <<items, dist, reserve, together, reserved, timerClears, pushed>>
      BY <1>6 DEF Tick, allVars, vars, timerVars
    <2>2. QED
      BY <2>1, <1>b DEF SameTaken
  <1>7. QED
    BY <1>1, <1>2, <1>3, <1>4, <1>5, <1>6 DEF TimerNext

-----------------------------------------------------------------------------
\* A job stays in one place.
LEMMA PlaceStep ==
  ASSUME TypeOK, TimerTypeOK, FlagInv, DistInv, PlaceInv, [TimerNext]_allVars
  PROVE  PlaceInv'
  <1>t. TimerTypeOK'
    BY TimerTypeStep
  <1>r. reserve \in [Threads -> Item \union {NoItem}] /\ reserved \in SUBSET Jobs
    BY DEF TimerTypeOK
  <1>p. pushed \in SUBSET Jobs
    BY DEF TypeOK
  <1>1. CASE Nothing
    <2>1. SameTaken /\ items' = items /\ reserve' = reserve /\ reserved' = reserved
      BY <1>1 DEF Nothing
    <2>2. \A x : x \in Waits' <=> x \in Waits
      BY <2>1, InWaits DEF SameTaken
    <2>3. \A x : x \in Timed' <=> x \in Timed
      BY <2>1, <2>2, InTimed
    <2>4. \A x \in Timed : x.job \notin pushed'
      BY <1>1 DEF Nothing, PlaceInv
    <2>5. QED
      BY <2>1, <2>2, <2>3, <2>4 DEF PlaceInv, SameTaken
  <1>2. CASE Clears
    <2>1. /\ SameTaken /\ items' = {} /\ reserve' = reserve /\ reserved' = reserved
          /\ pushed' = pushed
      BY <1>2 DEF Clears
    <2>2. \A x : x \in Waits' => x \in Waits
      BY <2>1, InWaits DEF SameTaken
    <2>3. \A x : x \in Timed' => x \in Timed
      BY <2>1, <2>2, InTimed
    <2>4. QED
      BY <2>1, <2>2, <2>3 DEF PlaceInv
  <1>3. ASSUME NEW t \in Threads, NEW r \in Item, Reserves(t, r) PROVE PlaceInv'
    <2>1. /\ SameTaken /\ items' = items /\ pushed' = pushed
          /\ r.job \notin pushed /\ r.job \notin reserved /\ reserved' = reserved \union {r.job}
          /\ reserve[t] = NoItem /\ r # NoItem
      BY <1>3 DEF Reserves
    <2>2. reserve'[t] = r /\ \A u \in Threads \ {t} : reserve'[u] = reserve[u]
      BY <1>3, <1>r DEF Reserves
    <2>3. \A x : x \in Waits' <=> x \in Waits
      BY <2>1, InWaits DEF SameTaken
    <2>4. \A x : x \in Timed' <=> x \in Timed \/ x = r
      BY <2>1, <2>2, <2>3, InTimed
    <2>5. \A x \in Timed : x.job # r.job /\ x # r
      BY <2>1 DEF PlaceInv
    <2>6. \A u \in Threads : reserve[u] # NoItem => reserve[u] \in Timed
      BY InTimed
    <2>7. \A x \in Waits : x \in Timed
      BY InTimed
    <2>a. \A x, y \in Timed' : x.job = y.job => x = y
      BY <2>4, <2>5 DEF PlaceInv
    <2>b. \A x \in Timed' : x.job \in reserved' \ pushed'
      BY <2>1, <2>4 DEF PlaceInv
    <2>c. \A u \in Threads : dist'[u].taken \intersect items' = {}
      BY <2>1 DEF PlaceInv, SameTaken
    <2>d. \A u \in Threads : reserve'[u] # NoItem => reserve'[u] \notin Waits'
      BY <2>2, <2>3, <2>5, <2>7 DEF PlaceInv
    <2>e. \A u, v \in Threads : reserve'[u] = reserve'[v] => reserve'[u] = NoItem \/ u = v
      BY <2>2, <2>5, <2>6 DEF PlaceInv
    <2>8. QED
      BY <2>a, <2>b, <2>c, <2>d, <2>e DEF PlaceInv
  <1>4. ASSUME NEW t \in Threads, Inserts(t) PROVE PlaceInv'
    <2>1. /\ SameTaken /\ items' = items \union {reserve[t]} /\ pushed' = pushed
          /\ reserved' = reserved /\ reserve[t] # NoItem
      BY <1>4 DEF Inserts
    <2>2. reserve'[t] = NoItem /\ \A u \in Threads \ {t} : reserve'[u] = reserve[u]
      BY <1>4, <1>r DEF Inserts
    <2>3. \A x : x \in Waits' <=> x \in Waits \/ x = reserve[t]
      BY <2>1, InWaits DEF SameTaken
    <2>4. \A x : x \in Timed' <=> x \in Timed
      BY <2>1, <2>2, <2>3, InTimed
    <2>5. reserve[t] \notin Waits /\ \A u \in Threads : reserve[t] \notin dist[u].taken
      BY <2>1, InWaits DEF PlaceInv
    <2>a. \A x, y \in Timed' : x.job = y.job => x = y
      BY <2>4 DEF PlaceInv
    <2>b. \A x \in Timed' : x.job \in reserved' \ pushed'
      BY <2>1, <2>4 DEF PlaceInv
    <2>c. \A u \in Threads : dist'[u].taken \intersect items' = {}
      BY <2>1, <2>5 DEF PlaceInv, SameTaken
    <2>d. \A u \in Threads : reserve'[u] # NoItem => reserve'[u] \notin Waits'
      BY <2>1, <2>2, <2>3 DEF PlaceInv
    <2>e. \A u, v \in Threads : reserve'[u] = reserve'[v] => reserve'[u] = NoItem \/ u = v
      BY <2>2 DEF PlaceInv
    <2>6. QED
      BY <2>a, <2>b, <2>c, <2>d, <2>e DEF PlaceInv
  <1>5. ASSUME NEW t \in Threads, Collects(t) PROVE PlaceInv'
    <2> DEFINE due == {x \in items : x.tick <= dist[t].now}
    <2>1. /\ dist[t].taken = {} /\ dist'[t].taken = due /\ items' = items \ due
          /\ \A u \in Threads \ {t} : dist'[u].taken = dist[u].taken
          /\ reserve' = reserve /\ reserved' = reserved /\ pushed' = pushed
      BY <1>5 DEF Collects
    <2>2. \A x : x \in due => x \in items
      OBVIOUS
    <2> HIDE DEF due
    <2>3. \A x : x \in Waits' <=> x \in Waits
      BY <2>1, <2>2, InWaits
    <2>4. \A x : x \in Timed' <=> x \in Timed
      BY <2>1, <2>3, InTimed
    <2>5. \A u \in Threads : dist'[u].taken \intersect items' = {}
      BY <2>1 DEF PlaceInv
    <2>6. QED
      BY <2>1, <2>3, <2>4, <2>5 DEF PlaceInv
  <1>6. ASSUME NEW t \in Threads, NEW x \in Item, HandsOver(t, x) PROVE PlaceInv'
    <2>1. /\ \A u \in Threads \ {t} : dist[u].taken = {} /\ dist'[u].taken = {}
          /\ x \in dist[t].taken /\ dist'[t].taken = dist[t].taken \ {x}
          /\ items' = items /\ reserve' = reserve /\ reserved' = reserved
          /\ (pushed' = pushed \union {x.job}) \/ (pushed' = pushed)
      BY <1>6 DEF HandsOver
    <2>2. x \notin items /\ x \in Waits
      BY <2>1, InWaits DEF PlaceInv
    <2>3. \A y : y \in Waits' <=> y \in Waits /\ y # x
      BY <2>1, <2>2, InWaits
    <2>4. \A u \in Threads : reserve[u] # NoItem => reserve[u] # x
      BY <2>2 DEF PlaceInv
    <2>5. \A y : y \in Timed' <=> y \in Timed /\ y # x
      BY <2>1, <2>3, <2>4, InTimed
    <2>6. x \in Timed
      BY <2>2, InTimed
    <2>7. \A y \in Timed' : y.job \in reserved' \ pushed'
      BY <2>1, <2>5, <2>6 DEF PlaceInv
    <2>8. \A u \in Threads : dist'[u].taken \intersect items' = {}
      BY <2>1 DEF PlaceInv
    <2>9. QED
      BY <2>1, <2>3, <2>5, <2>7, <2>8 DEF PlaceInv
  <1>7. QED
    BY <1>1, <1>2, <1>3, <1>4, <1>5, <1>6, TimerMoves DEF TimerMove

\* Of two jobs that were together a distributor never holds the later one alone.
LEMMA OrderStep ==
  ASSUME TypeOK, TimerTypeOK, FlagInv, DistInv, PlaceInv, OrderInv, [TimerNext]_allVars
  PROVE  OrderInv'
  <1>t. TimerTypeOK'
    BY TimerTypeStep
  <1>r. reserve \in [Threads -> Item \union {NoItem}]
    BY DEF TimerTypeOK
  <1>w. /\ \A x \in Waits : x \in Item /\ x \in Timed
        /\ \A x \in items : x \in Waits
    BY InWaits, InTimed DEF TimerTypeOK
  \* Steps that put nothing into the timer and add no pair.
  <1>a. ASSUME together' = together, reserved \subseteq reserved', reserve' = reserve,
               \A x : x \in Waits' => x \in Waits,
               \A x, y \in Waits' : x.tick < y.tick /\ (x \in items => y \in items) /\ x \in items'
                 => y \in items'
        PROVE  OrderInv'
    BY <1>a DEF OrderInv
  <1>1. CASE Nothing
    <2>1. SameTaken /\ UNCHANGED <<items, reserve, together, reserved>>
      BY <1>1 DEF Nothing
    <2>2. \A x : x \in Waits' <=> x \in Waits
      BY <2>1, InWaits DEF SameTaken
    <2>3. QED
      BY <2>1, <2>2, <1>a
  <1>2. CASE Clears
    <2>1. SameTaken /\ items' = {} /\ UNCHANGED <<reserve, together, reserved>>
      BY <1>2 DEF Clears
    <2>2. \A x : x \in Waits' => x \in Waits
      BY <2>1, InWaits DEF SameTaken
    <2>3. QED
      BY <2>1, <2>2, <1>a
  <1>3. ASSUME NEW t \in Threads, NEW r \in Item, Reserves(t, r) PROVE OrderInv'
    <2>1. /\ SameTaken /\ items' = items /\ together' = together
          /\ r.job \notin reserved /\ reserved' = reserved \union {r.job}
      BY <1>3 DEF Reserves
    <2>2. reserve'[t] = r /\ \A u \in Threads \ {t} : reserve'[u] = reserve[u]
      BY <1>3, <1>r DEF Reserves
    <2>3. \A x : x \in Waits' <=> x \in Waits
      BY <2>1, InWaits DEF SameTaken
    <2>4. \A x, y \in Waits' : <<x.job, y.job>> \in together' =>
            x.tick < y.tick /\ (x \in items' => y \in items')
      BY <2>1, <2>3 DEF OrderInv
    <2>5. \A ab \in together' : ab[1] \in reserved' /\ ab[2] \in reserved'
      BY <2>1 DEF OrderInv
    <2>6. \A u \in Threads : reserve'[u] # NoItem =>
            \A ab \in together' : ab[1] # reserve'[u].job /\ ab[2] # reserve'[u].job
      BY <2>1, <2>2 DEF OrderInv
    <2>7. QED
      BY <2>4, <2>5, <2>6 DEF OrderInv
  <1>4. ASSUME NEW t \in Threads, Inserts(t) PROVE OrderInv'
    <2>r. PICK r : r = reserve[t]
      OBVIOUS
    <2>1. /\ SameTaken /\ items' = items \union {r} /\ reserved' = reserved /\ r # NoItem
          /\ together' = together \union Earlier({r}, items) \union Earlier(items, {r})
      BY <1>4, <2>r DEF Inserts
    <2>2. reserve'[t] = NoItem /\ \A u \in Threads \ {t} : reserve'[u] = reserve[u]
      BY <1>4, <1>r DEF Inserts
    <2>3. \A x : x \in Waits' <=> x \in Waits \/ x = r
      BY <2>1, InWaits DEF SameTaken
    <2>4. r \in Timed /\ r \notin Waits /\ r \in Item
      BY <2>r, <2>1, <1>r, InTimed DEF PlaceInv
    <2>5. \A x \in Timed : x.job = r.job => x = r
      BY <2>4 DEF PlaceInv
    <2>n. \A ab \in together : ab[1] # r.job /\ ab[2] # r.job
      BY <2>r, <2>1 DEF OrderInv
    <2>p. ASSUME NEW ab \in together', ab \notin together
          PROVE  \E y \in items : (r.tick < y.tick /\ ab = <<r.job, y.job>>)
                              \/ (y.tick < r.tick /\ ab = <<y.job, r.job>>)
      BY <2>1, <2>p DEF Earlier
    <2>6. ASSUME NEW x \in Waits', NEW y \in Waits', <<x.job, y.job>> \in together'
          PROVE  x.tick < y.tick /\ (x \in items' => y \in items')
      <3>1. CASE <<x.job, y.job>> \in together
        <4>1. x.job # r.job /\ y.job # r.job
          BY <3>1, <2>n
        <4>2. x \in Waits /\ y \in Waits /\ x # r
          BY <4>1, <2>3
        <4>3. x.tick < y.tick /\ (x \in items => y \in items)
          BY <3>1, <4>2 DEF OrderInv
        <4>4. QED
          BY <4>2, <4>3, <2>1
      <3>2. CASE <<x.job, y.job>> \notin together
        <4>a. PICK ab : ab = <<x.job, y.job>>
          OBVIOUS
        <4>b. ab \in together' /\ ab \notin together
          BY <2>6, <3>2, <4>a
        <4>c. PICK z \in items : \/ r.tick < z.tick /\ ab = <<r.job, z.job>>
                                 \/ z.tick < r.tick /\ ab = <<z.job, r.job>>
          BY <2>p, <4>b
        <4>1. \/ r.tick < z.tick /\ x.job = r.job /\ y.job = z.job
              \/ z.tick < r.tick /\ x.job = z.job /\ y.job = r.job
          BY <4>a, <4>c
        <4>2. z \in Timed /\ z # r
          BY <1>w, <2>4
        <4>3. x \in Timed /\ y \in Timed
          BY <2>3, <2>4, <1>w
        <4>4. CASE r.tick < z.tick /\ x.job = r.job /\ y.job = z.job
          <5>1. x = r /\ y = z
            BY <4>2, <4>3, <4>4, <2>5 DEF PlaceInv
          <5>2. QED
            BY <4>4, <5>1, <2>1
        <4>5. CASE z.tick < r.tick /\ x.job = z.job /\ y.job = r.job
          <5>1. x = z /\ y = r
            BY <4>2, <4>3, <4>5, <2>5 DEF PlaceInv
          <5>2. QED
            BY <4>5, <5>1, <2>1
        <4>6. QED
          BY <4>1, <4>4, <4>5
      <3>3. QED
        BY <3>1, <3>2
    <2>7. ASSUME NEW ab \in together' PROVE ab[1] \in reserved' /\ ab[2] \in reserved'
      <3>1. CASE ab \in together
        BY <3>1, <2>1 DEF OrderInv
      <3>2. CASE ab \notin together
        <4>1. r.job \in reserved /\ \A y \in items : y.job \in reserved
          BY <2>4, <1>w DEF PlaceInv
        <4>2. PICK y \in items : (ab = <<r.job, y.job>>) \/ (ab = <<y.job, r.job>>)
          BY <3>2, <2>p
        <4>3. QED
          BY <4>1, <4>2, <2>1
      <3>3. QED
        BY <3>1, <3>2
    <2>8. ASSUME NEW u \in Threads, reserve'[u] # NoItem, NEW ab \in together'
          PROVE  ab[1] # reserve'[u].job /\ ab[2] # reserve'[u].job
      <3>1. u # t /\ reserve'[u] = reserve[u]
        BY <2>2, <2>8
      <3>2. CASE ab \in together
        BY <2>8, <3>1, <3>2 DEF OrderInv
      <3>3. CASE ab \notin together
        <4>1. reserve[u] \in Timed /\ reserve[u] # r /\ reserve[u] \notin Waits
          BY <2>8, <3>1, <2>r, InTimed DEF PlaceInv
        <4>2. reserve[u].job # r.job
          BY <4>1, <2>5
        <4>3. \A y \in items : reserve[u].job # y.job
          BY <4>1, <1>w DEF PlaceInv
        <4>4. QED
          BY <3>1, <3>3, <4>2, <4>3, <2>p
      <3>4. QED
        BY <3>2, <3>3
    <2>9. QED
      BY <2>6, <2>7, <2>8 DEF OrderInv
  <1>5. ASSUME NEW t \in Threads, Collects(t) PROVE OrderInv'
    <2>1. /\ dist[t].taken = {} /\ dist'[t].taken = {x \in items : x.tick <= dist[t].now}
          /\ items' = items \ {x \in items : x.tick <= dist[t].now}
          /\ \A u \in Threads \ {t} : dist'[u].taken = dist[u].taken
          /\ UNCHANGED <<reserve, together, reserved>>
      BY <1>5 DEF Collects
    <2>2. \A x : x \in Waits' => x \in Waits
      BY <2>1, InWaits
    <2>3. dist[t].now \in Nat /\ \A x \in Waits : x.tick \in Nat
      BY <1>w DEF TimerTypeOK, Item
    <2>4. ASSUME NEW x \in Waits', NEW y \in Waits', x.tick < y.tick,
                 x \in items => y \in items, x \in items'
          PROVE  y \in items'
      <3>1. x \in items /\ y \in items /\ x \in Waits /\ y \in Waits
        BY <2>1, <2>2, <2>4
      <3>2. ~ (x.tick <= dist[t].now)
        BY <2>1, <2>4, <3>1
      <3>3. ~ (y.tick <= dist[t].now)
        BY <2>3, <2>4, <3>1, <3>2
      <3>4. QED
        BY <2>1, <3>1, <3>3
    <2>5. QED
      BY <2>1, <2>2, <2>4, <1>a
  <1>6. ASSUME NEW t \in Threads, NEW x \in Item, HandsOver(t, x) PROVE OrderInv'
    <2>1. /\ \A u \in Threads \ {t} : dist[u].taken = {} /\ dist'[u].taken = {}
          /\ dist'[t].taken = dist[t].taken \ {x}
          /\ UNCHANGED <<items, reserve, together, reserved>>
      BY <1>6 DEF HandsOver
    <2>2. \A y : y \in Waits' => y \in Waits
      BY <2>1, InWaits
    <2>3. QED
      BY <2>1, <2>2, <1>a
  <1>7. QED
    BY <1>1, <1>2, <1>3, <1>4, <1>5, <1>6, TimerMoves DEF TimerMove

-----------------------------------------------------------------------------
\* Nothing is in the timer at the start.
LEMMA TimerInvInit == TimerInit => TimerInv
  <1> SUFFICES ASSUME TimerInit PROVE TimerInv
    OBVIOUS
  <1>1. /\ clock = 0 /\ items = {} /\ distributing = FALSE /\ reserved = {} /\ together = {}
        /\ timerClears = 0 /\ dist = [t \in Threads |-> NoDist]
        /\ reserve = [t \in Threads |-> NoItem] /\ alive = [q \in Queues |-> TRUE]
    BY DEF TimerInit
  <1>2. \A t \in Threads : dist[t] = NoDist /\ reserve[t] = NoItem
    BY <1>1
  <1>3. NoDist.stage = "none" /\ NoDist.now = 0 /\ NoDist.taken = {}
    BY DEF NoDist
  <1>4. NoDist \in [stage : {"none", "read", "collect", "push"}, now : Nat, taken : SUBSET Item]
    BY DEF NoDist
  <1>5. Waits = {} /\ Timed = {}
    BY <1>1, <1>2, <1>3, InWaits, InTimed
  <1>6. TimerTypeOK
    BY <1>1, <1>4 DEF TimerTypeOK
  <1>7. FlagInv
    BY <1>1, <1>2, <1>3 DEF FlagInv, Distributes
  <1>8. DistInv
    BY <1>1, <1>2, <1>3 DEF DistInv
  <1>9. PlaceInv
    BY <1>1, <1>2, <1>3, <1>5 DEF PlaceInv
  <1>10. OrderInv
    BY <1>1, <1>2, <1>5 DEF OrderInv
  <1>11. QED
    BY <1>6, <1>7, <1>8, <1>9, <1>10 DEF TimerInv

\* TimerInv is inductive, given that the queues keep their types.
LEMMA TimerInvNext == TypeOK /\ TimerInv /\ [TimerNext]_allVars => TimerInv'
  BY TimerTypeStep, FlagStep, DistStep, PlaceStep, OrderStep DEF TimerInv

\* Both invariants together.
LEMMA BothInvariants == TimerSpec => [](QueueInv /\ TimerInv)
  <1>1. TimerInit => QueueInv /\ TimerInv
    BY QueueInvInit, TimerInvInit DEF TimerInit
  <1>2. QueueInv /\ TimerInv /\ [TimerNext]_allVars => QueueInv' /\ TimerInv'
    BY TimerStepIsQueueStep, QueueInvNext, TimerInvNext DEF TimerInv, QueueInv
  <1>3. QED
    BY <1>1, <1>2, PTL DEF TimerSpec

\* At every point inside Reserve and Distribute one thread at most distributes,
\* and every reserved job is in exactly one place, in the order of its tick.
THEOREM TimerInvariant == TimerSpec => []TimerInv
  BY BothInvariants, PTL

\* The timer and the handlers use a queue only by Push and ClearJobs.
THEOREM TimerRefinesJobQueue == TimerSpec => RefinesJobQueue
  <1>1. TimerInit => Init
    BY DEF TimerInit
  <1>2. TimerInv /\ [TimerNext]_allVars => [Next]_vars
    BY TimerStepIsQueueStep DEF TimerInv
  <1>3. QED
    BY <1>1, <1>2, TimerInvariant, PTL DEF TimerSpec, RefinesJobQueue, Spec

\* With the timer in place, too, two workers never execute jobs of one queue at
\* the same time.
THEOREM TimerSerialExecution == TimerSpec => []SerialExecution
  BY TimerRefinesJobQueue, QueueSerialExecution, PTL DEF RefinesJobQueue

-----------------------------------------------------------------------------
\* However stale the times that the distributors have read, no job reaches its
\* queue before its tick.
THEOREM TimerNotEarly == TimerSpec => NotEarly
  <1>1. ASSUME QueueInv, TimerInv, [TimerNext]_allVars,
               NEW x \in Timed, x.job \in pushed' \ pushed
        PROVE  x.tick <= clock
    <2>1. TimerMove
      BY <1>1, TimerMoves DEF QueueInv, TimerInv
    <2>2. x.job \in reserved
      BY <1>1 DEF TimerInv, PlaceInv
    <2>3. ~ Nothing /\ ~ Clears
      BY <1>1, <2>2 DEF Nothing, Clears
    <2>4. PICK t \in Threads : \/ \E r \in Item : Reserves(t, r)
                               \/ Inserts(t) \/ Collects(t)
                               \/ \E z \in Item : HandsOver(t, z)
      BY <2>1, <2>3 DEF TimerMove
    <2>5. PICK z \in Item : HandsOver(t, z)
      BY <1>1, <2>4 DEF Reserves, Inserts, Collects
    <2>6. z \in dist[t].taken /\ z.job = x.job
      BY <1>1, <2>5 DEF HandsOver
    <2>7. z \in Timed
      BY <2>6, InWaits, InTimed
    <2>8. z = x
      BY <1>1, <2>6, <2>7 DEF TimerInv, PlaceInv
    <2>9. x.tick <= dist[t].now /\ dist[t].now <= clock
      BY <1>1, <2>6, <2>8 DEF TimerInv, DistInv
    <2>10. x.tick \in Nat /\ dist[t].now \in Nat /\ clock \in Nat
      BY <1>1, <2>5, <2>8 DEF TimerInv, TimerTypeOK, Item
    <2>11. QED
      BY <2>9, <2>10
  <1>2. QueueInv /\ TimerInv /\ [TimerNext]_allVars
          => [\A x \in Timed : x.job \in pushed' \ pushed => x.tick <= clock]_allVars
    BY <1>1
  <1>3. QED
    BY <1>2, BothInvariants, PTL DEF TimerSpec, NotEarly

\* A reserved job is dropped only with its owner, or by Clear.
THEOREM TimerNothingLost == TimerSpec => NothingLost
  <1>1. ASSUME QueueInv, TimerInv, [TimerNext]_allVars, NEW x \in Timed
        PROVE  \/ x \in Timed' \/ x.job \in pushed'
               \/ ~ alive[x.q] \/ timerClears' # timerClears
    <2>1. TimerMove
      BY <1>1, TimerMoves DEF QueueInv, TimerInv
    <2>2. \/ \E t \in Threads : x \in dist[t].taken
          \/ x \in items
          \/ \E t \in Threads : reserve[t] # NoItem /\ x = reserve[t]
      BY <1>1, InWaits, InTimed
    <2>3. \A y : y \in items' \/ (\E u \in Threads : y \in dist'[u].taken)
                 \/ (\E u \in Threads : reserve'[u] # NoItem /\ y = reserve'[u])
                 => y \in Timed'
      BY InWaits, InTimed
    <2>r. reserve \in [Threads -> Item \union {NoItem}]
      BY <1>1 DEF TimerInv, TimerTypeOK
    <2>4. CASE Nothing
      BY <2>2, <2>3, <2>4 DEF Nothing, SameTaken
    <2>5. CASE Clears
      BY <1>1, <2>5 DEF Clears, TimerInv, TimerTypeOK
    <2>6. ASSUME NEW t \in Threads, NEW r \in Item, Reserves(t, r) PROVE x \in Timed'
      <3>1. \A u \in Threads : reserve[u] # NoItem => reserve'[u] = reserve[u]
        BY <2>6, <2>r DEF Reserves
      <3>2. QED
        BY <2>2, <2>3, <2>6, <3>1 DEF Reserves, SameTaken
    <2>7. ASSUME NEW t \in Threads, Inserts(t) PROVE x \in Timed'
      <3>1. \A u \in Threads \ {t} : reserve'[u] = reserve[u]
        BY <2>7, <2>r DEF Inserts
      <3>2. QED
        BY <2>2, <2>3, <2>7, <3>1 DEF Inserts, SameTaken
    <2>8. ASSUME NEW t \in Threads, Collects(t) PROVE x \in Timed'
      BY <2>2, <2>3, <2>8 DEF Collects
    <2>9. ASSUME NEW t \in Threads, NEW z \in Item, HandsOver(t, z)
          PROVE  x \in Timed' \/ x.job \in pushed' \/ ~ alive[x.q]
      BY <2>2, <2>3, <2>9 DEF HandsOver
    <2>10. QED
      BY <2>1, <2>4, <2>5, <2>6, <2>7, <2>8, <2>9 DEF TimerMove
  <1>2. QueueInv /\ TimerInv /\ [TimerNext]_allVars
          => [\A x \in Timed :
                \/ x \in Timed'
                \/ x.job \in pushed'
                \/ ~ alive[x.q]
                \/ timerClears' # timerClears]_allVars
    BY <1>1
  <1>3. QED
    BY <1>2, BothInvariants, PTL DEF TimerSpec, NothingLost

\* Of two jobs that waited together the later is not handed over first.
THEOREM TimerTickOrder == TimerSpec => []TickOrder
  <1>1. TimerInit => TickOrder
    BY DEF TimerInit, TickOrder
  <1>2. ASSUME QueueInv, TimerInv, TickOrder, [TimerNext]_allVars
        PROVE  TickOrder'
    <2>1. TimerMove
      BY <1>2, TimerMoves DEF QueueInv, TimerInv
    <2>w. /\ \A x \in Waits : x \in Item /\ x \in Timed
          /\ \A x \in items : x \in Waits
      BY <1>2, InWaits, InTimed DEF TimerInv, TimerTypeOK
    <2>p. \A x \in Timed : x.job \in reserved /\ x.job \notin pushed
      BY <1>2 DEF TimerInv, PlaceInv
    <2>o. \A ab \in together : ab[1] \in reserved /\ ab[2] \in reserved
      BY <1>2 DEF TimerInv, OrderInv
    <2>a. ASSUME together' = together, \A x : x \in Waits' => x \in Waits,
                 \A j \in pushed' \ pushed : \A x \in Waits' : <<x.job, j>> \notin together
          PROVE  TickOrder'
      BY <1>2, <2>a DEF TickOrder
    <2>2. CASE Nothing
      <3>1. SameTaken /\ items' = items /\ together' = together
        BY <2>2 DEF Nothing
      <3>2. \A x : x \in Waits' <=> x \in Waits
        BY <3>1, InWaits DEF SameTaken
      <3>3. \A j \in pushed' \ pushed : j \notin reserved
        BY <2>2 DEF Nothing
      <3>4. ASSUME NEW x, NEW j \in pushed' \ pushed PROVE <<x.job, j>> \notin together
        <4>1. \A ab \in together : ab[2] # j
          BY <3>3, <2>o
        <4>2. QED
          BY <4>1
      <3>5. QED
        BY <3>1, <3>2, <3>4, <2>a
    <2>3. CASE Clears
      <3>1. SameTaken /\ items' = {} /\ together' = together /\ pushed' = pushed
        BY <2>3 DEF Clears
      <3>2. \A x : x \in Waits' => x \in Waits
        BY <3>1, InWaits DEF SameTaken
      <3>3. QED
        BY <3>1, <3>2, <2>a
    <2>4. ASSUME NEW t \in Threads, NEW r \in Item, Reserves(t, r) PROVE TickOrder'
      <3>1. SameTaken /\ items' = items /\ together' = together /\ pushed' = pushed
        BY <2>4 DEF Reserves
      <3>2. \A x : x \in Waits' => x \in Waits
        BY <3>1, InWaits DEF SameTaken
      <3>3. QED
        BY <3>1, <3>2, <2>a
    <2>5. ASSUME NEW t \in Threads, Inserts(t) PROVE TickOrder'
      <3>r. PICK r : r = reserve[t]
        OBVIOUS
      <3>1. /\ SameTaken /\ items' = items \union {r} /\ pushed' = pushed /\ r # NoItem
            /\ together' = together \union Earlier({r}, items) \union Earlier(items, {r})
        BY <2>5, <3>r DEF Inserts
      <3>2. \A x : x \in Waits' <=> x \in Waits \/ x = r
        BY <3>1, InWaits DEF SameTaken
      <3>3. r \in Timed
        BY <3>r, <3>1, InTimed
      <3>4. \A ab \in together : ab[1] # r.job
        BY <1>2, <3>r, <3>1 DEF TimerInv, OrderInv
      <3>5. \A ab \in together' : ab \notin together => ab[2] \notin pushed
        <4>1. r.job \notin pushed /\ \A y \in items : y.job \notin pushed
          BY <3>3, <2>w, <2>p
        <4>2. QED
          BY <3>1, <4>1 DEF Earlier
      <3>6. ASSUME NEW x \in Waits', NEW j \in pushed' PROVE <<x.job, j>> \notin together'
        <4>1. PICK ab : ab = <<x.job, j>>
          OBVIOUS
        <4>2. ab[1] = x.job /\ ab[2] = j /\ j \in pushed
          BY <4>1, <3>1
        <4>3. CASE x = r
          BY <4>1, <4>2, <4>3, <3>4, <3>5
        <4>4. CASE x \in Waits
          <5>1. ab \notin together
            BY <1>2, <4>1, <4>2, <4>4 DEF TickOrder
          <5>2. QED
            BY <5>1, <4>1, <4>2, <3>5
        <4>5. QED
          BY <4>3, <4>4, <3>2
      <3>7. QED
        BY <3>6 DEF TickOrder
    <2>6. ASSUME NEW t \in Threads, Collects(t) PROVE TickOrder'
      <3>1. /\ dist[t].taken = {} /\ dist'[t].taken = {x \in items : x.tick <= dist[t].now}
            /\ items' = items \ {x \in items : x.tick <= dist[t].now}
            /\ \A u \in Threads \ {t} : dist'[u].taken = dist[u].taken
            /\ together' = together /\ pushed' = pushed
        BY <2>6 DEF Collects
      <3>2. \A x : x \in Waits' => x \in Waits
        BY <3>1, InWaits
      <3>3. QED
        BY <3>1, <3>2, <2>a
    <2>7. ASSUME NEW t \in Threads, NEW z \in Item, HandsOver(t, z) PROVE TickOrder'
      <3>1. /\ \A u \in Threads \ {t} : dist[u].taken = {} /\ dist'[u].taken = {}
            /\ z \in dist[t].taken /\ \A y \in dist[t].taken : z.tick <= y.tick
            /\ dist'[t].taken = dist[t].taken \ {z}
            /\ items' = items /\ together' = together
            /\ (pushed' = pushed \union {z.job}) \/ (pushed' = pushed)
        BY <2>7 DEF HandsOver
      <3>2. \A x : x \in Waits' => x \in Waits
        BY <3>1, InWaits
      <3>3. z \in Waits /\ z \notin items
        BY <1>2, <3>1, InWaits DEF TimerInv, PlaceInv
      <3>4. ASSUME NEW x \in Waits', <<x.job, z.job>> \in together PROVE FALSE
        <4>1. x \in Waits
          BY <3>2
        <4>2. x.tick < z.tick /\ (x \in items => z \in items)
          BY <1>2, <3>3, <3>4, <4>1 DEF TimerInv, OrderInv
        <4>3. x \in dist[t].taken
          BY <3>1, <3>3, <4>1, <4>2, InWaits
        <4>4. z.tick <= x.tick /\ z.tick \in Nat /\ x.tick \in Nat
          BY <3>1, <3>3, <4>1, <4>3, <2>w DEF Item
        <4>5. QED
          BY <4>2, <4>4
      <3>5. \A j \in pushed' \ pushed : j = z.job
        BY <3>1
      <3>6. QED
        BY <3>1, <3>2, <3>4, <3>5, <2>a
    <2>8. QED
      BY <2>1, <2>2, <2>3, <2>4, <2>5, <2>6, <2>7 DEF TimerMove
  <1>3. (QueueInv /\ TimerInv) /\ TickOrder /\ [TimerNext]_allVars => TickOrder'
    BY <1>2
  <1>4. QED
    BY <1>1, <1>3, BothInvariants, PTL DEF TimerSpec
=============================================================================
