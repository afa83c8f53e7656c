----------------------------- MODULE SerialQueue -----------------------------
(***************************************************************************)
(* What a JobQueue promises the code written inside it (Room.h: "as if it  *)
(* were single-threaded"): the jobs of one queue start in the order they   *)
(* were submitted, one at a time, each at most once, whoever runs them.    *)
(***************************************************************************)
EXTENDS Naturals, Sequences

CONSTANTS Queues, Jobs, NoJob

VARIABLES
  submitted,   \* every job submitted so far
  pending,     \* pending[q]: submitted and not started, oldest first
  active       \* active[q]: the job of q being executed, or NoJob

svars == <<submitted, pending, active>>

Init ==
  /\ submitted = {}
  /\ pending = [q \in Queues |-> <<>>]
  /\ active = [q \in Queues |-> NoJob]

Submit(q, j) ==
  /\ j \notin submitted
  /\ submitted' = submitted \union {j}
  /\ pending' = [pending EXCEPT ![q] = Append(@, j)]
  /\ UNCHANGED active

Start(q) ==
  /\ active[q] = NoJob
  /\ pending[q] # <<>>
  /\ active' = [active EXCEPT ![q] = Head(pending[q])]
  /\ pending' = [pending EXCEPT ![q] = Tail(@)]
  /\ UNCHANGED submitted

Finish(q) ==
  /\ active[q] # NoJob
  /\ active' = [active EXCEPT ![q] = NoJob]
  /\ UNCHANGED <<submitted, pending>>

\* ClearJobs drops the jobs nobody has fetched yet, the youngest ones.
Drop(q) ==
  /\ \E k \in 0..Len(pending[q]) : pending' = [pending EXCEPT ![q] = SubSeq(@, 1, k)]
  /\ UNCHANGED <<submitted, active>>

Next ==
  \E q \in Queues :
    (\E j \in Jobs : Submit(q, j)) \/ Start(q) \/ Finish(q) \/ Drop(q)

Spec == Init /\ [][Next]_svars
=============================================================================
