------------------------------- MODULE RWLock -------------------------------
(***************************************************************************)
(* What a re-entrant reader/writer lock promises its guards: an abstract   *)
(* specification that RWSpinLock is shown to implement.  The whole state   *)
(* is the stack of guards each thread has constructed and not destroyed.   *)
(***************************************************************************)
EXTENDS Naturals, Sequences

CONSTANTS Threads,    \* thread ids
          MaxDepth    \* bound on the guards one thread nests

VARIABLE held         \* held[t]: thread t's live guards, innermost last

Holds(t, g) == \E i \in 1..Len(held[t]) : held[t][i] = g

Init == held = [t \in Threads |-> <<>>]

\* A write guard needs the lock for itself; a thread that already writes may
\* nest, a thread that only reads cannot upgrade.
AcquireWrite(t) ==
  /\ Len(held[t]) < MaxDepth
  /\ \A u \in Threads \ {t} : held[u] = <<>>
  /\ Holds(t, "R") => Holds(t, "W")
  /\ held' = [held EXCEPT ![t] = Append(@, "W")]

AcquireRead(t) ==
  /\ Len(held[t]) < MaxDepth
  /\ \A u \in Threads \ {t} : ~ Holds(u, "W")
  /\ held' = [held EXCEPT ![t] = Append(@, "R")]

Release(t) ==
  /\ held[t] # <<>>
  /\ held' = [held EXCEPT ![t] = SubSeq(@, 1, Len(@) - 1)]

Next == \E t \in Threads : AcquireWrite(t) \/ AcquireRead(t) \/ Release(t)

Spec == Init /\ [][Next]_held
=============================================================================
