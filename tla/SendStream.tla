----------------------------- MODULE SendStream -----------------------------
(***************************************************************************)
(* What Session::Send promises: buffers reach the socket in the order in   *)
(* which they were accepted, each at most once; they are lost only when a  *)
(* WSASend fails, oldest first and everything then held by the send.       *)
(***************************************************************************)
EXTENDS Naturals, Sequences

CONSTANT Buffers

VARIABLES
  held,      \* accepted and not yet given to the socket, oldest first
  wire,      \* what the socket was given, in order
  failures   \* WSASends that have failed

svars == <<held, wire, failures>>

Init == held = <<>> /\ wire = <<>> /\ failures = 0

Known == {held[i] : i \in 1..Len(held)} \union {wire[i] : i \in 1..Len(wire)}

Accept(b) ==
  /\ b \notin Known
  /\ held' = Append(held, b)
  /\ UNCHANGED <<wire, failures>>

\* The k oldest held buffers are given to the socket in one call.
Transmit(k) ==
  /\ wire' = wire \o SubSeq(held, 1, k)
  /\ held' = SubSeq(held, k + 1, Len(held))
  /\ UNCHANGED failures

Fail(k) ==
  /\ failures' = failures + 1
  /\ held' = SubSeq(held, k + 1, Len(held))
  /\ UNCHANGED wire

Next ==
  \/ \E b \in Buffers : Accept(b)
  \/ \E k \in 1..Len(held) : Transmit(k) \/ Fail(k)

Spec == Init /\ [][Next]_svars
=============================================================================
