------------------------------ MODULE ChatRoom ------------------------------
(***************************************************************************)
(* What the room promises its members, whatever threads do the work: they  *)
(* join, part and speak in one order, and a member that stays connected    *)
(* hears everything said while it is a member, once and in that order.     *)
(* Nothing is promised to one that was cut off.                            *)
(***************************************************************************)
EXTENDS Naturals, Sequences

CONSTANTS Members, Messages

VARIABLES members, heard, cut

Init == members = {} /\ heard = [s \in Members |-> <<>>] /\ cut = {}

Join(s) == members' = members \cup {s} /\ UNCHANGED <<heard, cut>>

Part(s) == members' = members \ {s} /\ UNCHANGED <<heard, cut>>

Say(m) ==
    /\ heard' = [s \in Members |->
                    IF s \in members \ cut THEN Append(heard[s], m) ELSE heard[s]]
    /\ UNCHANGED <<members, cut>>

Cut(s) ==
    /\ cut' = cut \cup {s}
    /\ heard' = [heard EXCEPT ![s] = <<>>]
    /\ UNCHANGED members

Next ==
    \/ \E s \in Members : Join(s) \/ Part(s) \/ Cut(s)
    \/ \E m \in Messages : Say(m)

Spec == Init /\ [][Next]_<<members, heard, cut>>
=============================================================================
