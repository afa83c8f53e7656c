---------------------------- MODULE PacketChannel ----------------------------
(***************************************************************************)
(* What a packet session promises: every packet handed to Send by any      *)
(* thread reaches the handler of its kind at the other end, once, in the   *)
(* order of Send and with the content it was made with; one whose content  *)
(* does not parse, or for which the other end has no handler, is skipped.  *)
(***************************************************************************)
EXTENDS Naturals, Sequences

CONSTANTS Packets, Acceptable(_)

VARIABLES pending, delivered

Init == pending = <<>> /\ delivered = <<>>

Submit == \E p \in Packets : pending' = Append(pending, p) /\ UNCHANGED delivered

Deliver ==
    /\ pending # <<>>
    /\ pending' = Tail(pending)
    /\ delivered' = IF Acceptable(Head(pending)) THEN Append(delivered, Head(pending))
                    ELSE delivered

Next == Deliver \/ Submit

Spec == Init /\ [][Next]_<<pending, delivered>>
=============================================================================
