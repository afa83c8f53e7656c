----------------------------- MODULE BlockStore -----------------------------
(***************************************************************************)
(* What an allocator promises: whoever asks gets storage that is large     *)
(* enough and that nobody uses, until it is given back.                    *)
(***************************************************************************)
EXTENDS Naturals

CONSTANTS Users, Blocks, Sizes, Requests

VARIABLES
    room,       \* the size of each block there is; 0 for the others
    inUse       \* the blocks in use: by whom, and the size that was asked for

vars == <<room, inUse>>

Init == room \in [Blocks -> {0} \cup Sizes] /\ inUse = {}

Grow(b) == room[b] = 0 /\ \E n \in Sizes : room' = [room EXCEPT ![b] = n]

Get(user, b, n) ==
    /\ n <= room[b] /\ \A u \in inUse : u.block # b
    /\ inUse' = inUse \cup {[user |-> user, block |-> b, size |-> n]}

GiveBack(u) == inUse' = inUse \ {u}

Next ==
    \/ \E b \in Blocks : Grow(b) /\ UNCHANGED inUse
    \/ \E user \in Users, b \in Blocks, n \in Requests : Get(user, b, n) /\ UNCHANGED room
    \/ \E u \in inUse : GiveBack(u) /\ UNCHANGED room

Spec == Init /\ [][Next]_vars
=============================================================================
