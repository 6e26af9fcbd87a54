---------------------------- MODULE BoundedFifo -----------------------------
(***************************************************************************)
(* What a queue promises, whatever it is made of: what is taken out is     *)
(* what went in first, each datum once, and Put never makes the queue      *)
(* longer than Capacity.  An urgent datum goes before all others.          *)
(***************************************************************************)
EXTENDS Naturals, Sequences

CONSTANTS Data, Capacity

VARIABLES
    items,  \* what is in the queue, the oldest first
    out     \* what was taken out last

Init == items = <<>> /\ out \in Data

Put == /\ Len(items) < Capacity
       /\ \E d \in Data : items' = Append(items, d)
       /\ UNCHANGED out

PutFirst == /\ \E d \in Data : items' = <<d>> \o items
            /\ UNCHANGED out

Take == /\ items # <<>>
        /\ out' = Head(items)
        /\ items' = Tail(items)

Next == Put \/ PutFirst \/ Take

Spec == Init /\ [][Next]_<<items, out>>
============================================================================
