------------------------------- MODULE KeyFifo -------------------------------
(***************************************************************************)
(* What the keyboard promises: events come out once, in the order in which *)
(* they went in, and the queue reports that it is full instead of losing   *)
(* one.                                                                    *)
(***************************************************************************)
EXTENDS Naturals, Sequences

CONSTANTS Events, Capacity

VARIABLES queue, full

Init == queue = << >> /\ full = FALSE

Put ==
    /\ ~full /\ Len(queue) < Capacity
    /\ \E e \in Events : queue' = Append(queue, e)
    /\ UNCHANGED full

Overflow == ~full /\ Len(queue) = Capacity /\ full' = TRUE /\ UNCHANGED queue

Get == queue # << >> /\ queue' = Tail(queue) /\ UNCHANGED full

Next == Put \/ Overflow \/ Get

Spec == Init /\ [][Next]_<<queue, full>>

=============================================================================
