---------------------------- MODULE LossyQueue ------------------------------
(***************************************************************************)
(* What the keyboard's buffers promise: a first-in first-out queue that    *)
(* holds Capacity items and refuses the newest one when it is full.        *)
(***************************************************************************)
EXTENDS Naturals, Sequences

CONSTANTS Item, Capacity
VARIABLES queue,
          popped    \* what the last Get returned

Offer(q, v) == IF Len(q) < Capacity THEN Append(q, v) ELSE q

Init == queue = <<>> /\ popped = <<>>
Put == (\E v \in Item : queue' = Offer(queue, v)) /\ UNCHANGED popped
Get == queue # <<>> /\ queue' = Tail(queue) /\ popped' = <<Head(queue)>>
Next == Put \/ Get
Spec == Init /\ [][Next]_<<queue, popped>>
=============================================================================
