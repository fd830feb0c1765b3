----------------------------- MODULE BoundedFifo -----------------------------
(***************************************************************************)
(* What base::BoundedQueue promises: a first-in first-out queue that never *)
(* holds more than Size elements and hands every element out once, in the  *)
(* order in which the elements were accepted.                              *)
(***************************************************************************)
EXTENDS Naturals, Sequences

CONSTANTS
    Size,          \* the size given to Init()
    Element

VARIABLES
    queue,         \* accepted and not handed out
    delivered      \* handed out, in order

vars == <<queue, delivered>>

Init == queue = <<>> /\ delivered = <<>>

Enqueue(e) ==
    /\ Len(queue) < Size
    /\ queue' = Append(queue, e)
    /\ UNCHANGED delivered

Dequeue ==
    /\ queue # <<>>
    /\ delivered' = Append(delivered, Head(queue))
    /\ queue' = Tail(queue)

Next == Dequeue \/ \E e \in Element : Enqueue(e)

Spec == Init /\ [][Next]_vars
=============================================================================
