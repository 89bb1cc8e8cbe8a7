---------------------------- MODULE BoundedQueue ----------------------------
(***************************************************************************)
(* A first-in first-out queue of at most Capacity values that drops a      *)
(* value offered while it is full (spec.md section 3, PendingByteQueue).   *)
(* offered records every value ever offered, kept or dropped, so that a    *)
(* drop is a visible step; handed every value that left, in order.        *)
(***************************************************************************)
EXTENDS Naturals, Sequences

CONSTANTS Capacity, Values

VARIABLES queue, offered, handed

vars == <<queue, offered, handed>>

Init == queue = <<>> /\ offered = <<>> /\ handed = <<>>

\* A value is offered: kept at the back unless the queue is full.
Offer(v) == /\ offered' = Append(offered, v)
            /\ queue' = IF Len(queue) < Capacity THEN Append(queue, v) ELSE queue
            /\ UNCHANGED handed

\* The value at the front leaves the queue.
Take == /\ queue # <<>>
        /\ queue' = Tail(queue)
        /\ handed' = Append(handed, Head(queue))
        /\ UNCHANGED offered

\* Both in one step: a value is offered and then the front one leaves.
OfferTake(v) == /\ offered' = Append(offered, v)
                /\ LET q == IF Len(queue) < Capacity THEN Append(queue, v) ELSE queue
                   IN  /\ q # <<>>
                       /\ queue' = Tail(q)
                       /\ handed' = Append(handed, Head(q))

Next == (\E v \in Values : Offer(v) \/ OfferTake(v)) \/ Take

Spec == Init /\ [][Next]_vars
=============================================================================
