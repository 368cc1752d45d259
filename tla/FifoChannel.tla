----------------------------- MODULE FifoChannel -----------------------------
(***************************************************************************)
(* What the single-producer single-consumer form of the queue promises: a  *)
(* bounded channel that delivers every accepted element once, in order.    *)
(***************************************************************************)
EXTENDS Integers, Sequences

CONSTANTS Elements, NIL, Capacity

VARIABLES
    outside,   \* the elements the caller owns
    offered,   \* the element being pushed, or NIL
    queue      \* the elements accepted and not yet delivered, oldest first

fvars == <<outside, offered, queue>>

Init ==
    /\ outside = Elements
    /\ offered = NIL
    /\ queue = <<>>

Offer(e) ==
    /\ offered = NIL
    /\ e \in outside
    /\ outside' = outside \ {e}
    /\ offered' = e
    /\ UNCHANGED queue

Refuse ==
    /\ offered # NIL
    /\ outside' = outside \cup {offered}
    /\ offered' = NIL
    /\ UNCHANGED queue

Accept ==
    /\ offered # NIL
    /\ Len(queue) < Capacity
    /\ queue' = Append(queue, offered)
    /\ offered' = NIL
    /\ UNCHANGED outside

Deliver ==
    /\ queue # <<>>
    /\ outside' = outside \cup {Head(queue)}
    /\ queue' = Tail(queue)
    /\ UNCHANGED offered

Next == (\E e \in Elements : Offer(e)) \/ Refuse \/ Accept \/ Deliver

Spec == Init /\ [][Next]_fvars
=============================================================================
