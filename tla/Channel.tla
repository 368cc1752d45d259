------------------------------- MODULE Channel -------------------------------
(***************************************************************************)
(* What the queue promises its callers: a bounded channel that delivers    *)
(* every accepted element exactly once, in no particular order.  An offer  *)
(* may be refused (tryPush returns false) and then stays with the caller.  *)
(***************************************************************************)
EXTENDS Integers, FiniteSets

CONSTANTS Threads, Elements, NIL, Capacity

VARIABLES
    outside,   \* the elements the callers own
    offered,   \* the element each thread is pushing, or NIL
    content    \* the elements accepted and not yet delivered

cvars == <<outside, offered, content>>

Init ==
    /\ outside = Elements
    /\ offered = [t \in Threads |-> NIL]
    /\ content = {}

Offer(t, e) ==
    /\ offered[t] = NIL
    /\ e \in outside
    /\ outside' = outside \ {e}
    /\ offered' = [offered EXCEPT ![t] = e]
    /\ UNCHANGED content

Refuse(t) ==
    /\ offered[t] # NIL
    /\ outside' = outside \cup {offered[t]}
    /\ offered' = [offered EXCEPT ![t] = NIL]
    /\ UNCHANGED content

Accept(t) ==
    /\ offered[t] # NIL
    /\ Cardinality(content) < Capacity
    /\ content' = content \cup {offered[t]}
    /\ offered' = [offered EXCEPT ![t] = NIL]
    /\ UNCHANGED outside

Deliver(e) ==
    /\ e \in content
    /\ content' = content \ {e}
    /\ outside' = outside \cup {e}
    /\ UNCHANGED offered

Next ==
    \/ \E t \in Threads : (\E e \in Elements : Offer(t, e)) \/ Refuse(t) \/ Accept(t)
    \/ \E e \in Elements : Deliver(e)

Spec == Init /\ [][Next]_cvars
=============================================================================
