----------------------------- MODULE QueueOrder ------------------------------
(***************************************************************************)
(* The order in which LockFreeQueue hands its elements over, and that it   *)
(* hands every one over.  The queue is unchanged; three history variables  *)
(* watch it, and each element is sent at most once, as a message is that   *)
(* its receiver frees.                                                     *)
(***************************************************************************)
EXTENDS LockFreeQueue, SequencesExt

VARIABLES
    reserved,   \* the elements in the order in which they got their tickets
    delivered,  \* the elements in the order in which pops returned them
    exceeded    \* more than m_size elements have been under way at once

ovars == <<head, tail, slot, pc, ticket, held, outside,
           reserved, delivered, exceeded>>

OInit ==
    /\ Init
    /\ reserved = <<>>
    /\ delivered = <<>>
    /\ exceeded = FALSE

Fresh == Elements \ ToSet(delivered)

\* Elements with a ticket that no pop has returned.
UnderWay == Len(reserved) - Len(delivered)

Reserve(t) ==
    /\ (\E e \in Fresh : PushReserve(t, e)) \/ TryPushReserve(t)
    /\ reserved' = Append(reserved, held'[t])
    /\ exceeded' = (exceeded \/ UnderWay + 1 > Size)
    /\ UNCHANGED delivered

Deliver(t) ==
    /\ PopTake(t)
    /\ delivered' = Append(delivered, slot[SlotOf(ticket[t])])
    /\ UNCHANGED <<reserved, exceeded>>

OtherProducerStep(t) ==
    /\ \/ \E e \in Fresh : TryPushLoad(t, e)
       \/ TryPushFull(t)
       \/ TryPushRoom(t)
       \/ TryPushRetry(t)
       \/ PushStore(t)
    /\ UNCHANGED <<reserved, delivered, exceeded>>

OtherConsumerStep(t) ==
    /\ \/ PopReserve(t)
       \/ TryPopLoad(t)
       \/ TryPopEmpty(t)
       \/ TryPopSome(t)
       \/ TryPopReserve(t)
       \/ TryPopRetry(t)
    /\ UNCHANGED <<reserved, delivered, exceeded>>

ONext ==
    \/ \E t \in Producers : Reserve(t) \/ OtherProducerStep(t)
    \/ \E t \in Consumers : Deliver(t) \/ OtherConsumerStep(t)

(***************************************************************************)
(* A thread that has a ticket keeps spinning until its slot access         *)
(* succeeds; a consumer keeps receiving; a weak compare-exchange that      *)
(* could succeed again and again is not refused forever.                   *)
(***************************************************************************)
Fairness ==
    /\ \A t \in Producers : WF_ovars(PushStore(t) /\ OtherProducerStep(t))
    /\ \A t \in Consumers :
        /\ WF_ovars(Deliver(t) \/ OtherConsumerStep(t))
        /\ SF_ovars(TryPopReserve(t) /\ OtherConsumerStep(t))

OSpec == OInit /\ [][ONext]_ovars /\ Fairness

-----------------------------------------------------------------------------
(* With a single consumer, elements arrive in the order of their tickets   *)
(* as long as no more than m_size of them have ever been under way.  A     *)
(* stalled push can only be overtaken by one that laps the ring.           *)
FifoWithinCapacity == ~exceeded => IsPrefix(delivered, reserved)

(* Every element that got a ticket is received: no push waits for a slot   *)
(* and no pop for an element forever, whatever the laps and the overflow   *)
(* of the indexes.                                                         *)
EveryReservedDelivered ==
    \A e \in Elements : e \in ToSet(reserved) ~> e \in ToSet(delivered)
=============================================================================
