------------------------------ MODULE SpscQueue ------------------------------
(***************************************************************************)
(* The ring of itcLockFreeQueue.h in its single-producer single-consumer   *)
(* form (IS_SPSC_VALUE = 1): the same indexes and slots, but every         *)
(* read-modify-write of the general form is split into a load and a store, *)
(* which is safe only because the index each side writes and the           *)
(* transition of a slot each side makes belong to that side alone.         *)
(*                                                                         *)
(* Nothing here stops a second producer or consumer: that there is one of  *)
(* each is up to the caller, and to the constants of a run or the          *)
(* hypothesis of a theorem.                                                *)
(***************************************************************************)
EXTENDS LockFreeQueue, Sequences

VARIABLE seen   \* the element that the consumer's load of a slot returned

svars == <<head, tail, slot, pc, ticket, held, outside, seen>>

SInit == Init /\ seen = NIL

-----------------------------------------------------------------------------
(* Faulty variants of the operations below, for testing the properties.    *)

\* m_tail stored before it is incremented: the next pop reads the same slot
StoreTailStale(t) ==
    /\ pc[t] = "popClaim"
    /\ tail' = ticket[t]
    /\ Goto(t, "popWait")
    /\ UNCHANGED <<head, slot, ticket, held, outside, seen>>

\* the store of NIL left out
StoreNilForgotten(t) ==
    /\ pc[t] = "popStore"
    /\ outside' = outside \cup {seen}
    /\ seen' = NIL
    /\ Return(t)
    /\ UNCHANGED <<head, tail, slot, held>>

-----------------------------------------------------------------------------
(* push and tryPush load m_head; tryPush then compares it with m_tail.     *)

LoadHead(t, e, next) ==
    /\ pc[t] = "idle"
    /\ e \in outside
    /\ outside' = outside \ {e}
    /\ held' = [held EXCEPT ![t] = e]
    /\ ticket' = [ticket EXCEPT ![t] = head]
    /\ Goto(t, next)
    /\ UNCHANGED <<head, tail, slot, seen>>

RefuseFull(t) ==
    /\ pc[t] = "pushCheck"
    /\ SignedDiff(ticket[t], tail) >= Size
    /\ outside' = outside \cup {held[t]}
    /\ held' = [held EXCEPT ![t] = NIL]
    /\ Return(t)
    /\ UNCHANGED <<head, tail, slot, seen>>

FindRoom(t) ==
    /\ pc[t] = "pushCheck"
    /\ SignedDiff(ticket[t], tail) < Size
    /\ Goto(t, "pushClaim")
    /\ UNCHANGED <<head, tail, slot, ticket, held, outside, seen>>

StoreHead(t) ==
    /\ pc[t] = "pushClaim"
    /\ head' = Increment(ticket[t])
    /\ Goto(t, "pushWait")
    /\ UNCHANGED <<tail, slot, ticket, held, outside, seen>>

(* doPush: a load that sees NIL, then a separate store.                    *)

SeeEmpty(t) ==
    /\ pc[t] = "pushWait"
    /\ slot[SlotOf(ticket[t])] = NIL
    /\ Goto(t, "pushStore")
    /\ UNCHANGED <<head, tail, slot, ticket, held, outside, seen>>

StoreElement(t) ==
    /\ pc[t] = "pushStore"
    /\ slot' = [slot EXCEPT ![SlotOf(ticket[t])] = held[t]]
    /\ held' = [held EXCEPT ![t] = NIL]
    /\ Return(t)
    /\ UNCHANGED <<head, tail, outside, seen>>

-----------------------------------------------------------------------------
(* pop and tryPop load m_tail; tryPop then compares it with m_head.        *)

LoadTail(t, next) ==
    /\ pc[t] = "idle"
    /\ ticket' = [ticket EXCEPT ![t] = tail]
    /\ Goto(t, next)
    /\ UNCHANGED <<head, tail, slot, held, outside, seen>>

RefuseEmpty(t) ==
    /\ pc[t] = "popCheck"
    /\ SignedDiff(head, ticket[t]) <= 0
    /\ Return(t)
    /\ UNCHANGED <<head, tail, slot, held, outside, seen>>

FindSome(t) ==
    /\ pc[t] = "popCheck"
    /\ SignedDiff(head, ticket[t]) > 0
    /\ Goto(t, "popClaim")
    /\ UNCHANGED <<head, tail, slot, ticket, held, outside, seen>>

StoreTail(t) ==
    /\ pc[t] = "popClaim"
    /\ tail' = Increment(ticket[t])
    /\ Goto(t, "popWait")
    /\ UNCHANGED <<head, slot, ticket, held, outside, seen>>

(* doPop: a load that sees an element, then a separate store of NIL.       *)

SeeElement(t) ==
    /\ pc[t] = "popWait"
    /\ slot[SlotOf(ticket[t])] # NIL
    /\ seen' = slot[SlotOf(ticket[t])]
    /\ Goto(t, "popStore")
    /\ UNCHANGED <<head, tail, slot, ticket, held, outside>>

StoreNil(t) ==
    /\ pc[t] = "popStore"
    /\ slot' = [slot EXCEPT ![SlotOf(ticket[t])] = NIL]
    /\ outside' = outside \cup {seen}
    /\ seen' = NIL
    /\ Return(t)
    /\ UNCHANGED <<head, tail, held>>

-----------------------------------------------------------------------------
PushStep(t) ==
    \/ \E e \in Elements : LoadHead(t, e, "pushClaim") \/ LoadHead(t, e, "pushCheck")
    \/ RefuseFull(t)
    \/ FindRoom(t)
    \/ StoreHead(t)
    \/ SeeEmpty(t)
    \/ StoreElement(t)

PopStep(t) ==
    \/ LoadTail(t, "popClaim") \/ LoadTail(t, "popCheck")
    \/ RefuseEmpty(t)
    \/ FindSome(t)
    \/ StoreTail(t)
    \/ SeeElement(t)
    \/ StoreNil(t)

SNext ==
    \/ \E t \in Producers : PushStep(t)
    \/ \E t \in Consumers : PopStep(t)

SSpec == SInit /\ [][SNext]_svars

\* Both threads keep running, and the consumer keeps receiving.
SFairSpec ==
    /\ SSpec
    /\ \A t \in Producers : WF_svars(StoreHead(t) \/ SeeEmpty(t) \/ StoreElement(t))
    /\ \A t \in Consumers : WF_svars(PopStep(t))

-----------------------------------------------------------------------------
\* The one thread on each side.
producer == CHOOSE t \in Producers : TRUE
consumer == CHOOSE t \in Consumers : TRUE

\* The oldest ticket not yet delivered and the oldest not yet stored.
FirstUnread ==
    IF pc[consumer] \in {"popWait", "popStore"} THEN ticket[consumer] ELSE tail
FirstUnwritten ==
    IF pc[producer] \in {"pushWait", "pushStore"} THEN ticket[producer] ELSE head

\* The stored elements in ticket order.
Contents ==
    [j \in 1 .. SignedDiff(FirstUnwritten, FirstUnread) |->
        slot[SlotOf(FirstUnread + j - 1)]]

Fifo == INSTANCE FifoChannel WITH offered <- held[producer], queue <- Contents,
                                  Capacity <- Size

(* Split into loads and stores, the ring still is a bounded FIFO: no       *)
(* element is overwritten between the load that saw NIL and the store,     *)
(* none is read twice between the load and the store of NIL, and none      *)
(* overtakes another.                                                      *)
ImplementsFifo == Fifo!Spec

(* A push that has claimed its index completes: the consumer frees its     *)
(* slot sooner or later.                                                   *)
PushCompletes == pc[producer] = "pushWait" ~> pc[producer] = "idle"
=============================================================================
