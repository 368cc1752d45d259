------------------------ MODULE LockFreeQueue_proofs -------------------------
(***************************************************************************)
(* Proofs about LockFreeQueue for every number of threads, elements and    *)
(* slots, every index width and every permutation of the slots: ownership, *)
(* the balance of the indexes, the order of delivery (QueueOrder), and the *)
(* single-producer single-consumer form (SpscQueue).                       *)
(***************************************************************************)
EXTENDS SpscQueue, QueueOrder, FiniteSetTheorems, SequenceTheorems, TLAPS

(* The inductive invariant.  Conservation is inductive only together with  *)
(* the types and with HeldWhilePushing: the latter is why an element that  *)
(* tryPush hands back, or that doPush stores, is an element and not NIL.   *)
IInv == TypeOK /\ HeldWhilePushing /\ Conservation

(* A step of one thread, whichever operations the thread may call.         *)
ThreadStep(t) ==
    \/ \E e \in Elements : PushReserve(t, e) \/ TryPushLoad(t, e)
    \/ TryPushFull(t) \/ TryPushRoom(t) \/ TryPushReserve(t)
    \/ TryPushRetry(t) \/ PushStore(t)
    \/ PopReserve(t) \/ TryPopLoad(t) \/ TryPopEmpty(t)
    \/ TryPopSome(t) \/ TryPopReserve(t) \/ TryPopRetry(t)
    \/ PopTake(t)
    \/ SizeLoadHead(t) \/ SizeLoadTail(t) \/ SizeReturn(t)

-----------------------------------------------------------------------------
(* An incremented uint32_t index is again a uint32_t.                      *)
LEMMA IncrementType == \A i \in Indexes : Increment(i) \in Indexes
BY QueueAssumption DEF Indexes, Increment

(* Every ticket names a slot of the ring.                                  *)
LEMMA SlotOfType == \A i \in Indexes : i % Size \in Slots /\ SlotOf(i) \in Slots
<1>1. \A i \in Indexes : i % Size \in Slots
  BY QueueAssumption DEF Indexes, Slots
<1>2. QED
  BY <1>1, QueueAssumption DEF SlotOf

(* Zero, the value of a dead local index, is an index.                     *)
LEMMA ZeroIndex == 0 \in Indexes
BY QueueAssumption DEF Indexes

(* Each step of Next is a step of some thread.                             *)
LEMMA NextIsThreadStep == Next => \E t \in Threads : ThreadStep(t)
BY DEF Next, ProducerStep, ConsumerStep, ObserverStep, Threads, ThreadStep

(* Every step of a thread keeps the types: Increment and SlotOf keep the   *)
(* indexes and the slot accesses of every operation in range.              *)
LEMMA TypeStep ==
    ASSUME TypeOK, HeldWhilePushing, NEW t \in Threads, ThreadStep(t)
    PROVE  TypeOK'
<1> USE IncrementType, SlotOfType, ZeroIndex DEF TypeOK, Goto, Return, PcValues
  <1>1. ASSUME NEW e \in Elements, PushReserve(t, e) PROVE TypeOK'
    BY <1>1 DEF PushReserve
  <1>2. ASSUME NEW e \in Elements, TryPushLoad(t, e) PROVE TypeOK'
    BY <1>2 DEF TryPushLoad
  <1>3. CASE TryPushFull(t)
    BY <1>3 DEF TryPushFull, HeldWhilePushing
  <1>4. CASE TryPushRoom(t)
    BY <1>4 DEF TryPushRoom
  <1>5. CASE TryPushReserve(t)
    BY <1>5 DEF TryPushReserve
  <1>6. CASE TryPushRetry(t)
    BY <1>6 DEF TryPushRetry
  <1>7. CASE PushStore(t)
    BY <1>7 DEF PushStore
  <1>8. CASE PopReserve(t)
    BY <1>8 DEF PopReserve
  <1>9. CASE TryPopLoad(t)
    BY <1>9 DEF TryPopLoad
  <1>10. CASE TryPopEmpty(t)
    BY <1>10 DEF TryPopEmpty
  <1>11. CASE TryPopSome(t)
    BY <1>11 DEF TryPopSome
  <1>12. CASE TryPopReserve(t)
    BY <1>12 DEF TryPopReserve
  <1>13. CASE TryPopRetry(t)
    BY <1>13 DEF TryPopRetry
  <1>14. CASE PopTake(t)
    BY <1>14 DEF PopTake
  <1>15. CASE SizeLoadHead(t)
    BY <1>15 DEF SizeLoadHead
  <1>16. CASE SizeLoadTail(t)
    BY <1>16 DEF SizeLoadTail
  <1>17. CASE SizeReturn(t)
    BY <1>17 DEF SizeReturn
  <1> QED
    BY <1>1, <1>2, <1>3, <1>4, <1>5, <1>6, <1>7, <1>8, <1>9,
       <1>10, <1>11, <1>12, <1>13, <1>14, <1>15, <1>16, <1>17 DEF ThreadStep

(* Every step of a thread keeps its element and its program counter in     *)
(* step with each other.                                                   *)
LEMMA HeldStep ==
    ASSUME TypeOK, HeldWhilePushing, NEW t \in Threads, ThreadStep(t)
    PROVE  HeldWhilePushing'
<1> USE QueueAssumption DEF TypeOK, HeldWhilePushing, Goto, Return, PcValues
  <1>1. ASSUME NEW e \in Elements, PushReserve(t, e) PROVE HeldWhilePushing'
    BY <1>1 DEF PushReserve
  <1>2. ASSUME NEW e \in Elements, TryPushLoad(t, e) PROVE HeldWhilePushing'
    BY <1>2 DEF TryPushLoad
  <1>3. CASE TryPushFull(t)
    BY <1>3 DEF TryPushFull
  <1>4. CASE TryPushRoom(t)
    BY <1>4 DEF TryPushRoom
  <1>5. CASE TryPushReserve(t)
    BY <1>5 DEF TryPushReserve
  <1>6. CASE TryPushRetry(t)
    BY <1>6 DEF TryPushRetry
  <1>7. CASE PushStore(t)
    BY <1>7 DEF PushStore
  <1>8. CASE PopReserve(t)
    BY <1>8 DEF PopReserve
  <1>9. CASE TryPopLoad(t)
    BY <1>9 DEF TryPopLoad
  <1>10. CASE TryPopEmpty(t)
    BY <1>10 DEF TryPopEmpty
  <1>11. CASE TryPopSome(t)
    BY <1>11 DEF TryPopSome
  <1>12. CASE TryPopReserve(t)
    BY <1>12 DEF TryPopReserve
  <1>13. CASE TryPopRetry(t)
    BY <1>13 DEF TryPopRetry
  <1>14. CASE PopTake(t)
    BY <1>14 DEF PopTake
  <1>15. CASE SizeLoadHead(t)
    BY <1>15 DEF SizeLoadHead
  <1>16. CASE SizeLoadTail(t)
    BY <1>16 DEF SizeLoadTail
  <1>17. CASE SizeReturn(t)
    BY <1>17 DEF SizeReturn
  <1> QED
    BY <1>1, <1>2, <1>3, <1>4, <1>5, <1>6, <1>7, <1>8, <1>9,
       <1>10, <1>11, <1>12, <1>13, <1>14, <1>15, <1>16, <1>17 DEF ThreadStep

(* Every step of a thread moves at most one element from one owner to one  *)
(* other: the compare-exchange from NIL is why a store overwrites nothing, *)
(* the exchange with NIL is why no second pop sees the same element.       *)
LEMMA ConservationStep ==
    ASSUME TypeOK, HeldWhilePushing, Conservation,
           NEW t \in Threads, ThreadStep(t)
    PROVE  Conservation'
<1> USE QueueAssumption
    DEF TypeOK, Goto, Return, Conservation, NoneLost, NoneDuplicated
  <1>1. ASSUME NEW e \in Elements, PushReserve(t, e) PROVE Conservation'
    BY <1>1 DEF PushReserve, HeldWhilePushing
  <1>2. ASSUME NEW e \in Elements, TryPushLoad(t, e) PROVE Conservation'
    BY <1>2 DEF TryPushLoad, HeldWhilePushing
  <1>3. CASE TryPushFull(t)
    BY <1>3 DEF TryPushFull, HeldWhilePushing
  <1>4. CASE TryPushRoom(t)
    BY <1>4 DEF TryPushRoom
  <1>5. CASE TryPushReserve(t)
    BY <1>5 DEF TryPushReserve
  <1>6. CASE TryPushRetry(t)
    BY <1>6 DEF TryPushRetry
  <1>7. CASE PushStore(t)
    BY <1>7, SlotOfType DEF PushStore, HeldWhilePushing
  <1>8. CASE PopReserve(t)
    BY <1>8 DEF PopReserve
  <1>9. CASE TryPopLoad(t)
    BY <1>9 DEF TryPopLoad
  <1>10. CASE TryPopEmpty(t)
    BY <1>10 DEF TryPopEmpty
  <1>11. CASE TryPopSome(t)
    BY <1>11 DEF TryPopSome
  <1>12. CASE TryPopReserve(t)
    BY <1>12 DEF TryPopReserve
  <1>13. CASE TryPopRetry(t)
    BY <1>13 DEF TryPopRetry
  <1>14. CASE PopTake(t)
    BY <1>14, SlotOfType DEF PopTake
  <1>15. CASE SizeLoadHead(t)
    BY <1>15 DEF SizeLoadHead
  <1>16. CASE SizeLoadTail(t)
    BY <1>16 DEF SizeLoadTail
  <1>17. CASE SizeReturn(t)
    BY <1>17 DEF SizeReturn
  <1> QED
    BY <1>1, <1>2, <1>3, <1>4, <1>5, <1>6, <1>7, <1>8, <1>9,
       <1>10, <1>11, <1>12, <1>13, <1>14, <1>15, <1>16, <1>17 DEF ThreadStep

(* The inductive invariant holds in every reachable state.                 *)
THEOREM InductiveInvariant == Spec => []IInv
<1>1. Init => IInv
  <2> SUFFICES ASSUME Init PROVE IInv
    OBVIOUS
  <2>1. TypeOK
    BY QueueAssumption, ZeroIndex DEF Init, TypeOK, PcValues
  <2>2. HeldWhilePushing
    BY DEF Init, HeldWhilePushing
  <2>3. Conservation
    BY QueueAssumption DEF Init, Conservation, NoneLost, NoneDuplicated
  <2> QED
    BY <2>1, <2>2, <2>3 DEF IInv
<1>2. IInv /\ [Next]_vars => IInv'
  <2> SUFFICES ASSUME IInv, [Next]_vars PROVE IInv'
    OBVIOUS
  <2>1. CASE UNCHANGED vars
    BY <2>1 DEF vars, IInv, TypeOK, HeldWhilePushing, Conservation,
                NoneLost, NoneDuplicated
  <2>2. CASE Next
    BY <2>2, NextIsThreadStep, TypeStep, HeldStep, ConservationStep DEF IInv
  <2> QED
    BY <2>1, <2>2
<1> QED
  BY <1>1, <1>2, PTL DEF Spec

(* Type correctness of the queue.                                          *)
THEOREM TypeCorrect == Spec => []TypeOK
BY InductiveInvariant, PTL DEF IInv

(* No interleaving of push, tryPush, pop, tryPop and size loses an element *)
(* or leaves it with two owners.                                           *)
THEOREM ConservationHolds == Spec => []Conservation
BY InductiveInvariant, PTL DEF IInv

-----------------------------------------------------------------------------
(* Storing into an empty slot adds exactly the stored element.             *)
LEMMA StoreContent ==
    ASSUME TypeOK, NEW i \in Slots, slot[i] = NIL, NEW e \in Elements,
           slot' = [slot EXCEPT ![i] = e]
    PROVE  Content' = Content \cup {e}
BY QueueAssumption DEF TypeOK, Content

(* Emptying a slot removes exactly the element it held, because no other   *)
(* slot holds the same one.                                                *)
LEMMA TakeContent ==
    ASSUME TypeOK, NoneDuplicated, NEW i \in Slots, slot[i] # NIL,
           slot' = [slot EXCEPT ![i] = NIL]
    PROVE  Content' = Content \ {slot[i]}
BY QueueAssumption DEF TypeOK, Content, NoneDuplicated

(* While a slot is empty the ring holds fewer elements than it has slots.  *)
LEMMA RoomInContent ==
    ASSUME TypeOK, NEW i \in Slots, slot[i] = NIL
    PROVE  Cardinality(Content) < Size
<1> DEFINE Others == Slots \ {i}
           Image == {slot[j] : j \in Others}
           f == [j \in Others |-> slot[j]]
<1>1. IsFiniteSet(Slots) /\ Cardinality(Slots) = Size
  BY QueueAssumption, FS_Interval DEF Slots
<1>2. IsFiniteSet(Others) /\ Cardinality(Others) = Size - 1
  BY <1>1, FS_RemoveElement
<1>3. f \in Surjection(Others, Image)
  BY DEF Surjection
<1>4. IsFiniteSet(Image) /\ Cardinality(Image) <= Size - 1
  <2> HIDE DEF Others, Image, f
  <2> QED
    BY <1>2, <1>3, FS_Surjection
<1>5. Content \in SUBSET Image
  BY DEF Content
<1>6. IsFiniteSet(Content) /\ Cardinality(Content) <= Cardinality(Image)
  <2> HIDE DEF Image
  <2> QED
    BY <1>4, <1>5, FS_Subset
<1>7. Cardinality(Content) \in Nat /\ Cardinality(Image) \in Nat
  BY <1>4, <1>6, FS_CardinalityType
<1> QED
  <2> HIDE DEF Image
  <2> QED
    BY <1>4, <1>6, <1>7, QueueAssumption

(* The channel counts its content with the same Cardinality.               *)
LEMMA SameCardinality == \A S : Chan!Cardinality(S) = Cardinality(S)
BY DEF Cardinality, Chan!Cardinality, IsFiniteSet, Chan!IsFiniteSet

(* A step of a thread is a step of the channel or leaves it unchanged.     *)
LEMMA ChannelStep ==
    ASSUME IInv, NEW t \in Threads, ThreadStep(t)
    PROVE  Chan!Next \/ UNCHANGED Chan!cvars
<1>1. ASSUME NEW e \in Elements, PushReserve(t, e) \/ TryPushLoad(t, e)
      PROVE  Chan!Next
  <2>1. held[t] = NIL
    BY <1>1 DEF PushReserve, TryPushLoad, IInv, HeldWhilePushing
  <2>2. Chan!Offer(t, e)
    BY <1>1, <2>1 DEF PushReserve, TryPushLoad, Chan!Offer, Content
  <2> QED
    BY <2>2 DEF Chan!Next
<1>2. ASSUME TryPushFull(t) PROVE Chan!Next
  <2>1. held[t] # NIL
    BY <1>2 DEF TryPushFull, IInv, HeldWhilePushing
  <2>2. Chan!Refuse(t)
    BY <1>2, <2>1 DEF TryPushFull, Chan!Refuse, Content
  <2> QED
    BY <2>2 DEF Chan!Next
<1>3. ASSUME PushStore(t) PROVE Chan!Next
  <2> DEFINE i == SlotOf(ticket[t])
  <2>1. i \in Slots /\ slot[i] = NIL
    BY <1>3, SlotOfType DEF PushStore, IInv, TypeOK
  <2>2. held[t] \in Elements
    BY <1>3 DEF PushStore, IInv, TypeOK, HeldWhilePushing
  <2>3. slot' = [slot EXCEPT ![i] = held[t]]
    BY <1>3 DEF PushStore
  <2>4. Content' = Content \cup {held[t]}
    BY <2>1, <2>2, <2>3, StoreContent DEF IInv
  <2>5. Cardinality(Content) < Size
    BY <2>1, RoomInContent DEF IInv
  <2>6. Chan!Accept(t)
    BY <1>3, <2>2, <2>4, <2>5, QueueAssumption, SameCardinality
    DEF PushStore, Chan!Accept
  <2> QED
    BY <2>6 DEF Chan!Next
<1>4. ASSUME PopTake(t) PROVE Chan!Next
  <2> DEFINE i == SlotOf(ticket[t])
  <2>1. i \in Slots /\ slot[i] # NIL
    BY <1>4, SlotOfType DEF PopTake, IInv, TypeOK
  <2>2. slot[i] \in Elements /\ slot[i] \in Content
    BY <2>1 DEF IInv, TypeOK, Content
  <2>3. slot' = [slot EXCEPT ![i] = NIL]
    BY <1>4 DEF PopTake
  <2>4. Content' = Content \ {slot[i]}
    BY <2>1, <2>3, TakeContent DEF IInv, Conservation
  <2>5. Chan!Deliver(slot[i])
    BY <1>4, <2>2, <2>4 DEF PopTake, Chan!Deliver
  <2> QED
    BY <2>2, <2>5 DEF Chan!Next
<1>5. ASSUME \/ TryPushRoom(t) \/ TryPushReserve(t) \/ TryPushRetry(t)
             \/ PopReserve(t) \/ TryPopLoad(t) \/ TryPopEmpty(t)
             \/ TryPopSome(t) \/ TryPopReserve(t) \/ TryPopRetry(t)
             \/ SizeLoadHead(t) \/ SizeLoadTail(t) \/ SizeReturn(t)
      PROVE  UNCHANGED Chan!cvars
  BY <1>5 DEF TryPushRoom, TryPushReserve, TryPushRetry, PopReserve,
              TryPopLoad, TryPopEmpty, TryPopSome, TryPopReserve, TryPopRetry,
              SizeLoadHead, SizeLoadTail, SizeReturn, Chan!cvars, Content
<1> QED
  BY <1>1, <1>2, <1>3, <1>4, <1>5 DEF ThreadStep

(* The lock-free ring implements the abstract channel for every number of  *)
(* producers and consumers, every size and every index width.              *)
THEOREM ChannelRefinement == Spec => ImplementsChannel
<1>1. Init => Chan!Init
  BY QueueAssumption DEF Init, Chan!Init, Content
<1>2. IInv /\ [Next]_vars => [Chan!Next]_(Chan!cvars)
  <2> SUFFICES ASSUME IInv, [Next]_vars PROVE Chan!Next \/ UNCHANGED Chan!cvars
    OBVIOUS
  <2>1. CASE UNCHANGED vars
    BY <2>1 DEF vars, Chan!cvars, Content
  <2>2. CASE Next
    BY <2>2, NextIsThreadStep, ChannelStep
  <2> QED
    BY <2>1, <2>2
<1> QED
  BY <1>1, <1>2, InductiveInvariant, PTL DEF Spec, ImplementsChannel, Chan!Spec

-----------------------------------------------------------------------------
(* Arithmetic of the indexes and of the slots they name.                   *)

(* How many indexes below x name the slot at position r.                   *)
Turns(x, r) == (x + Size - 1 - r) \div Size


(* Division by a positive number, with its remainder.                      *)
LEMMA DivMod ==
    ASSUME NEW a \in Int, NEW n \in Nat \ {0}
    PROVE  /\ a \div n \in Int /\ a % n \in 0 .. n - 1
           /\ a = n * (a \div n) + (a % n)
OBVIOUS

(* Different multiples of n are at least n apart.                          *)
LEMMA MulGap ==
    ASSUME NEW n \in Nat \ {0}, NEW p \in Int, NEW q \in Int, p < q
    PROVE  n * p + n <= n * q
<1>1. PICK d \in Nat : q = p + 1 + d
  <2>1. q - p - 1 \in Nat /\ q = p + 1 + (q - p - 1)
    OBVIOUS
  <2> QED
    BY <2>1
<1>2. n * q = n * p + n + n * d
  BY <1>1
<1>3. n * d >= 0
  BY <1>1
<1> QED
  BY <1>2, <1>3

(* Quotient and remainder are determined by what they add up to.           *)
LEMMA DivUnique ==
    ASSUME NEW n \in Nat \ {0}, NEW q \in Int, NEW s \in 0 .. n - 1,
           NEW a \in Int, a = n * q + s
    PROVE  a \div n = q /\ a % n = s
<1> DEFINE d == a \div n
           m == a % n
<1>1. d \in Int /\ m \in 0 .. n - 1 /\ a = n * d + m
  BY DivMod
<1> HIDE DEF d, m
<1>2. ~(d < q)
  BY <1>1, MulGap
<1>3. ~(q < d)
  BY <1>1, MulGap
<1>4. d = q
  BY <1>1, <1>2, <1>3
<1> QED
  BY <1>1, <1>4 DEF d, m

(* Division by a positive number keeps the order.                          *)
LEMMA DivMonotone ==
    ASSUME NEW n \in Nat \ {0}, NEW a \in Int, NEW b \in Int, a <= b
    PROVE  a \div n <= b \div n
<1> DEFINE p == a \div n
           q == b \div n
<1>1. /\ p \in Int /\ a % n \in 0 .. n - 1 /\ a = n * p + (a % n)
      /\ q \in Int /\ b % n \in 0 .. n - 1 /\ b = n * q + (b % n)
  BY DivMod
<1> HIDE DEF p, q
<1>2. ~(q < p)
  BY <1>1, MulGap
<1> QED
  BY <1>1, <1>2 DEF p, q

(* The number of turns is a number.                                        *)
LEMMA TurnsType == \A x \in Int, r \in Slots : Turns(x, r) \in Int
BY QueueAssumption, DivMod DEF Turns, Slots

(* A quotient and a remainder give the turns of a slot.                    *)
LEMMA TurnsAre ==
    ASSUME NEW x \in Int, NEW r \in Slots, NEW q \in Int, NEW s \in Slots,
           x + Size - 1 - r = Size * q + s
    PROVE  Turns(x, r) = q
<1> DEFINE y == x + Size - 1 - r
<1>1. y \in Int /\ y = Size * q + s
  BY QueueAssumption DEF Slots
<1> HIDE DEF y
<1>2. y \div Size = q
  BY <1>1, QueueAssumption, DivUnique DEF Slots
<1> QED
  BY <1>2 DEF Turns, y

(* The slot an index names gets one more turn, the others none.            *)
LEMMA TurnsNext ==
    ASSUME NEW x \in Int, NEW r \in Slots
    PROVE  Turns(x + 1, r) = Turns(x, r) + (IF x % Size = r THEN 1 ELSE 0)
<1> DEFINE q == x \div Size
           s == x % Size
<1>1. q \in Int /\ q + 1 \in Int /\ x + 1 \in Int /\ s \in Slots /\ x = Size * q + s
  BY QueueAssumption, DivMod DEF Slots
<1>6. s = x % Size
  OBVIOUS
<1> HIDE DEF q, s
<1>2. Size * (q + 1) = Size * q + Size /\ Size * q \in Int
  BY <1>1, QueueAssumption
<1>3. CASE s < r
  <2>1. s + Size - 1 - r \in Slots /\ s + Size - r \in Slots
    BY <1>1, <1>3, QueueAssumption DEF Slots
  <2>2. x + Size - 1 - r = Size * q + (s + Size - 1 - r)
    BY <1>1, <1>2, QueueAssumption DEF Slots
  <2>3. (x + 1) + Size - 1 - r = Size * q + (s + Size - r)
    BY <1>1, <1>2, QueueAssumption DEF Slots
  <2>4. Turns(x, r) = q
    BY <1>1, <2>1, <2>2, TurnsAre
  <2>5. Turns(x + 1, r) = q
    BY <1>1, <2>1, <2>3, TurnsAre
  <2> QED
    BY <1>1, <1>3, <1>6, <2>4, <2>5 DEF Slots
<1>4. CASE s = r
  <2>1. Size - 1 \in Slots /\ 0 \in Slots
    BY QueueAssumption DEF Slots
  <2>2. x + Size - 1 - r = Size * q + (Size - 1)
    BY <1>1, <1>2, <1>4, QueueAssumption DEF Slots
  <2>3. (x + 1) + Size - 1 - r = Size * (q + 1) + 0
    BY <1>1, <1>2, <1>4, QueueAssumption DEF Slots
  <2>4. Turns(x, r) = q
    BY <1>1, <2>1, <2>2, TurnsAre
  <2>5. Turns(x + 1, r) = q + 1
    BY <1>1, <2>1, <2>3, TurnsAre
  <2> QED
    BY <1>1, <1>4, <1>6, <2>4, <2>5
<1>5. CASE s > r
  <2>1. s - 1 - r \in Slots /\ s - r \in Slots
    BY <1>1, <1>5, QueueAssumption DEF Slots
  <2>2. x + Size - 1 - r = Size * (q + 1) + (s - 1 - r)
    BY <1>1, <1>2, QueueAssumption DEF Slots
  <2>3. (x + 1) + Size - 1 - r = Size * (q + 1) + (s - r)
    BY <1>1, <1>2, QueueAssumption DEF Slots
  <2>4. Turns(x, r) = q + 1
    BY <1>1, <2>1, <2>2, TurnsAre
  <2>5. Turns(x + 1, r) = q + 1
    BY <1>1, <2>1, <2>3, TurnsAre
  <2> QED
    BY <1>1, <1>5, <1>6, <2>4, <2>5 DEF Slots
<1> QED
  BY <1>1, <1>3, <1>4, <1>5 DEF Slots

(* The index range is a whole number of laps.                              *)
LEMMA Laps == 
    /\ Wrap \div Size \in Int
    /\ Wrap = Size * (Wrap \div Size)
BY QueueAssumption, RingAssumption, DivMod

(* Indexes a whole range apart name the same slot.                         *)
LEMMA ModLap ==
    ASSUME NEW x \in Int
    PROVE  (x + Wrap) % Size = x % Size /\ (x - Wrap) % Size = x % Size
<1> DEFINE q == x \div Size
           s == x % Size
           m == Wrap \div Size
<1>1. q \in Int /\ s \in 0 .. Size - 1 /\ x = Size * q + s
  BY QueueAssumption, DivMod
<1>2. m \in Int /\ Wrap = Size * m
  BY Laps
<1> HIDE DEF q, s, m
<1>3. x + Wrap = Size * (q + m) + s /\ x - Wrap = Size * (q - m) + s
  BY <1>1, <1>2, QueueAssumption
<1>4. (x + Wrap) % Size = s
  BY <1>1, <1>2, <1>3, QueueAssumption, DivUnique
<1>5. (x - Wrap) % Size = s
  BY <1>1, <1>2, <1>3, QueueAssumption, DivUnique
<1> QED
  BY <1>4, <1>5 DEF s

(* In a whole range of indexes every slot has the same number of turns.    *)
LEMMA TurnsLap ==
    ASSUME NEW x \in Int, NEW r \in Slots
    PROVE  Turns(x - Wrap, r) = Turns(x, r) - (Wrap \div Size)
<1> DEFINE y == x + Size - 1 - r
           q == y \div Size
           s == y % Size
           m == Wrap \div Size
<1>0. y \in Int
  BY QueueAssumption DEF Slots
<1>1. q \in Int /\ s \in 0 .. Size - 1 /\ y = Size * q + s
  BY <1>0, QueueAssumption, DivMod
<1>2. m \in Int /\ Wrap = Size * m
  BY Laps
<1>3. Turns(x, r) = q
  BY DEF Turns
<1>4. x - Wrap + Size - 1 - r = y - Wrap
  BY QueueAssumption DEF Slots
<1> HIDE DEF y, q, s, m
<1>5. y - Wrap = Size * (q - m) + s /\ y - Wrap \in Int
  BY <1>0, <1>1, <1>2, QueueAssumption
<1>6. (y - Wrap) \div Size = q - m
  BY <1>1, <1>2, <1>5, QueueAssumption, DivUnique
<1> QED
  BY <1>3, <1>4, <1>6 DEF Turns, m

(* The signed range is half the unsigned one.                              *)
LEMMA Half == Wrap \div 2 \in Nat /\ 2 * (Wrap \div 2) <= Wrap
BY QueueAssumption

(* An index overflows to 0 at the end of its range only.                   *)
LEMMA IncrementValue ==
    ASSUME NEW i \in Indexes
    PROVE  Increment(i) = IF i = Wrap - 1 THEN 0 ELSE i + 1
<1>1. CASE i = Wrap - 1
  <2>1. i + 1 = Wrap * 1 + 0 
    BY <1>1, QueueAssumption
  <2> QED
    BY <1>1, <2>1, QueueAssumption, DivUnique DEF Increment
<1>2. CASE i # Wrap - 1
  <2>1. i + 1 = Wrap * 0 + (i + 1) /\ i + 1 \in 0 .. Wrap - 1
    BY <1>2, QueueAssumption DEF Indexes
  <2> QED
    BY <1>2, <2>1, QueueAssumption, DivUnique DEF Increment
<1> QED
  BY <1>1, <1>2

(* The unsigned difference of two indexes.                                 *)
LEMMA DiffValue ==
    ASSUME NEW a \in Indexes, NEW b \in Indexes
    PROVE  (a - b) % Wrap = IF a >= b THEN a - b ELSE a - b + Wrap
<1>1. CASE a >= b
  <2>1. a - b = Wrap * 0 + (a - b) /\ a - b \in 0 .. Wrap - 1
    BY <1>1, QueueAssumption DEF Indexes
  <2> QED
    BY <1>1, <2>1, QueueAssumption, DivUnique
<1>2. CASE a < b
  <2>1. a - b = Wrap * (-1) + (a - b + Wrap) /\ a - b + Wrap \in 0 .. Wrap - 1
    BY <1>2, QueueAssumption DEF Indexes
  <2> QED
    BY <1>2, <2>1, QueueAssumption, DivUnique DEF Indexes
<1> QED
  BY <1>1, <1>2 DEF Indexes

(* The signed difference lies in the signed range and differs from the     *)
(* difference by a whole range at most.                                    *)
LEMMA SignedDiffValue ==
    ASSUME NEW a \in Indexes, NEW b \in Indexes
    PROVE  /\ SignedDiff(a, b) \in Int
           /\ SignedDiff(a, b) < Wrap \div 2
           /\ SignedDiff(a, b) >= (Wrap \div 2) - Wrap
           /\ a - b \in {SignedDiff(a, b) - Wrap, SignedDiff(a, b), SignedDiff(a, b) + Wrap}
<1> DEFINE d == (a - b) % Wrap
<1>1. d = IF a >= b THEN a - b ELSE a - b + Wrap
  BY DiffValue
<1>2. SignedDiff(a, b) = IF d < Wrap \div 2 THEN d ELSE d - Wrap
  BY DEF SignedDiff
<1> HIDE DEF d
<1> QED
  BY <1>1, <1>2, Half, QueueAssumption DEF Indexes

(* Only one number in the signed range does.                               *)
LEMMA SignedDiffUnique ==
    ASSUME NEW a \in Indexes, NEW b \in Indexes, NEW n \in Int,
           n < Wrap \div 2, n >= (Wrap \div 2) - Wrap,
           a - b \in {n - Wrap, n, n + Wrap}
    PROVE  SignedDiff(a, b) = n
<1> DEFINE m == SignedDiff(a, b)
<1>1. /\ m \in Int /\ m < Wrap \div 2 /\ m >= (Wrap \div 2) - Wrap
      /\ a - b \in {m - Wrap, m, m + Wrap}
  BY SignedDiffValue
<1> HIDE DEF m
<1>2. a \in Int /\ b \in Int
  BY QueueAssumption DEF Indexes
<1> QED
  BY <1>1, <1>2, Half, QueueAssumption DEF m

(* Incrementing an index changes the signed difference by one, unless that *)
(* leaves the signed range.                                                *)
LEMMA SignedDiffNext ==
    ASSUME NEW a \in Indexes, NEW b \in Indexes
    PROVE  /\ SignedDiff(a, b) + 1 < Wrap \div 2 =>
                SignedDiff(Increment(a), b) = SignedDiff(a, b) + 1
           /\ SignedDiff(a, b) > (Wrap \div 2) - Wrap =>
                SignedDiff(a, Increment(b)) = SignedDiff(a, b) - 1
<1> DEFINE n == SignedDiff(a, b)
<1>1. /\ n \in Int /\ n < Wrap \div 2 /\ n >= (Wrap \div 2) - Wrap
      /\ a - b \in {n - Wrap, n, n + Wrap}
  BY SignedDiffValue
<1> HIDE DEF n
<1>2. Increment(a) \in Indexes /\ Increment(a) - a \in {1, 1 - Wrap}
  BY IncrementValue, QueueAssumption DEF Indexes
<1>3. Increment(b) \in Indexes /\ Increment(b) - b \in {1, 1 - Wrap}
  BY IncrementValue, QueueAssumption DEF Indexes
<1>4. ASSUME n + 1 < Wrap \div 2 PROVE SignedDiff(Increment(a), b) = n + 1
  <2>1. Increment(a) - b \in {(n + 1) - Wrap, n + 1, (n + 1) + Wrap}
    BY <1>1, <1>2, <1>4, Half, QueueAssumption DEF Indexes
  <2>2. n + 1 \in Int /\ n + 1 >= (Wrap \div 2) - Wrap
    BY <1>1, Half, QueueAssumption
  <2> QED
    BY <1>2, <1>4, <2>1, <2>2, SignedDiffUnique
<1>5. ASSUME n > (Wrap \div 2) - Wrap PROVE SignedDiff(a, Increment(b)) = n - 1
  <2>1. a - Increment(b) \in {(n - 1) - Wrap, n - 1, (n - 1) + Wrap}
    BY <1>1, <1>3, <1>5, Half, QueueAssumption DEF Indexes
  <2>2. n - 1 \in Int /\ n - 1 >= (Wrap \div 2) - Wrap /\ n - 1 < Wrap \div 2
    BY <1>1, <1>5, Half, QueueAssumption
  <2> QED
    BY <1>3, <2>1, <2>2, SignedDiffUnique
<1> QED
  BY <1>4, <1>5 DEF n

-----------------------------------------------------------------------------
(* The balance of the indexes.  Of the sixteen actions four matter: they   *)
(* claim a ticket at one of the indexes, or use it up at its slot.         *)

(* The pushes at work are the producers', the pops the consumers'.         *)
Roles ==
    \A t \in Threads :
        /\ pc[t] \in {"push", "tryPush", "tryPushCas"} => t \in Producers
        /\ pc[t] \in {"pop", "tryPop", "tryPopCas"} => t \in Consumers

RoleStep(t) ==
    \/ t \in Producers /\ ProducerStep(t)
    \/ t \in Consumers /\ ConsumerStep(t)
    \/ ObserverStep(t)

\* Nobody but t moves.
Alone(t) ==
    \A u \in Threads \ {t} : pc'[u] = pc[u] /\ ticket'[u] = ticket[u]

ClaimPush(t) ==
    /\ pc[t] \notin {"push", "pop"} /\ pc'[t] = "push" /\ ticket'[t] = head
    /\ t \in Producers
    /\ head' = Increment(head)
    /\ UNCHANGED <<tail, slot>>

ClaimPop(t) ==
    /\ pc[t] \notin {"push", "pop"} /\ pc'[t] = "pop" /\ ticket'[t] = tail
    /\ t \in Consumers
    /\ tail' = Increment(tail)
    /\ UNCHANGED <<head, slot>>

UsePush(t) ==
    /\ pc[t] = "push" /\ pc'[t] = "idle"
    /\ slot[SlotOf(ticket[t])] = NIL
    /\ \E e \in Elements : slot' = [slot EXCEPT ![SlotOf(ticket[t])] = e]
    /\ UNCHANGED <<head, tail>>

UsePop(t) ==
    /\ pc[t] = "pop" /\ pc'[t] = "idle"
    /\ slot[SlotOf(ticket[t])] # NIL
    /\ slot' = [slot EXCEPT ![SlotOf(ticket[t])] = NIL]
    /\ UNCHANGED <<head, tail>>

KeepTickets(t) ==
    /\ pc[t] \notin {"push", "pop"} /\ pc'[t] \notin {"push", "pop"}
    /\ UNCHANGED <<head, tail, slot>>

TicketStep(t) ==
    ClaimPush(t) \/ ClaimPop(t) \/ UsePush(t) \/ UsePop(t) \/ KeepTickets(t)

(* What an action of a thread does to the tickets.                         *)
LEMMA StepIsTicketStep ==
    ASSUME TypeOK, HeldWhilePushing, Roles, NEW t \in Threads, RoleStep(t)
    PROVE  Alone(t) /\ TicketStep(t)
<1> USE DEF TypeOK, Goto, Return, Alone, TicketStep
  <1>1. ASSUME NEW e \in Elements, PushReserve(t, e), t \in Producers
        PROVE  Alone(t) /\ ClaimPush(t)
    BY <1>1 DEF PushReserve, ClaimPush
  <1>2. ASSUME NEW e \in Elements, TryPushLoad(t, e) PROVE Alone(t) /\ KeepTickets(t)
    BY <1>2 DEF TryPushLoad, KeepTickets
  <1>3. ASSUME TryPushReserve(t) PROVE Alone(t) /\ ClaimPush(t)
    BY <1>3 DEF TryPushReserve, ClaimPush, Roles
  <1>4. ASSUME PushStore(t) PROVE Alone(t) /\ UsePush(t)
    <2>1. held[t] \in Elements
      BY <1>4 DEF PushStore, HeldWhilePushing
    <2> QED
      BY <1>4, <2>1 DEF PushStore, UsePush
  <1>5. ASSUME PopReserve(t), t \in Consumers PROVE Alone(t) /\ ClaimPop(t)
    BY <1>5 DEF PopReserve, ClaimPop
  <1>6. ASSUME TryPopReserve(t) PROVE Alone(t) /\ ClaimPop(t)
    BY <1>6 DEF TryPopReserve, ClaimPop, Roles
  <1>7. ASSUME PopTake(t) PROVE Alone(t) /\ UsePop(t)
    BY <1>7 DEF PopTake, UsePop
  <1>8. ASSUME TryPushFull(t) \/ TryPushRoom(t) \/ TryPushRetry(t)
        PROVE  Alone(t) /\ KeepTickets(t)
    BY <1>8 DEF TryPushFull, TryPushRoom, TryPushRetry, KeepTickets
  <1>9. ASSUME TryPopLoad(t) \/ TryPopEmpty(t) \/ TryPopSome(t) \/ TryPopRetry(t)
        PROVE  Alone(t) /\ KeepTickets(t)
    BY <1>9 DEF TryPopLoad, TryPopEmpty, TryPopSome, TryPopRetry, KeepTickets
  <1>10. ASSUME ObserverStep(t) PROVE Alone(t) /\ KeepTickets(t)
    BY <1>10 DEF ObserverStep, SizeLoadHead, SizeLoadTail, SizeReturn, KeepTickets
  <1> QED
    BY <1>1, <1>2, <1>3, <1>4, <1>5, <1>6, <1>7, <1>8, <1>9, <1>10
    DEF RoleStep, ProducerStep, ConsumerStep

(* Every step of a thread keeps pushes and pops with those who may call    *)
(* them.                                                                   *)
LEMMA RolesStep ==
    ASSUME TypeOK, Roles, NEW t \in Threads, RoleStep(t)
    PROVE  Roles'
<1> USE DEF TypeOK, Goto, Return, Roles
  <1>1. ASSUME t \in Producers, ProducerStep(t) PROVE Roles'
    BY <1>1 DEF ProducerStep, PushReserve, TryPushLoad, TryPushFull, TryPushRoom,
                TryPushReserve, TryPushRetry, PushStore
  <1>2. ASSUME t \in Consumers, ConsumerStep(t) PROVE Roles'
    BY <1>2 DEF ConsumerStep, PopReserve, TryPopLoad, TryPopEmpty, TryPopSome,
                TryPopReserve, TryPopRetry, PopTake
  <1>3. ASSUME ObserverStep(t) PROVE Roles'
    BY <1>3 DEF ObserverStep, SizeLoadHead, SizeLoadTail, SizeReturn
  <1> QED
    BY <1>1, <1>2, <1>3 DEF RoleStep

-----------------------------------------------------------------------------
(* The counts of stored elements and of pushes and pops at work exist, and *)
(* are bounded by the slots, the producers and the consumers.              *)
LEMMA Counts ==
    ASSUME Roles
    PROVE  /\ IsFiniteSet(Stored) /\ Cardinality(Stored) \in 0 .. Size
           /\ IsFiniteSet(Pushing) /\ Cardinality(Pushing) \in 0 .. Cardinality(Producers)
           /\ IsFiniteSet(Popping) /\ Cardinality(Popping) \in 0 .. Cardinality(Consumers)
<1>1. IsFiniteSet(Slots) /\ Cardinality(Slots) = Size
  BY QueueAssumption, FS_Interval DEF Slots
<1>2. Stored \subseteq Slots /\ Pushing \subseteq Producers /\ Popping \subseteq Consumers
  BY DEF Stored, Pushing, Popping, Roles
<1>3. IsFiniteSet(Producers) /\ IsFiniteSet(Consumers)
  BY WidthAssumption
<1>4. IsFiniteSet(Stored) /\ Cardinality(Stored) <= Size
  BY <1>1, <1>2, FS_Subset
<1>5. IsFiniteSet(Pushing) /\ Cardinality(Pushing) <= Cardinality(Producers)
  BY <1>2, <1>3, FS_Subset
<1>6. IsFiniteSet(Popping) /\ Cardinality(Popping) <= Cardinality(Consumers)
  BY <1>2, <1>3, FS_Subset
<1>7. /\ Cardinality(Stored) \in Nat /\ Cardinality(Pushing) \in Nat
      /\ Cardinality(Popping) \in Nat /\ Cardinality(Producers) \in Nat
      /\ Cardinality(Consumers) \in Nat
  BY <1>3, <1>4, <1>5, <1>6, FS_CardinalityType
<1> QED
  BY <1>4, <1>5, <1>6, <1>7, QueueAssumption

(* A step of the tickets changes the two counts and the index by one, and  *)
(* in the same direction.                                                  *)
LEMMA CountStep ==
    ASSUME TypeOK, TypeOK', Roles, NEW t \in Threads, Alone(t), TicketStep(t)
    PROVE  /\ ClaimPush(t) =>
                /\ Cardinality(Pushing') = Cardinality(Pushing) + 1
                /\ Popping' = Popping /\ Stored' = Stored
           /\ ClaimPop(t) =>
                /\ Cardinality(Popping') = Cardinality(Popping) + 1
                /\ Pushing' = Pushing /\ Stored' = Stored
           /\ UsePush(t) =>
                /\ Cardinality(Pushing') = Cardinality(Pushing) - 1
                /\ Cardinality(Stored') = Cardinality(Stored) + 1
                /\ Popping' = Popping
           /\ UsePop(t) =>
                /\ Cardinality(Popping') = Cardinality(Popping) - 1
                /\ Cardinality(Stored') = Cardinality(Stored) - 1
                /\ Pushing' = Pushing
           /\ KeepTickets(t) =>
                Pushing' = Pushing /\ Popping' = Popping /\ Stored' = Stored
<1>1. IsFiniteSet(Stored) /\ IsFiniteSet(Pushing) /\ IsFiniteSet(Popping)
  BY Counts
<1> DEFINE i == SlotOf(ticket[t])
<1>2. i \in Slots
  BY SlotOfType DEF TypeOK
<1>3. ASSUME ClaimPush(t)
      PROVE  /\ Cardinality(Pushing') = Cardinality(Pushing) + 1
             /\ Popping' = Popping /\ Stored' = Stored
  <2>1. t \notin Pushing /\ Pushing' = Pushing \cup {t} /\ Popping' = Popping
    BY <1>3 DEF ClaimPush, Alone, Pushing, Popping
  <2>2. Stored' = Stored
    BY <1>3 DEF ClaimPush, Stored
  <2> QED
    BY <1>1, <2>1, <2>2, FS_AddElement
<1>4. ASSUME ClaimPop(t)
      PROVE  /\ Cardinality(Popping') = Cardinality(Popping) + 1
             /\ Pushing' = Pushing /\ Stored' = Stored
  <2>1. t \notin Popping /\ Popping' = Popping \cup {t} /\ Pushing' = Pushing
    BY <1>4 DEF ClaimPop, Alone, Pushing, Popping
  <2>2. Stored' = Stored
    BY <1>4 DEF ClaimPop, Stored
  <2> QED
    BY <1>1, <2>1, <2>2, FS_AddElement
<1>5. ASSUME UsePush(t)
      PROVE  /\ Cardinality(Pushing') = Cardinality(Pushing) - 1
             /\ Cardinality(Stored') = Cardinality(Stored) + 1
             /\ Popping' = Popping
  <2>1. t \in Pushing /\ Pushing' = Pushing \ {t} /\ Popping' = Popping
    BY <1>5 DEF UsePush, Alone, Pushing, Popping
  <2>2. i \notin Stored /\ Stored' = Stored \cup {i}
    BY <1>2, <1>5, QueueAssumption DEF UsePush, Stored, TypeOK
  <2> QED
    BY <1>1, <2>1, <2>2, FS_AddElement, FS_RemoveElement
<1>6. ASSUME UsePop(t)
      PROVE  /\ Cardinality(Popping') = Cardinality(Popping) - 1
             /\ Cardinality(Stored') = Cardinality(Stored) - 1
             /\ Pushing' = Pushing
  <2>1. t \in Popping /\ Popping' = Popping \ {t} /\ Pushing' = Pushing
    BY <1>6 DEF UsePop, Alone, Pushing, Popping
  <2>2. i \in Stored /\ Stored' = Stored \ {i}
    BY <1>2, <1>6 DEF UsePop, Stored, TypeOK
  <2> QED
    BY <1>1, <2>1, <2>2, FS_RemoveElement
<1>7. ASSUME KeepTickets(t)
      PROVE  Pushing' = Pushing /\ Popping' = Popping /\ Stored' = Stored
  BY <1>7 DEF KeepTickets, Alone, Pushing, Popping, Stored
<1> QED
  BY <1>3, <1>4, <1>5, <1>6, <1>7

(* Every step keeps the signed distance of the indexes and the counts      *)
(* equal.  WidthAssumption keeps the counts inside the signed range, so    *)
(* that no step crosses its border.                                        *)
LEMMA BalanceStep ==
    ASSUME TypeOK, TypeOK', Roles, Roles', IndexBalance,
           NEW t \in Threads, Alone(t), TicketStep(t)
    PROVE  IndexBalance'
<1> DEFINE n == SignedDiff(head, tail)
           st == Cardinality(Stored)
           pu == Cardinality(Pushing)
           po == Cardinality(Popping)
           h == Wrap \div 2
<1>1. st \in 0 .. Size /\ pu \in 0 .. Cardinality(Producers) /\ po \in 0 .. Cardinality(Consumers)
  BY Counts
<1>2. pu' <= Cardinality(Producers) /\ po' <= Cardinality(Consumers)
  <2>1. Pushing' \subseteq Producers /\ Popping' \subseteq Consumers
    BY DEF Pushing, Popping, Roles
  <2> QED
    BY <2>1, WidthAssumption, FS_Subset
<1>3. n = st + pu - po
  BY DEF IndexBalance
<1>4. /\ Size \in Nat /\ Wrap \in Nat /\ h \in Nat /\ 2 * h <= Wrap
      /\ Cardinality(Producers) \in Nat /\ Cardinality(Consumers) \in Nat
      /\ Size + Cardinality(Producers) < h /\ Cardinality(Consumers) <= h
  BY QueueAssumption, WidthAssumption, FS_CardinalityType, Half
<1>5. head \in Indexes /\ tail \in Indexes
  BY DEF TypeOK
<1>6. n' = st' + pu' - po'
  <2>1. CASE ClaimPush(t)
    <3>1. st' = st /\ pu' = pu + 1 /\ po' = po
      BY <2>1, CountStep
    <3>2. n + 1 < h
      <4> HIDE DEF n, st, pu, po, h
      <4> QED
        BY <1>1, <1>2, <1>3, <1>4, <3>1
    <3>3. n' = n + 1
      BY <1>5, <2>1, <3>2, SignedDiffNext DEF ClaimPush
    <3> HIDE DEF n, st, pu, po, h
    <3> QED
      BY <1>1, <1>3, <3>1, <3>3
  <2>2. CASE ClaimPop(t)
    <3>1. st' = st /\ pu' = pu /\ po' = po + 1
      BY <2>2, CountStep
    <3>2. n > h - Wrap
      <4> HIDE DEF n, st, pu, po, h
      <4> QED
        BY <1>1, <1>2, <1>3, <1>4, <3>1
    <3>3. n' = n - 1
      BY <1>5, <2>2, <3>2, SignedDiffNext DEF ClaimPop
    <3> HIDE DEF n, st, pu, po, h
    <3> QED
      BY <1>1, <1>3, <3>1, <3>3
  <2>3. CASE UsePush(t)
    <3>1. st' = st + 1 /\ pu' = pu - 1 /\ po' = po
      BY <2>3, CountStep
    <3>2. n' = n
      BY <2>3 DEF UsePush
    <3> HIDE DEF n, st, pu, po, h
    <3> QED
      BY <1>1, <1>3, <3>1, <3>2
  <2>4. CASE UsePop(t)
    <3>1. st' = st - 1 /\ pu' = pu /\ po' = po - 1
      BY <2>4, CountStep
    <3>2. n' = n
      BY <2>4 DEF UsePop
    <3> HIDE DEF n, st, pu, po, h
    <3> QED
      BY <1>1, <1>3, <3>1, <3>2
  <2>5. CASE KeepTickets(t)
    <3>1. st' = st /\ pu' = pu /\ po' = po
      BY <2>5, CountStep
    <3>2. n' = n
      BY <2>5 DEF KeepTickets
    <3> HIDE DEF n, st, pu, po, h
    <3> QED
      BY <1>1, <1>3, <3>1, <3>2
  <2> QED
    BY <2>1, <2>2, <2>3, <2>4, <2>5 DEF TicketStep
<1> QED
  BY <1>6 DEF IndexBalance

-----------------------------------------------------------------------------
(* The balance of a single slot: the pushes that were given its turns and  *)
(* the pops that were given them meet there.                               *)

PushAt(r) == {t \in Pushing : ticket[t] % Size = r}
PopAt(r) == {t \in Popping : ticket[t] % Size = r}
StoredAt(r) == IF slot[Remap[r]] = NIL THEN 0 ELSE 1

(* For every slot, the element in it, the pushes and the pops at work on   *)
(* it balance the turns that the indexes have given it between them.       *)
SlotBalance ==
    \A r \in Slots :
        StoredAt(r) + Cardinality(PushAt(r)) - Cardinality(PopAt(r)) =
            Turns(tail + SignedDiff(head, tail), r) - Turns(tail, r)

(* Moving the origin of an index by one step, over the border of its range *)
(* or not, gives a turn to the slot it named.                              *)
LEMMA TurnsStep ==
    ASSUME NEW i \in Indexes, NEW n \in Int, NEW r \in Slots
    PROVE  Turns(Increment(i) + (n - 1), r) - Turns(Increment(i), r) =
             Turns(i + n, r) - Turns(i, r) - (IF i % Size = r THEN 1 ELSE 0)
<1> DEFINE one == IF i % Size = r THEN 1 ELSE 0
<1>1. i \in Int /\ one \in {0, 1} /\ Wrap \in Int
  BY QueueAssumption DEF Indexes
<1>2. \A x \in Int : Turns(x, r) \in Int
  BY TurnsType
<1>3. Turns(i + 1, r) = Turns(i, r) + one
  BY <1>1, TurnsNext
<1> HIDE DEF one
<1>4. CASE i # Wrap - 1
  <2>1. Increment(i) = i + 1 /\ Increment(i) + (n - 1) = i + n
    BY <1>1, <1>4, IncrementValue
  <2> QED
    BY <1>1, <1>2, <1>3, <2>1 DEF one
<1>5. CASE i = Wrap - 1
  <2>1. Increment(i) = 0 /\ 0 = (i + 1) - Wrap /\ 0 + (n - 1) = (i + n) - Wrap
    BY <1>1, <1>5, IncrementValue
  <2>2. Turns((i + 1) - Wrap, r) = Turns(i + 1, r) - (Wrap \div Size)
    BY <1>1, TurnsLap
  <2>3. Turns((i + n) - Wrap, r) = Turns(i + n, r) - (Wrap \div Size)
    BY <1>1, TurnsLap
  <2>4. Wrap \div Size \in Int
    BY Laps
  <2>5. Turns(i + n, r) \in Int /\ Turns(i, r) \in Int
    BY <1>1, <1>2
  <2> QED
    BY <1>1, <1>3, <2>1, <2>2, <2>3, <2>4, <2>5 DEF one
<1> QED
  BY <1>4, <1>5

(* An index that is a signed distance away names the same slot, whether or *)
(* not it has overflowed in between.                                       *)
LEMMA DistanceNames ==
    ASSUME NEW a \in Indexes, NEW b \in Indexes
    PROVE  (b + SignedDiff(a, b)) % Size = a % Size
<1> DEFINE n == SignedDiff(a, b)
<1>1. n \in Int /\ a - b \in {n - Wrap, n, n + Wrap}
  BY SignedDiffValue
<1> HIDE DEF n
<1>2. a \in Int /\ b \in Int /\ Wrap \in Int
  BY QueueAssumption DEF Indexes
<1>3. b + n = a \/ b + n = a + Wrap \/ b + n = a - Wrap
  BY <1>1, <1>2
<1> QED
  BY <1>2, <1>3, ModLap DEF n

(* The counts at a slot exist.                                             *)
LEMMA CountsAt ==
    ASSUME Roles, NEW r
    PROVE  /\ IsFiniteSet(PushAt(r)) /\ Cardinality(PushAt(r)) \in Nat
           /\ IsFiniteSet(PopAt(r)) /\ Cardinality(PopAt(r)) \in Nat
           /\ StoredAt(r) \in {0, 1}
<1>1. PushAt(r) \subseteq Pushing /\ PopAt(r) \subseteq Popping
  BY DEF PushAt, PopAt
<1>2. IsFiniteSet(PushAt(r)) /\ IsFiniteSet(PopAt(r))
  BY <1>1, Counts, FS_Subset
<1>3. StoredAt(r) \in {0, 1}
  BY DEF StoredAt
<1> QED
  BY <1>2, <1>3, FS_CardinalityType

(* What a step of the tickets does at one slot: a claim adds a push or a   *)
(* pop at the slot the index names, and a use turns it into an element or  *)
(* an element into nothing there.                                          *)
LEMMA CountStepAt ==
    ASSUME TypeOK, TypeOK', Roles, NEW t \in Threads, Alone(t), TicketStep(t),
           NEW r \in Slots
    PROVE  /\ ClaimPush(t) =>
                /\ Cardinality(PushAt(r)') =
                     Cardinality(PushAt(r)) + (IF head % Size = r THEN 1 ELSE 0)
                /\ PopAt(r)' = PopAt(r) /\ StoredAt(r)' = StoredAt(r)
           /\ ClaimPop(t) =>
                /\ Cardinality(PopAt(r)') =
                     Cardinality(PopAt(r)) + (IF tail % Size = r THEN 1 ELSE 0)
                /\ PushAt(r)' = PushAt(r) /\ StoredAt(r)' = StoredAt(r)
           /\ UsePush(t) \/ UsePop(t) \/ KeepTickets(t) =>
                StoredAt(r)' + Cardinality(PushAt(r)') - Cardinality(PopAt(r)') =
                  StoredAt(r) + Cardinality(PushAt(r)) - Cardinality(PopAt(r))
<1>1. /\ IsFiniteSet(PushAt(r)) /\ Cardinality(PushAt(r)) \in Nat
      /\ IsFiniteSet(PopAt(r)) /\ Cardinality(PopAt(r)) \in Nat
      /\ StoredAt(r) \in {0, 1}
  BY CountsAt
<1> DEFINE p == ticket[t] % Size
<1>2. p \in Slots /\ SlotOf(ticket[t]) = Remap[p]
  BY SlotOfType DEF TypeOK, SlotOf
<1>3. Remap[p] \in Slots /\ Remap[r] \in Slots /\ (Remap[r] = Remap[p] <=> r = p)
  BY <1>2, QueueAssumption, RingAssumption
<1>4. ASSUME ClaimPush(t)
      PROVE  /\ Cardinality(PushAt(r)') =
                  Cardinality(PushAt(r)) + (IF head % Size = r THEN 1 ELSE 0)
             /\ PopAt(r)' = PopAt(r) /\ StoredAt(r)' = StoredAt(r)
  <2>1. PopAt(r)' = PopAt(r)
    BY <1>4 DEF ClaimPush, Alone, PopAt, Popping
  <2>2. StoredAt(r)' = StoredAt(r)
    BY <1>4 DEF ClaimPush, StoredAt
  <2>3. t \notin PushAt(r)
    BY <1>4 DEF ClaimPush, PushAt, Pushing
  <2>4. CASE head % Size = r
    <3>1. PushAt(r)' = PushAt(r) \cup {t}
      BY <1>4, <2>4 DEF ClaimPush, Alone, PushAt, Pushing
    <3> QED
      BY <1>1, <2>1, <2>2, <2>3, <2>4, <3>1, FS_AddElement
  <2>5. CASE head % Size # r
    <3>1. PushAt(r)' = PushAt(r)
      BY <1>4, <2>5 DEF ClaimPush, Alone, PushAt, Pushing
    <3> QED
      BY <1>1, <2>1, <2>2, <2>5, <3>1
  <2> QED
    BY <2>4, <2>5
<1>5. ASSUME ClaimPop(t)
      PROVE  /\ Cardinality(PopAt(r)') =
                  Cardinality(PopAt(r)) + (IF tail % Size = r THEN 1 ELSE 0)
             /\ PushAt(r)' = PushAt(r) /\ StoredAt(r)' = StoredAt(r)
  <2>1. PushAt(r)' = PushAt(r)
    BY <1>5 DEF ClaimPop, Alone, PushAt, Pushing
  <2>2. StoredAt(r)' = StoredAt(r)
    BY <1>5 DEF ClaimPop, StoredAt
  <2>3. t \notin PopAt(r)
    BY <1>5 DEF ClaimPop, PopAt, Popping
  <2>4. CASE tail % Size = r
    <3>1. PopAt(r)' = PopAt(r) \cup {t}
      BY <1>5, <2>4 DEF ClaimPop, Alone, PopAt, Popping
    <3> QED
      BY <1>1, <2>1, <2>2, <2>3, <2>4, <3>1, FS_AddElement
  <2>5. CASE tail % Size # r
    <3>1. PopAt(r)' = PopAt(r)
      BY <1>5, <2>5 DEF ClaimPop, Alone, PopAt, Popping
    <3> QED
      BY <1>1, <2>1, <2>2, <2>5, <3>1
  <2> QED
    BY <2>4, <2>5
<1>6. ASSUME UsePush(t)
      PROVE  StoredAt(r)' + Cardinality(PushAt(r)') - Cardinality(PopAt(r)') =
               StoredAt(r) + Cardinality(PushAt(r)) - Cardinality(PopAt(r))
  <2>1. PopAt(r)' = PopAt(r)
    BY <1>6 DEF UsePush, Alone, PopAt, Popping
  <2>2. CASE r = p
    <3>1. t \in PushAt(r) /\ PushAt(r)' = PushAt(r) \ {t}
      BY <1>6, <2>2 DEF UsePush, Alone, PushAt, Pushing
    <3>2. StoredAt(r) = 0 /\ StoredAt(r)' = 1
      BY <1>2, <1>3, <1>6, <2>2, QueueAssumption DEF UsePush, StoredAt, TypeOK
    <3>3. Cardinality(PushAt(r)') = Cardinality(PushAt(r)) - 1
      BY <1>1, <3>1, FS_RemoveElement
    <3> QED
      BY <1>1, <2>1, <3>2, <3>3
  <2>3. CASE r # p
    <3>1. PushAt(r)' = PushAt(r)
      BY <1>6, <2>3 DEF UsePush, Alone, PushAt, Pushing
    <3>2. StoredAt(r)' = StoredAt(r)
      BY <1>2, <1>3, <1>6, <2>3 DEF UsePush, StoredAt, TypeOK
    <3> QED
      BY <2>1, <3>1, <3>2
  <2> QED
    BY <2>2, <2>3
<1>7. ASSUME UsePop(t)
      PROVE  StoredAt(r)' + Cardinality(PushAt(r)') - Cardinality(PopAt(r)') =
               StoredAt(r) + Cardinality(PushAt(r)) - Cardinality(PopAt(r))
  <2>1. PushAt(r)' = PushAt(r)
    BY <1>7 DEF UsePop, Alone, PushAt, Pushing
  <2>2. CASE r = p
    <3>1. t \in PopAt(r) /\ PopAt(r)' = PopAt(r) \ {t}
      BY <1>7, <2>2 DEF UsePop, Alone, PopAt, Popping
    <3>2. StoredAt(r) = 1 /\ StoredAt(r)' = 0
      BY <1>2, <1>3, <1>7, <2>2 DEF UsePop, StoredAt, TypeOK
    <3>3. Cardinality(PopAt(r)') = Cardinality(PopAt(r)) - 1
      BY <1>1, <3>1, FS_RemoveElement
    <3> QED
      BY <1>1, <2>1, <3>2, <3>3
  <2>3. CASE r # p
    <3>1. PopAt(r)' = PopAt(r)
      BY <1>7, <2>3 DEF UsePop, Alone, PopAt, Popping
    <3>2. StoredAt(r)' = StoredAt(r)
      BY <1>2, <1>3, <1>7, <2>3 DEF UsePop, StoredAt, TypeOK
    <3> QED
      BY <2>1, <3>1, <3>2
  <2> QED
    BY <2>2, <2>3
<1>8. ASSUME KeepTickets(t)
      PROVE  PushAt(r)' = PushAt(r) /\ PopAt(r)' = PopAt(r) /\ StoredAt(r)' = StoredAt(r)
  BY <1>8 DEF KeepTickets, Alone, PushAt, PopAt, Pushing, Popping, StoredAt
<1> QED
  BY <1>4, <1>5, <1>6, <1>7, <1>8

(* Every step keeps the balance of every slot: a ticket names the slot to  *)
(* which its index gives the next turn, across the overflow because the    *)
(* index range is a whole number of laps.                                  *)
LEMMA SlotBalanceStep ==
    ASSUME TypeOK, TypeOK', Roles, IndexBalance, IndexBalance', SlotBalance,
           NEW t \in Threads, Alone(t), TicketStep(t)
    PROVE  SlotBalance'
<1> SUFFICES ASSUME NEW r \in Slots
    PROVE  StoredAt(r)' + Cardinality(PushAt(r)') - Cardinality(PopAt(r)') =
             Turns(tail' + SignedDiff(head', tail'), r) - Turns(tail', r)
  BY DEF SlotBalance
<1> DEFINE n == SignedDiff(head, tail)
           st == StoredAt(r)
           pu == Cardinality(PushAt(r))
           po == Cardinality(PopAt(r))
<1>1. head \in Indexes /\ tail \in Indexes /\ head \in Int /\ tail \in Int
  BY QueueAssumption DEF TypeOK, Indexes
<1>2. n \in Int
  BY <1>1, SignedDiffValue
<1>3. st + pu - po = Turns(tail + n, r) - Turns(tail, r)
  BY DEF SlotBalance
<1>4. st \in Int /\ pu \in Int /\ po \in Int
  BY CountsAt
<1>5. \A x \in Int : Turns(x, r) \in Int
  BY TurnsType
<1>6. CASE ClaimPush(t)
  <2> DEFINE one == IF head % Size = r THEN 1 ELSE 0
  <2>1. n' = n + 1
    <3>1. Cardinality(Pushing') = Cardinality(Pushing) + 1 /\ Popping' = Popping /\ Stored' = Stored
      BY <1>6, CountStep
    <3>2. Cardinality(Stored) \in Int /\ Cardinality(Pushing) \in Int /\ Cardinality(Popping) \in Int
      BY Counts
    <3> QED
      BY <3>1, <3>2 DEF IndexBalance
  <2>2. pu' = pu + one /\ po' = po /\ st' = st
    BY <1>6, CountStepAt
  <2>3. (tail + n) % Size = head % Size
    BY <1>1, DistanceNames
  <2>4. tail' = tail /\ one \in {0, 1}
    BY <1>6 DEF ClaimPush
  <2>5. Turns((tail + n) + 1, r) = Turns(tail + n, r) + one
    BY <1>1, <1>2, <2>3, TurnsNext
  <2>6. tail' + n' = (tail + n) + 1
    <3> HIDE DEF n
    <3> QED
      BY <1>1, <1>2, <2>1, <2>4
  <2>7. Turns(tail + n, r) \in Int /\ Turns(tail, r) \in Int
    BY <1>1, <1>2, <1>5
  <2>8. st' + pu' - po' = (st + pu - po) + one
    <3> HIDE DEF n, st, pu, po, one
    <3> QED
      BY <1>4, <2>2, <2>4
  <2>9. Turns(tail' + n', r) - Turns(tail', r) = (Turns(tail + n, r) - Turns(tail, r)) + one
    <3> HIDE DEF n, st, pu, po, one
    <3> QED
      BY <2>4, <2>5, <2>6, <2>7
  <2> QED
    BY <1>3, <2>8, <2>9
<1>7. CASE ClaimPop(t)
  <2> DEFINE one == IF tail % Size = r THEN 1 ELSE 0
  <2>1. n' = n - 1
    <3>1. Cardinality(Popping') = Cardinality(Popping) + 1 /\ Pushing' = Pushing /\ Stored' = Stored
      BY <1>7, CountStep
    <3>2. Cardinality(Stored) \in Int /\ Cardinality(Pushing) \in Int /\ Cardinality(Popping) \in Int
      BY Counts
    <3> QED
      BY <3>1, <3>2 DEF IndexBalance
  <2>2. po' = po + one /\ pu' = pu /\ st' = st
    BY <1>7, CountStepAt
  <2>3. tail' = Increment(tail) /\ one \in {0, 1}
    BY <1>7 DEF ClaimPop
  <2>4. Turns(Increment(tail) + (n - 1), r) - Turns(Increment(tail), r) =
          (Turns(tail + n, r) - Turns(tail, r)) - one
    BY <1>1, <1>2, TurnsStep
  <2>5. st' + pu' - po' = (st + pu - po) - one
    <3> HIDE DEF n, st, pu, po, one
    <3> QED
      BY <1>4, <2>2, <2>3
  <2>6. Turns(tail' + n', r) - Turns(tail', r) = (Turns(tail + n, r) - Turns(tail, r)) - one
    <3> HIDE DEF n, st, pu, po, one
    <3> QED
      BY <2>1, <2>3, <2>4
  <2> QED
    BY <1>3, <2>5, <2>6
<1>8. CASE UsePush(t) \/ UsePop(t) \/ KeepTickets(t)
  <2>1. st' + pu' - po' = st + pu - po
    BY <1>8, CountStepAt
  <2>2. tail' = tail /\ n' = n
    BY <1>8 DEF UsePush, UsePop, KeepTickets
  <2> QED
    BY <1>3, <2>1, <2>2
<1> QED
  BY <1>6, <1>7, <1>8 DEF TicketStep

(* IndexBalance and SlotBalance hold in every reachable state, for every   *)
(* number of threads that the width of the indexes allows.                 *)
BInv == Roles /\ IndexBalance /\ SlotBalance

(* An empty ring is in balance.                                            *)
LEMMA BalanceInit ==
    ASSUME Init
    PROVE  BInv
<1>1. Roles
  BY DEF Init, Roles
<1>2. Stored = {} /\ Pushing = {} /\ Popping = {}
  BY DEF Init, Stored, Pushing, Popping
<1>3. Cardinality({}) = 0
  BY FS_EmptySet
<1>4. head \in Indexes /\ tail = head /\ tail \in Int
  BY QueueAssumption DEF Init, Indexes
<1>5. SignedDiff(head, tail) = 0
  <2>1. tail - tail = 0 /\ 0 < Wrap \div 2 /\ 0 >= (Wrap \div 2) - Wrap
    <3>1. Cardinality(Producers) \in Nat
      BY WidthAssumption, FS_CardinalityType
    <3> QED
      BY <1>4, <3>1, WidthAssumption, QueueAssumption, Half
  <2> QED
    BY <1>4, <2>1, SignedDiffUnique
<1>6. IndexBalance
  BY <1>2, <1>3, <1>5 DEF IndexBalance
<1>7. SlotBalance
  <2> SUFFICES ASSUME NEW r \in Slots
      PROVE  StoredAt(r) + Cardinality(PushAt(r)) - Cardinality(PopAt(r)) =
               Turns(tail + SignedDiff(head, tail), r) - Turns(tail, r)
    BY DEF SlotBalance
  <2>1. PushAt(r) = {} /\ PopAt(r) = {}
    BY <1>2 DEF PushAt, PopAt
  <2>2. StoredAt(r) = 0
    BY QueueAssumption DEF StoredAt, Init
  <2>3. Turns(tail, r) \in Int /\ tail + 0 = tail
    BY <1>4, TurnsType
  <2> QED
    BY <1>3, <1>5, <2>1, <2>2, <2>3
<1> QED
  BY <1>1, <1>6, <1>7 DEF BInv

(* A step of a thread keeps the balances.                                  *)
LEMMA BInvStep ==
    ASSUME TypeOK, TypeOK', HeldWhilePushing, BInv, NEW t \in Threads, RoleStep(t)
    PROVE  BInv'
<1>1. Alone(t) /\ TicketStep(t)
  BY StepIsTicketStep DEF BInv
<1>2. Roles'
  BY RolesStep DEF BInv
<1>3. IndexBalance'
  BY <1>1, <1>2, BalanceStep DEF BInv
<1>4. SlotBalance'
  BY <1>1, <1>3, SlotBalanceStep DEF BInv
<1> QED
  BY <1>2, <1>3, <1>4 DEF BInv

(* The balances are kept by what leaves the queue alone.                   *)
LEMMA BInvStutter ==
    ASSUME BInv, UNCHANGED vars
    PROVE  BInv'
<1>1. Roles'
  BY DEF vars, BInv, Roles
<1>2. Stored' = Stored /\ Pushing' = Pushing /\ Popping' = Popping
  BY DEF vars, Stored, Pushing, Popping
<1>3. IndexBalance'
  BY <1>2 DEF vars, BInv, IndexBalance
<1>4. \A r \in Slots :
        PushAt(r)' = PushAt(r) /\ PopAt(r)' = PopAt(r) /\ StoredAt(r)' = StoredAt(r)
  BY <1>2 DEF vars, PushAt, PopAt, StoredAt
<1>5. SlotBalance'
  BY <1>4 DEF vars, BInv, SlotBalance
<1> QED
  BY <1>1, <1>3, <1>5 DEF BInv

(* The balances hold in every reachable state.                             *)
THEOREM BalanceInvariant == Spec => []BInv
<1>1. IInv /\ IInv' /\ BInv /\ [Next]_vars => BInv'
  <2> SUFFICES ASSUME IInv, IInv', BInv, [Next]_vars PROVE BInv'
    OBVIOUS
  <2>1. CASE UNCHANGED vars
    BY <2>1, BInvStutter
  <2>2. CASE Next
    <3>1. PICK t \in Threads : RoleStep(t)
      BY <2>2 DEF Next, RoleStep, Threads
    <3> QED
      BY <3>1, BInvStep DEF IInv
  <2> QED
    BY <2>1, <2>2
<1>2. Init => BInv
  BY BalanceInit
<1> QED
  BY <1>1, <1>2, InductiveInvariant, PTL DEF Spec

(* For every number of threads that fits the signed range, the distance of *)
(* the indexes counts the elements, so size, empty and full do.            *)
THEOREM IndexesBalance == Spec => []IndexBalance
BY BalanceInvariant, PTL DEF BInv

(* Every slot has its position: a permutation of a finite set is onto.     *)
LEMMA RemapOnto == \A i \in Slots : \E r \in Slots : Remap[r] = i
<1>1. IsFiniteSet(Slots) /\ Cardinality(Slots) = Cardinality(Slots)
  BY QueueAssumption, FS_Interval DEF Slots
<1>2. Remap \in Injection(Slots, Slots)
  BY QueueAssumption, RingAssumption DEF Injection, IsInjective
<1>3. Remap \in Surjection(Slots, Slots)
  BY <1>1, <1>2, FS_Injection DEF Surjection
<1> QED
  BY <1>3 DEF Surjection

(* When no more pushes than pops have been claimed, the turns of a slot    *)
(* have gone to pops at least as often as to pushes: whoever is to take an *)
(* element that is left there is already waiting at that slot.             *)
LEMMA BalanceMissesNothing ==
    ASSUME TypeOK, BInv
    PROVE  NoElementMissed
<1> SUFFICES ASSUME Pushing = {}, SignedDiff(head, tail) <= 0, NEW i \in Stored
    PROVE  \E t \in Popping : SlotOf(ticket[t]) = i
  BY DEF NoElementMissed
<1> DEFINE n == SignedDiff(head, tail)
<1>1. PICK r \in Slots : Remap[r] = i
  BY RemapOnto DEF Stored
<1>2. StoredAt(r) = 1
  BY <1>1 DEF Stored, StoredAt
<1>3. PushAt(r) = {} /\ Cardinality(PushAt(r)) = 0
  BY FS_EmptySet DEF PushAt
<1>4. tail \in Int /\ n \in Int /\ tail + n <= tail
  BY SignedDiffValue, QueueAssumption DEF TypeOK, Indexes
<1>5. Turns(tail + n, r) <= Turns(tail, r)
  <2>1. tail + n + Size - 1 - r \in Int /\ tail + Size - 1 - r \in Int
    BY <1>4, QueueAssumption DEF Slots
  <2>2. tail + n + Size - 1 - r <= tail + Size - 1 - r
    BY <1>4, QueueAssumption DEF Slots
  <2> QED
    BY <2>1, <2>2, QueueAssumption, DivMonotone DEF Turns
<1>6. Turns(tail + n, r) \in Int /\ Turns(tail, r) \in Int
  <2>1. tail + n \in Int
    BY <1>4
  <2> HIDE DEF n
  <2> QED
    BY <1>4, <2>1, TurnsType
<1>7. Cardinality(PopAt(r)) \in Nat /\ Cardinality(PopAt(r)) # 0
  <2>1. 1 + 0 - Cardinality(PopAt(r)) = Turns(tail + n, r) - Turns(tail, r)
    BY <1>2, <1>3 DEF BInv, SlotBalance
  <2>2. Cardinality(PopAt(r)) \in Nat
    BY CountsAt DEF BInv
  <2> HIDE DEF n
  <2> QED
    BY <1>5, <1>6, <2>1, <2>2
<1>8. PICK t \in PopAt(r) : TRUE
  <2>1. PopAt(r) # {}
    BY <1>7, FS_EmptySet
  <2> QED
    BY <2>1
<1>9. t \in Popping /\ SlotOf(ticket[t]) = Remap[r]
  BY <1>8 DEF PopAt, SlotOf
<1> QED
  BY <1>1, <1>9

(* Tickets bring pushes and pops together, whatever the permutation of the *)
(* slots and however often the indexes have overflowed.                    *)
THEOREM NothingMissed == Spec => []NoElementMissed
<1>1. IInv /\ BInv => NoElementMissed
  BY BalanceMissesNothing DEF IInv
<1> QED
  BY <1>1, InductiveInvariant, BalanceInvariant, PTL

-----------------------------------------------------------------------------
(* The single-producer single-consumer form.                               *)

PushLabels == {"pushCheck", "pushClaim", "pushWait", "pushStore"}
PopLabels == {"popCheck", "popClaim", "popWait", "popStore"}

(* The use the form is made for.                                           *)
OneEach == Producers = {producer} /\ Consumers = {consumer}

(* Every variable of the single-producer single-consumer form has its type.*)
STypeOK ==
    /\ head \in Indexes /\ tail \in Indexes
    /\ slot \in [Slots -> Elements \cup {NIL}]
    /\ pc \in [Threads -> {"idle"} \cup PushLabels \cup PopLabels]
    /\ ticket \in [Threads -> Indexes]
    /\ held \in [Threads -> Elements \cup {NIL}]
    /\ outside \in SUBSET Elements
    /\ seen \in Elements \cup {NIL}

(* The producer has an element in hand exactly while it pushes.            *)
SHeld == held[producer] # NIL <=> pc[producer] \in PushLabels

(* The index that a side has loaded is the one it stores back incremented: *)
(* no other thread moves it in between.                                    *)
STickets ==
    /\ pc[producer] \in {"pushCheck", "pushClaim"} => ticket[producer] = head
    /\ pc[producer] \in {"pushWait", "pushStore"} => head = Increment(ticket[producer])
    /\ pc[consumer] \in {"popCheck", "popClaim"} => ticket[consumer] = tail
    /\ pc[consumer] \in {"popWait", "popStore"} => tail = Increment(ticket[consumer])

\* The number of elements stored and not yet taken.
Length == SignedDiff(FirstUnwritten, FirstUnread)

\* From ticket r on, the first n slots of ring s are full and no others.
Window(s, r, n) == \A k \in 0 .. Size - 1 : s[SlotOf(r + k)] # NIL <=> k < n

\* Their elements.
List(s, r, n) == [j \in 1 .. n |-> s[SlotOf(r + j - 1)]]

(* The full slots are the Length ones from FirstUnread on.                 *)
SRing == Length \in 0 .. Size /\ Window(slot, FirstUnread, Length)

(* What a load of a slot has returned is still there when the store that   *)
(* relies on it comes.                                                     *)
SSeen ==
    /\ pc[producer] = "pushStore" => slot[SlotOf(ticket[producer])] = NIL
    /\ pc[consumer] = "popStore" =>
          seen # NIL /\ slot[SlotOf(ticket[consumer])] = seen

SInv == STypeOK /\ SHeld /\ STickets /\ SRing /\ SSeen

-----------------------------------------------------------------------------
(* Different positions of a window of Size tickets name different slots.   *)
LEMMA WindowSlots ==
    ASSUME NEW i \in Int, NEW k \in 0 .. Size - 1, NEW l \in 0 .. Size - 1
    PROVE  /\ SlotOf(i + k) \in Slots
           /\ SlotOf(i + k) = SlotOf(i + l) => k = l
<1> DEFINE p == (i + k) \div Size
           q == (i + l) \div Size
           r == (i + k) % Size
           s == (i + l) % Size
<1>1. Size \in Nat \ {0} /\ i + k \in Int /\ i + l \in Int
  BY QueueAssumption
<1>2. /\ p \in Int /\ q \in Int /\ r \in Slots /\ s \in Slots
      /\ i + k = Size * p + r /\ i + l = Size * q + s
  BY <1>1, DivMod DEF Slots
<1>3. SlotOf(i + k) = Remap[r] /\ SlotOf(i + l) = Remap[s]
  BY DEF SlotOf
<1> HIDE DEF p, q, r, s
<1>4. SlotOf(i + k) \in Slots
  BY <1>2, <1>3, QueueAssumption
<1>5. ASSUME SlotOf(i + k) = SlotOf(i + l) PROVE k = l
  <2>1. r = s
    BY <1>2, <1>3, <1>5, RingAssumption
  <2>2. Size * p \in Int /\ Size * q \in Int /\ r \in Int
    BY <1>1, <1>2 DEF Slots
  <2>3. ~(p < q)
    <3>1. p < q => Size * p + Size <= Size * q
      BY <1>1, <1>2, MulGap
    <3> QED
      BY <1>1, <1>2, <2>1, <2>2, <3>1
  <2>4. ~(q < p)
    <3>1. q < p => Size * q + Size <= Size * p
      BY <1>1, <1>2, MulGap
    <3> QED
      BY <1>1, <1>2, <2>1, <2>2, <3>1
  <2>5. p = q
    BY <1>2, <2>3, <2>4
  <2> QED
    BY <1>1, <1>2, <2>1, <2>2, <2>5
<1> QED
  BY <1>4, <1>5

(* The window after the next ticket is the same one moved by a position,   *)
(* over the border of the index range or not.                              *)
LEMMA WindowNext ==
    ASSUME NEW i \in Indexes, NEW k \in Int
    PROVE  SlotOf(Increment(i) + k) = SlotOf(i + (k + 1))
<1>1. i \in Int /\ Wrap \in Int
  BY QueueAssumption DEF Indexes
<1>2. Increment(i) = IF i = Wrap - 1 THEN 0 ELSE i + 1
  BY IncrementValue
<1>3. Increment(i) + k = i + (k + 1) \/ Increment(i) + k = (i + (k + 1)) - Wrap
  BY <1>1, <1>2
<1>4. i + (k + 1) \in Int
  BY <1>1
<1>5. (Increment(i) + k) % Size = (i + (k + 1)) % Size
  BY <1>3, <1>4, ModLap
<1> QED
  BY <1>5 DEF SlotOf

(* A lap later the same slot has its turn.                                 *)
LEMMA WindowLap ==
    ASSUME NEW i \in Int
    PROVE  SlotOf(i + Size) = SlotOf(i)
<1> DEFINE q == i \div Size
           s == i % Size
<1>1. q \in Int /\ s \in 0 .. Size - 1 /\ i = Size * q + s /\ Size \in Nat \ {0}
  BY QueueAssumption, DivMod
<1> HIDE DEF q, s
<1>2. i + Size = Size * (q + 1) + s /\ q + 1 \in Int /\ i + Size \in Int
  BY <1>1
<1>3. (i + Size) % Size = s
  BY <1>1, <1>2, DivUnique
<1> QED
  BY <1>3 DEF SlotOf, s

(* The elements of a window, oldest first.                                 *)
LEMMA ListSeq ==
    ASSUME NEW s \in [Slots -> Elements \cup {NIL}], NEW r \in Int, NEW n \in 0 .. Size,
           Window(s, r, n)
    PROVE  /\ List(s, r, n) \in Seq(Elements)
           /\ Len(List(s, r, n)) = n
           /\ \A j \in 1 .. n : List(s, r, n)[j] = s[SlotOf(r + (j - 1))]
<1>1. n \in Nat /\ Size \in Nat \ {0}
  BY QueueAssumption
<1>2. ASSUME NEW j \in 1 .. n
      PROVE  /\ r + j - 1 = r + (j - 1)
             /\ s[SlotOf(r + (j - 1))] \in Elements
  <2>1. j - 1 \in 0 .. Size - 1 /\ j - 1 < n /\ r + j - 1 = r + (j - 1)
    BY <1>1
  <2>2. SlotOf(r + (j - 1)) \in Slots
    BY <2>1, WindowSlots
  <2>3. s[SlotOf(r + (j - 1))] # NIL
    BY <2>1 DEF Window
  <2> QED
    BY <2>1, <2>2, <2>3
<1>3. List(s, r, n) \in [1 .. n -> Elements]
  BY <1>2 DEF List
<1>4. List(s, r, n) \in Seq(Elements) /\ Len(List(s, r, n)) = n
  BY <1>1, <1>3
<1> QED
  BY <1>2, <1>4 DEF List

(* An element stored after the window extends it at its end.               *)
LEMMA StoreInWindow ==
    ASSUME NEW s \in [Slots -> Elements \cup {NIL}], NEW r \in Int, NEW n \in 0 .. Size,
           Window(s, r, n), NEW e \in Elements, s[SlotOf(r + n)] = NIL,
           NEW z \in [Slots -> Elements \cup {NIL}], z[SlotOf(r + n)] = e,
           \A i \in Slots \ {SlotOf(r + n)} : z[i] = s[i]
    PROVE  /\ n < Size
           /\ Window(z, r, n + 1)
           /\ List(z, r, n + 1) = Append(List(s, r, n), e)
<1>1. n \in Nat /\ Size \in Nat \ {0} /\ 0 \in 0 .. Size - 1
  BY QueueAssumption
<1>2. n < Size
  <2>1. SlotOf(r + Size) = SlotOf(r) /\ r + 0 = r
    BY WindowLap
  <2>2. Size > 0 /\ n = Size => s[SlotOf(r)] # NIL
    BY <1>1, <2>1 DEF Window
  <2> QED
    BY <1>1, <2>1, <2>2
<1>3. n \in 0 .. Size - 1 /\ n + 1 \in 0 .. Size
  BY <1>1, <1>2
<1>5. ASSUME NEW k \in 0 .. Size - 1, k # n
      PROVE  z[SlotOf(r + k)] = s[SlotOf(r + k)]
  <2>1. SlotOf(r + k) \in Slots /\ SlotOf(r + k) # SlotOf(r + n)
    BY <1>3, <1>5, WindowSlots
  <2> QED
    BY <2>1
<1>6. Window(z, r, n + 1)
  <2> SUFFICES ASSUME NEW k \in 0 .. Size - 1
               PROVE  z[SlotOf(r + k)] # NIL <=> k < n + 1
    BY DEF Window
  <2>1. CASE k = n
    BY <1>1, <2>1, QueueAssumption
  <2>2. CASE k # n
    BY <1>1, <1>5, <2>2 DEF Window
  <2> QED
    BY <2>1, <2>2
<1> DEFINE a == List(s, r, n)
           b == List(z, r, n + 1)
<1>7. a \in Seq(Elements) /\ Len(a) = n /\ \A j \in 1 .. n : a[j] = s[SlotOf(r + (j - 1))]
  BY ListSeq
<1>8. /\ b \in Seq(Elements) /\ Len(b) = n + 1
      /\ \A j \in 1 .. n + 1 : b[j] = z[SlotOf(r + (j - 1))]
  <2> DEFINE m == n + 1
  <2>1. m \in 0 .. Size /\ Window(z, r, m)
    BY <1>3, <1>6
  <2> HIDE DEF m
  <2>2. /\ List(z, r, m) \in Seq(Elements) /\ Len(List(z, r, m)) = m
        /\ \A j \in 1 .. m : List(z, r, m)[j] = z[SlotOf(r + (j - 1))]
    BY <2>1, ListSeq
  <2> QED
    BY <2>2 DEF m
<1> HIDE DEF a, b
<1>9. \A j \in 1 .. n : b[j] = a[j]
  <2> SUFFICES ASSUME NEW j \in 1 .. n PROVE b[j] = a[j]
    OBVIOUS
  <2>1. j - 1 \in 0 .. Size - 1 /\ j - 1 # n /\ j \in 1 .. n + 1
    BY <1>1, <1>2
  <2> QED
    BY <1>5, <1>7, <1>8, <2>1
<1>10. b[n + 1] = e
  <2>1. n + 1 \in 1 .. n + 1 /\ (n + 1) - 1 = n
    BY <1>1
  <2> QED
    BY <1>8, <2>1
<1>11. b = Append(a, e)
  <2>1. /\ Append(a, e) \in Seq(Elements) /\ Len(Append(a, e)) = n + 1
        /\ \A j \in 1 .. n : Append(a, e)[j] = a[j]
        /\ Append(a, e)[n + 1] = e
    BY <1>1, <1>7
  <2>2. \A j \in 1 .. n + 1 : b[j] = Append(a, e)[j]
    BY <1>1, <1>9, <1>10, <2>1
  <2> QED
    BY <1>8, <2>1, <2>2, SeqEqual
<1> QED
  BY <1>2, <1>6, <1>11 DEF a, b

(* An element taken from the beginning of the window leaves the rest.      *)
LEMMA TakeFromWindow ==
    ASSUME NEW s \in [Slots -> Elements \cup {NIL}], NEW r \in Indexes,
           NEW n \in 0 .. Size, Window(s, r, n), s[SlotOf(r)] # NIL,
           NEW z \in [Slots -> Elements \cup {NIL}], z[SlotOf(r)] = NIL,
           \A i \in Slots \ {SlotOf(r)} : z[i] = s[i]
    PROVE  /\ n > 0
           /\ Window(z, Increment(r), n - 1)
           /\ List(s, r, n) # <<>> /\ Head(List(s, r, n)) = s[SlotOf(r)]
           /\ List(z, Increment(r), n - 1) = Tail(List(s, r, n))
<1>1. /\ n \in Nat /\ Size \in Nat \ {0} /\ 0 \in 0 .. Size - 1
      /\ r \in Int /\ r + 0 = r /\ Increment(r) \in Int
  BY QueueAssumption, IncrementType DEF Indexes
<1>2. n > 0
  BY <1>1 DEF Window
<1>3. n - 1 \in 0 .. Size
  BY <1>1, <1>2
<1>5. ASSUME NEW k \in 0 .. Size - 2
      PROVE  /\ k + 1 \in 0 .. Size - 1
             /\ z[SlotOf(Increment(r) + k)] = s[SlotOf(r + (k + 1))]
  <2>1. k + 1 \in 0 .. Size - 1 /\ k + 1 # 0 /\ k \in Int
    BY <1>1
  <2>2. SlotOf(Increment(r) + k) = SlotOf(r + (k + 1))
    BY <2>1, WindowNext
  <2>3. SlotOf(r + (k + 1)) \in Slots /\ SlotOf(r + (k + 1)) # SlotOf(r)
    BY <1>1, <2>1, WindowSlots
  <2> QED
    BY <2>1, <2>2, <2>3
<1>6. Window(z, Increment(r), n - 1)
  <2> SUFFICES ASSUME NEW k \in 0 .. Size - 1
               PROVE  z[SlotOf(Increment(r) + k)] # NIL <=> k < n - 1
    BY DEF Window
  <2>1. CASE k = Size - 1
    <3>1. SlotOf(Increment(r) + k) = SlotOf(r + (k + 1)) /\ k + 1 = Size
      BY <1>1, <2>1, WindowNext
    <3>2. SlotOf(r + Size) = SlotOf(r)
      BY <1>1, WindowLap
    <3> QED
      BY <1>1, <2>1, <3>1, <3>2
  <2>2. CASE k # Size - 1
    <3>1. k \in 0 .. Size - 2
      BY <1>1, <2>2
    <3>2. s[SlotOf(r + (k + 1))] # NIL <=> k + 1 < n
      BY <1>5, <3>1 DEF Window
    <3> QED
      BY <1>1, <1>5, <3>1, <3>2
  <2> QED
    BY <2>1, <2>2
<1> DEFINE a == List(s, r, n)
           b == List(z, Increment(r), n - 1)
<1>7. a \in Seq(Elements) /\ Len(a) = n /\ \A j \in 1 .. n : a[j] = s[SlotOf(r + (j - 1))]
  BY <1>1, ListSeq
<1>8. /\ b \in Seq(Elements) /\ Len(b) = n - 1
      /\ \A j \in 1 .. n - 1 : b[j] = z[SlotOf(Increment(r) + (j - 1))]
  <2> DEFINE m == n - 1
             i == Increment(r)
  <2>1. m \in 0 .. Size /\ i \in Int /\ Window(z, i, m)
    BY <1>1, <1>3, <1>6
  <2> HIDE DEF m, i
  <2>2. /\ List(z, i, m) \in Seq(Elements) /\ Len(List(z, i, m)) = m
        /\ \A j \in 1 .. m : List(z, i, m)[j] = z[SlotOf(i + (j - 1))]
    BY <2>1, ListSeq
  <2> QED
    BY <2>2 DEF m, i
<1> HIDE DEF a, b
<1>9. a # <<>> /\ Head(a) = s[SlotOf(r)]
  <2>1. 1 \in 1 .. n /\ 1 - 1 = 0
    BY <1>1, <1>2
  <2>2. a[1] = s[SlotOf(r)]
    BY <1>1, <1>7, <2>1
  <2> QED
    BY <1>2, <1>7, <2>2
<1>10. b = Tail(a)
  <2>1. /\ Tail(a) \in Seq(Elements) /\ Len(Tail(a)) = n - 1
        /\ \A j \in 1 .. n - 1 : Tail(a)[j] = a[j + 1]
    BY <1>7, <1>9, HeadTailProperties
  <2>2. ASSUME NEW j \in 1 .. n - 1 PROVE b[j] = Tail(a)[j]
    <3>1. j - 1 \in 0 .. Size - 2 /\ j + 1 \in 1 .. n /\ (j - 1) + 1 = (j + 1) - 1
      BY <1>1
    <3> QED
      BY <1>5, <1>7, <1>8, <2>1, <3>1
  <2> QED
    BY <1>8, <2>1, <2>2, SeqEqual
<1> QED
  BY <1>2, <1>6, <1>9, <1>10 DEF a, b

-----------------------------------------------------------------------------
(* The ends of the ring are tickets.                                       *)
LEMMA EndsType ==
    ASSUME OneEach, STypeOK
    PROVE  /\ producer \in Threads /\ consumer \in Threads
           /\ Producers = {producer} /\ Consumers = {consumer}
           /\ FirstUnread \in Indexes /\ FirstUnwritten \in Indexes
BY DEF OneEach, STypeOK, FirstUnread, FirstUnwritten, Threads

\* A step that neither stores nor takes an element.
SQuiet ==
    /\ slot' = slot
    /\ FirstUnread' = FirstUnread /\ FirstUnwritten' = FirstUnwritten

(* Such a step leaves the ring as it is.                                   *)
LEMMA QuietRing ==
    ASSUME SRing, SQuiet
    PROVE  SRing' /\ Contents' = Contents
BY DEF SRing, SQuiet, Length, Window, Contents

\* The part of the invariant that is not about the ring.
SLocal == STypeOK /\ SHeld /\ STickets /\ SSeen

(* The steps of a push before its store: none of them moves an end of the  *)
(* ring, although StoreHead moves m_head.                                  *)
LEMMA PushQuiet ==
    ASSUME OneEach, SInv, NEW t \in Producers,
           \/ \E e \in Elements :
                 LoadHead(t, e, "pushClaim") \/ LoadHead(t, e, "pushCheck")
           \/ RefuseFull(t) \/ FindRoom(t) \/ StoreHead(t) \/ SeeEmpty(t)
    PROVE  SLocal' /\ SQuiet
<1> USE EndsType, IncrementType, SlotOfType, ZeroIndex, QueueAssumption
    DEF SInv, SLocal, STypeOK, SHeld, STickets, SSeen, SQuiet, PushLabels, PopLabels,
        FirstUnread, FirstUnwritten, Goto, Return
<1>1. t = producer
  OBVIOUS
<1>2. ASSUME NEW e \in Elements,
             LoadHead(t, e, "pushClaim") \/ LoadHead(t, e, "pushCheck")
      PROVE  SLocal' /\ SQuiet
  BY <1>1, <1>2 DEF LoadHead
<1>3. CASE RefuseFull(t)
  BY <1>1, <1>3 DEF RefuseFull
<1>4. CASE FindRoom(t)
  BY <1>1, <1>4 DEF FindRoom
<1>5. CASE StoreHead(t)
  BY <1>1, <1>5 DEF StoreHead
<1>6. CASE SeeEmpty(t)
  BY <1>1, <1>6 DEF SeeEmpty
<1> QED
  BY <1>2, <1>3, <1>4, <1>5, <1>6

(* The steps of a pop before its store of NIL.                             *)
LEMMA PopQuiet ==
    ASSUME OneEach, SInv, NEW t \in Consumers,
           \/ LoadTail(t, "popClaim") \/ LoadTail(t, "popCheck")
           \/ RefuseEmpty(t) \/ FindSome(t) \/ StoreTail(t) \/ SeeElement(t)
    PROVE  SLocal' /\ SQuiet
<1> USE EndsType, IncrementType, SlotOfType, ZeroIndex, QueueAssumption
    DEF SInv, SLocal, STypeOK, SHeld, STickets, SSeen, SQuiet, PushLabels, PopLabels,
        FirstUnread, FirstUnwritten, Goto, Return
<1>1. t = consumer
  OBVIOUS
<1>2. CASE LoadTail(t, "popClaim") \/ LoadTail(t, "popCheck")
  BY <1>1, <1>2 DEF LoadTail
<1>3. CASE RefuseEmpty(t)
  BY <1>1, <1>3 DEF RefuseEmpty
<1>4. CASE FindSome(t)
  BY <1>1, <1>4 DEF FindSome
<1>5. CASE StoreTail(t)
  BY <1>1, <1>5 DEF StoreTail
<1>6. CASE SeeElement(t)
  BY <1>1, <1>6 DEF SeeElement
<1> QED
  BY <1>2, <1>3, <1>4, <1>5, <1>6

(* The store of an element: the slot the load saw empty still is, so the   *)
(* store accepts the element at the end of the FIFO.                       *)
LEMMA StoreElementStep ==
    ASSUME OneEach, SInv, NEW t \in Producers, StoreElement(t)
    PROVE  SInv' /\ Len(Contents) < Size /\ Contents' = Append(Contents, held[producer])
<1> DEFINE w == FirstUnwritten
           r == FirstUnread
           n == Length
           e == held[producer]
<1>1. /\ t = producer /\ producer \in Threads /\ consumer \in Threads
      /\ w \in Indexes /\ r \in Indexes /\ r \in Int /\ n \in 0 .. Size
      /\ slot \in [Slots -> Elements \cup {NIL}] /\ Window(slot, r, n)
      /\ SlotOf(w) \in Slots
  BY EndsType, SlotOfType DEF SInv, STypeOK, SRing, Indexes
<1>2. pc[producer] = "pushStore" /\ w = ticket[producer] /\ e \in Elements
  BY <1>1 DEF StoreElement, SInv, SHeld, STypeOK, PushLabels, FirstUnwritten
<1>3. slot[SlotOf(w)] = NIL /\ head = Increment(w)
  BY <1>2 DEF SInv, SSeen, STickets
<1>4. SlotOf(r + n) = SlotOf(w)
  BY <1>1, DistanceNames DEF Length, SlotOf
<1>5. /\ slot' \in [Slots -> Elements \cup {NIL}] /\ slot'[SlotOf(w)] = e
      /\ \A i \in Slots \ {SlotOf(w)} : slot'[i] = slot[i]
  BY <1>1, <1>2 DEF StoreElement
<1>6. /\ n < Size /\ Window(slot', r, n + 1)
      /\ List(slot', r, n + 1) = Append(List(slot, r, n), e)
  <2> HIDE DEF w, r, n, e
  <2> QED
    BY <1>1, <1>2, <1>3, <1>4, <1>5, StoreInWindow
<1>7. FirstUnwritten' = Increment(w) /\ FirstUnread' = r
  BY <1>1, <1>2, <1>3 DEF StoreElement, Return, Goto, SInv, STypeOK,
                          FirstUnwritten, FirstUnread
<1>8. Length' = n + 1 /\ n + 1 \in 0 .. Size
  <2>1. n \in Int /\ n + 1 < Wrap \div 2
    <3>1. Cardinality(Producers) \in Nat /\ Cardinality(Producers) # 0
      BY <1>1, WidthAssumption, FS_CardinalityType, FS_EmptySet
    <3> QED
      BY <1>1, <1>6, <3>1, WidthAssumption, QueueAssumption, Half
  <2> QED
    BY <1>1, <1>6, <1>7, <2>1, SignedDiffNext, QueueAssumption DEF Length
<1>9. SRing'
  BY <1>6, <1>7, <1>8 DEF SRing, Window
<1>10. SLocal'
  <2>1. STypeOK'
    BY <1>1, <1>5, ZeroIndex DEF StoreElement, Return, Goto, SInv, STypeOK
  <2>2. SHeld' /\ STickets'
    BY <1>1, <1>2 DEF StoreElement, Return, Goto, SInv, STypeOK, SHeld, STickets,
                      PushLabels
  <2>3. SSeen'
    <3>1. pc'[producer] = "idle" /\ seen' = seen
      BY <1>1 DEF StoreElement, Return, Goto, SInv, STypeOK
    <3>2. ASSUME pc'[consumer] = "popStore"
          PROVE  seen' # NIL /\ slot'[SlotOf(ticket'[consumer])] = seen'
      <4>1. /\ consumer # producer /\ pc[consumer] = "popStore"
            /\ ticket'[consumer] = ticket[consumer]
        BY <1>1, <3>1, <3>2 DEF StoreElement, Return, Goto, SInv, STypeOK
      <4>2. seen # NIL /\ slot[SlotOf(ticket[consumer])] = seen
        BY <4>1 DEF SInv, SSeen
      <4>3. SlotOf(ticket[consumer]) \in Slots \ {SlotOf(w)}
        BY <1>1, <1>3, <4>2, SlotOfType DEF SInv, STypeOK
      <4> QED
        BY <1>5, <3>1, <4>1, <4>2, <4>3
    <3> QED
      BY <3>1, <3>2 DEF SSeen
  <2> QED
    BY <2>1, <2>2, <2>3 DEF SLocal
<1>11. SInv'
  BY <1>9, <1>10 DEF SInv, SLocal
<1>12. Contents = List(slot, r, n) /\ Contents' = List(slot', r, n + 1)
  BY <1>7, <1>8 DEF Contents, List, Length
<1>13. Len(Contents) = n
  BY <1>1, <1>12, ListSeq
<1> QED
  BY <1>6, <1>11, <1>12, <1>13

(* The store of NIL: the element the load saw is still in its slot, so the *)
(* store delivers the first element of the FIFO.                           *)
LEMMA StoreNilStep ==
    ASSUME OneEach, SInv, NEW t \in Consumers, StoreNil(t)
    PROVE  /\ SInv' /\ Contents # <<>>
           /\ outside' = outside \cup {Head(Contents)} /\ Contents' = Tail(Contents)
<1> DEFINE w == FirstUnwritten
           r == FirstUnread
           n == Length
<1>1. /\ t = consumer /\ producer \in Threads /\ consumer \in Threads
      /\ w \in Indexes /\ r \in Indexes /\ r \in Int /\ n \in 0 .. Size
      /\ slot \in [Slots -> Elements \cup {NIL}] /\ Window(slot, r, n)
      /\ SlotOf(r) \in Slots
  BY EndsType, SlotOfType DEF SInv, STypeOK, SRing, Indexes
<1>2. /\ pc[consumer] = "popStore" /\ r = ticket[consumer] /\ tail = Increment(r)
      /\ seen # NIL /\ slot[SlotOf(r)] = seen
  BY <1>1 DEF StoreNil, SInv, SSeen, STickets, FirstUnread
<1>3. /\ slot' \in [Slots -> Elements \cup {NIL}] /\ slot'[SlotOf(r)] = NIL
      /\ \A i \in Slots \ {SlotOf(r)} : slot'[i] = slot[i]
  BY <1>1, <1>2 DEF StoreNil
<1>4. /\ n > 0 /\ Window(slot', Increment(r), n - 1)
      /\ List(slot, r, n) # <<>> /\ Head(List(slot, r, n)) = slot[SlotOf(r)]
      /\ List(slot', Increment(r), n - 1) = Tail(List(slot, r, n))
  <2> HIDE DEF r, n
  <2> QED
    BY <1>1, <1>2, <1>3, TakeFromWindow
<1>5. FirstUnwritten' = w /\ FirstUnread' = Increment(r)
  BY <1>1, <1>2 DEF StoreNil, Return, Goto, SInv, STypeOK, FirstUnwritten, FirstUnread
<1>6. Length' = n - 1 /\ n - 1 \in 0 .. Size
  <2>1. n \in Int /\ n > (Wrap \div 2) - Wrap
    BY <1>1, <1>4, QueueAssumption, Half
  <2> QED
    BY <1>1, <1>4, <1>5, <2>1, SignedDiffNext, QueueAssumption DEF Length
<1>7. SRing'
  BY <1>4, <1>5, <1>6 DEF SRing, Window
<1>8. SLocal'
  <2>1. STypeOK'
    BY <1>1, <1>2, <1>3, ZeroIndex DEF StoreNil, Return, Goto, SInv, STypeOK
  <2>2. SHeld' /\ STickets'
    BY <1>1, <1>2 DEF StoreNil, Return, Goto, SInv, STypeOK, SHeld, STickets,
                      PushLabels
  <2>3. SSeen'
    <3>1. pc'[consumer] = "idle"
      BY <1>1 DEF StoreNil, Return, Goto, SInv, STypeOK
    <3>2. ASSUME pc'[producer] = "pushStore"
          PROVE  slot'[SlotOf(ticket'[producer])] = NIL
      <4>1. pc[producer] = "pushStore" /\ ticket'[producer] = ticket[producer]
        BY <1>1, <3>1, <3>2 DEF StoreNil, Return, Goto, SInv, STypeOK
      <4>2. slot[SlotOf(ticket[producer])] = NIL /\ SlotOf(ticket[producer]) \in Slots
        BY <1>1, <4>1, SlotOfType DEF SInv, SSeen, STypeOK
      <4> QED
        BY <1>3, <4>1, <4>2
    <3> QED
      BY <3>1, <3>2 DEF SSeen
  <2> QED
    BY <2>1, <2>2, <2>3 DEF SLocal
<1>9. SInv'
  BY <1>7, <1>8 DEF SInv, SLocal
<1>10. Contents = List(slot, r, n) /\ Contents' = List(slot', Increment(r), n - 1)
  BY <1>5, <1>6 DEF Contents, List, Length
<1>11. outside' = outside \cup {slot[SlotOf(r)]}
  BY <1>1, <1>2 DEF StoreNil
<1> QED
  BY <1>4, <1>9, <1>10, <1>11

(* The steps that leave the ring alone offer an element, take an offer     *)
(* back or are invisible to the callers.                                   *)
LEMMA QuietRefines ==
    ASSUME OneEach, SInv, SLocal', SQuiet,
           \/ \E t \in Producers :
                \/ \E e \in Elements :
                      LoadHead(t, e, "pushClaim") \/ LoadHead(t, e, "pushCheck")
                \/ RefuseFull(t) \/ FindRoom(t) \/ StoreHead(t) \/ SeeEmpty(t)
           \/ \E t \in Consumers :
                \/ LoadTail(t, "popClaim") \/ LoadTail(t, "popCheck")
                \/ RefuseEmpty(t) \/ FindSome(t) \/ StoreTail(t) \/ SeeElement(t)
    PROVE  SInv' /\ [Fifo!Next]_(Fifo!fvars)
<1>1. SRing' /\ Contents' = Contents
  BY QuietRing DEF SInv
<1>2. SInv'
  BY <1>1 DEF SInv, SLocal
<1>3. producer \in Threads /\ Producers = {producer}
  BY EndsType DEF SInv
<1>4. ASSUME NEW e \in Elements,
             LoadHead(producer, e, "pushClaim") \/ LoadHead(producer, e, "pushCheck")
      PROVE  Fifo!Offer(e)
  <2>1. held[producer] = NIL
    BY <1>4 DEF LoadHead, SInv, SHeld, PushLabels
  <2>2. e \in outside /\ outside' = outside \ {e} /\ held'[producer] = e
    BY <1>3, <1>4 DEF LoadHead, SInv, STypeOK
  <2> QED
    BY <1>1, <2>1, <2>2 DEF Fifo!Offer
<1>5. ASSUME RefuseFull(producer) PROVE Fifo!Refuse
  <2>1. held[producer] # NIL
    BY <1>5 DEF RefuseFull, SInv, SHeld, PushLabels
  <2>2. outside' = outside \cup {held[producer]} /\ held'[producer] = NIL
    BY <1>3, <1>5 DEF RefuseFull, SInv, STypeOK
  <2> QED
    BY <1>1, <2>1, <2>2 DEF Fifo!Refuse
<1>6. ASSUME outside' = outside, held' = held PROVE UNCHANGED Fifo!fvars
  BY <1>1, <1>6 DEF Fifo!fvars
<1>7. ASSUME FindRoom(producer) \/ StoreHead(producer) \/ SeeEmpty(producer)
      PROVE  UNCHANGED Fifo!fvars
  BY <1>6, <1>7 DEF FindRoom, StoreHead, SeeEmpty
<1>8. ASSUME NEW t \in Consumers,
             \/ LoadTail(t, "popClaim") \/ LoadTail(t, "popCheck")
             \/ RefuseEmpty(t) \/ FindSome(t) \/ StoreTail(t) \/ SeeElement(t)
      PROVE  UNCHANGED Fifo!fvars
  BY <1>6, <1>8 DEF LoadTail, RefuseEmpty, FindSome, StoreTail, SeeElement
<1>9. [Fifo!Next]_(Fifo!fvars)
  BY <1>3, <1>4, <1>5, <1>7, <1>8 DEF Fifo!Next
<1> QED
  BY <1>2, <1>9

(* The initial ring is empty, and so is the FIFO.                          *)
LEMMA SpscInit ==
    ASSUME OneEach, SInit
    PROVE  SInv /\ Fifo!Init
<1>1. /\ producer \in Threads /\ consumer \in Threads /\ head = Start /\ tail = Start
      /\ pc[producer] = "idle" /\ pc[consumer] = "idle" /\ Start \in Indexes
  BY QueueAssumption DEF OneEach, Threads, SInit, Init
<1>2. FirstUnread = Start /\ FirstUnwritten = Start
  BY <1>1 DEF FirstUnread, FirstUnwritten
<1>3. Length = 0
  <2>1. Start - Start = 0 /\ 0 < Wrap \div 2 /\ 0 >= (Wrap \div 2) - Wrap
    <3>1. Cardinality(Producers) \in Nat
      BY WidthAssumption, FS_CardinalityType
    <3> QED
      BY <1>1, <3>1, WidthAssumption, QueueAssumption, Half DEF Indexes
  <2> QED
    BY <1>1, <1>2, <2>1, SignedDiffUnique DEF Length
<1>4. STypeOK /\ SHeld /\ STickets /\ SSeen
  BY <1>1, ZeroIndex DEF SInit, Init, STypeOK, SHeld, STickets, SSeen, PushLabels
<1>5. SRing
  <2>1. \A k \in 0 .. Size - 1 : SlotOf(Start + k) \in Slots
    BY <1>1, WindowSlots DEF Indexes
  <2>2. \A k \in 0 .. Size - 1 : slot[SlotOf(Start + k)] = NIL
    BY <2>1 DEF SInit, Init
  <2> QED
    BY <1>2, <1>3, <2>2, QueueAssumption DEF SRing, Window
<1>6. Contents = <<>>
  BY <1>3 DEF Contents, Length
<1>7. Fifo!Init
  BY <1>1, <1>6 DEF Fifo!Init, SInit, Init
<1> QED
  BY <1>4, <1>5, <1>7 DEF SInv

(* With one producer and one consumer the form without read-modify-writes  *)
(* keeps its invariant, and what the callers see is a bounded FIFO.        *)
THEOREM SpscImplementsFifo ==
    ASSUME OneEach
    PROVE  SSpec => ImplementsFifo
<1>1. SInit => SInv /\ Fifo!Init
  BY SpscInit
<1>2. SInv /\ [SNext]_svars => SInv' /\ [Fifo!Next]_(Fifo!fvars)
  <2> SUFFICES ASSUME SInv, [SNext]_svars
               PROVE  SInv' /\ [Fifo!Next]_(Fifo!fvars)
    OBVIOUS
  <2>1. ASSUME NEW t \in Producers, StoreElement(t)
        PROVE  SInv' /\ [Fifo!Next]_(Fifo!fvars)
    <3>1. SInv' /\ Len(Contents) < Size /\ Contents' = Append(Contents, held[producer])
      BY <2>1, StoreElementStep
    <3>2. /\ t = producer /\ held[producer] # NIL /\ held'[producer] = NIL
          /\ outside' = outside
      BY <2>1, EndsType DEF StoreElement, SInv, STypeOK, SHeld, PushLabels
    <3>3. Fifo!Accept
      BY <3>1, <3>2 DEF Fifo!Accept
    <3> QED
      BY <3>1, <3>3 DEF Fifo!Next
  <2>2. ASSUME NEW t \in Consumers, StoreNil(t)
        PROVE  SInv' /\ [Fifo!Next]_(Fifo!fvars)
    <3>1. /\ SInv' /\ Contents # <<>>
          /\ outside' = outside \cup {Head(Contents)} /\ Contents' = Tail(Contents)
      BY <2>2, StoreNilStep
    <3>2. held' = held
      BY <2>2 DEF StoreNil
    <3>3. Fifo!Deliver
      BY <3>1, <3>2 DEF Fifo!Deliver
    <3> QED
      BY <3>1, <3>3 DEF Fifo!Next
  <2>3. ASSUME NEW t \in Producers,
               \/ \E e \in Elements :
                     LoadHead(t, e, "pushClaim") \/ LoadHead(t, e, "pushCheck")
               \/ RefuseFull(t) \/ FindRoom(t) \/ StoreHead(t) \/ SeeEmpty(t)
        PROVE  SInv' /\ [Fifo!Next]_(Fifo!fvars)
    <3>1. SLocal' /\ SQuiet
      BY <2>3, PushQuiet
    <3> QED
      BY <2>3, <3>1, QuietRefines
  <2>4. ASSUME NEW t \in Consumers,
               \/ LoadTail(t, "popClaim") \/ LoadTail(t, "popCheck")
               \/ RefuseEmpty(t) \/ FindSome(t) \/ StoreTail(t) \/ SeeElement(t)
        PROVE  SInv' /\ [Fifo!Next]_(Fifo!fvars)
    <3>1. SLocal' /\ SQuiet
      BY <2>4, PopQuiet
    <3> QED
      BY <2>4, <3>1, QuietRefines
  <2>5. CASE UNCHANGED svars
    <3>1. SInv'
      BY <2>5 DEF svars, SInv, STypeOK, SHeld, STickets, SRing, SSeen, Length, Window,
                  FirstUnread, FirstUnwritten
    <3>2. UNCHANGED Fifo!fvars
      BY <2>5 DEF svars, Fifo!fvars, Contents, FirstUnread, FirstUnwritten
    <3> QED
      BY <3>1, <3>2
  <2> QED
    BY <2>1, <2>2, <2>3, <2>4, <2>5 DEF SNext, PushStep, PopStep
<1> QED
  BY <1>1, <1>2, PTL DEF SSpec, ImplementsFifo, Fifo!Spec

-----------------------------------------------------------------------------
(* The order in which the general form delivers to a single consumer.      *)

OneReceiver == Consumers = {consumer}

\* The ticket of the k-th element that got one, and its slot.
TicketOf(k) == (Start + k - 1) % Wrap

(* The history variables have their types.                                 *)
OTypeOK ==
    /\ reserved \in Seq(Elements) /\ delivered \in Seq(Elements)
    /\ exceeded \in BOOLEAN

(* The indexes count the tickets, modulo their range.                      *)
OIndexes ==
    /\ head = TicketOf(Len(reserved) + 1)
    /\ pc[consumer] = "pop" =>
          /\ ticket[consumer] = TicketOf(Len(delivered) + 1)
          /\ tail = TicketOf(Len(delivered) + 2)
    /\ pc[consumer] # "pop" => tail = TicketOf(Len(delivered) + 1)

(* The elements under way are the ones after those delivered, each in the  *)
(* slot of its ticket or in the hand of the push that has the ticket.      *)
OUnderWay ==
    /\ UnderWay \in 0 .. Size
    /\ \A j \in 1 .. Len(delivered) : delivered[j] = reserved[j]
    /\ \A i \in Slots : slot[i] # NIL =>
          \E k \in Len(delivered) + 1 .. Len(reserved) :
              i = SlotOf(TicketOf(k)) /\ slot[i] = reserved[k]
    /\ \A t \in Threads : pc[t] = "push" =>
          \E k \in Len(delivered) + 1 .. Len(reserved) :
              ticket[t] = TicketOf(k) /\ held[t] = reserved[k]

OInv == OTypeOK /\ OIndexes /\ (~exceeded => OUnderWay)

-----------------------------------------------------------------------------
(* Tickets are indexes, and each is the increment of the one before.       *)
LEMMA TicketNext ==
    ASSUME NEW k \in Int
    PROVE  TicketOf(k) \in Indexes /\ Increment(TicketOf(k)) = TicketOf(k + 1)
<1> DEFINE x == Start + k - 1
           q == x \div Wrap
           s == x % Wrap
<1>1. x \in Int /\ Wrap \in Nat \ {0} /\ Start \in Int
  BY QueueAssumption DEF Indexes
<1>2. q \in Int /\ s \in 0 .. Wrap - 1 /\ x = Wrap * q + s
  BY <1>1, DivMod
<1>3. TicketOf(k) = s /\ s \in Indexes
  BY <1>2 DEF TicketOf, Indexes
<1>4. TicketOf(k + 1) = (x + 1) % Wrap
  <2>1. Start + (k + 1) - 1 = x + 1
    BY <1>1
  <2> QED
    BY <2>1 DEF TicketOf
<1>5. Increment(s) = IF s = Wrap - 1 THEN 0 ELSE s + 1
  BY <1>3, IncrementValue
<1> HIDE DEF x, q, s
<1>6. CASE s = Wrap - 1
  <2> DEFINE y == x + 1
             p == q + 1
  <2>1. y = Wrap * p + 0 /\ p \in Int /\ y \in Int /\ 0 \in 0 .. Wrap - 1
    BY <1>1, <1>2, <1>6
  <2>2. y % Wrap = 0
    <3> HIDE DEF y, p
    <3> QED
      BY <1>1, <2>1, DivUnique
  <2> QED
    BY <1>3, <1>4, <1>5, <1>6, <2>2
<1>7. CASE s # Wrap - 1
  <2>1. x + 1 = Wrap * q + (s + 1) /\ s + 1 \in 0 .. Wrap - 1 /\ x + 1 \in Int
    BY <1>1, <1>2, <1>7
  <2>2. (x + 1) % Wrap = s + 1
    BY <1>1, <1>2, <2>1, DivUnique
  <2> QED
    BY <1>3, <1>4, <1>5, <1>7, <2>2
<1> QED
  BY <1>6, <1>7

(* The overflow of the index does not change the slot of a ticket.         *)
LEMMA TicketSlot ==
    ASSUME NEW k \in Int
    PROVE  SlotOf(TicketOf(k)) = SlotOf(Start + (k - 1))
<1> DEFINE x == Start + k - 1
           q == x \div Wrap
           s == x % Wrap
           m == Wrap \div Size
           u == s \div Size
           v == s % Size
<1>1. x \in Int /\ Wrap \in Nat \ {0} /\ Start \in Int /\ x = Start + (k - 1)
  BY QueueAssumption DEF Indexes
<1>2. q \in Int /\ s \in 0 .. Wrap - 1 /\ x = Wrap * q + s
  BY <1>1, DivMod
<1>3. m \in Int /\ Wrap = Size * m /\ Size \in Nat \ {0}
  BY Laps, QueueAssumption
<1>4. TicketOf(k) = s
  BY DEF TicketOf
<1> HIDE DEF x, q, s
<1>5. u \in Int /\ v \in 0 .. Size - 1 /\ s = Size * u + v
  <2>1. s \in Int
    BY <1>1, <1>2
  <2> QED
    BY <1>3, <2>1, DivMod
<1>6. SlotOf(TicketOf(k)) = Remap[v]
  BY <1>4 DEF SlotOf
<1> HIDE DEF m, u, v
<1>7. x = Size * (m * q + u) + v /\ m * q + u \in Int
  <2>1. m * q \in Int /\ (Size * m) * q = Size * (m * q)
    BY <1>2, <1>3
  <2>2. Size * (m * q + u) = Size * (m * q) + Size * u
    BY <1>3, <1>5, <2>1
  <2> QED
    BY <1>2, <1>3, <1>5, <2>1, <2>2
<1>8. x % Size = v
  <2> DEFINE w == m * q + u
  <2>1. w \in Int /\ x = Size * w + v
    BY <1>7
  <2>2. x \in Int /\ v \in 0 .. Size - 1 /\ Size \in Nat \ {0}
    BY <1>1, <1>3, <1>5
  <2> HIDE DEF w
  <2> QED
    BY <2>1, <2>2, DivUnique
<1> QED
  BY <1>1, <1>6, <1>8 DEF SlotOf

(* At most Size tickets in a row have different slots.                     *)
LEMMA TicketSlots ==
    ASSUME NEW j \in Int, NEW k \in j .. j + Size - 1,
           SlotOf(TicketOf(k)) = SlotOf(TicketOf(j))
    PROVE  k = j
<1> DEFINE i == Start + (j - 1)
           d == k - j
<1>1. /\ i \in Int /\ d \in 0 .. Size - 1 /\ 0 \in 0 .. Size - 1
      /\ Start + (k - 1) = i + d /\ Start + (j - 1) = i + 0
  BY QueueAssumption DEF Indexes
<1>2. SlotOf(i + d) = SlotOf(i + 0)
  <2>1. k \in Int
    BY <1>1
  <2> QED
    BY <1>1, <2>1, TicketSlot
<1> HIDE DEF i
<1>3. d = 0
  <2> HIDE DEF d
  <2> QED
    BY <1>1, <1>2, WindowSlots
<1> QED
  BY <1>3

(* The lengths of the histories are numbers.                               *)
LEMMA HistoryLengths ==
    ASSUME OTypeOK
    PROVE  /\ Len(reserved) \in Nat /\ Len(delivered) \in Nat
           /\ UnderWay = Len(reserved) - Len(delivered)
BY DEF OTypeOK, UnderWay

\* A step that moves no ticket and no element of the queue.
OQuiet ==
    /\ UNCHANGED <<head, tail, slot, reserved, delivered, exceeded>>
    /\ \A t \in Threads : pc'[t] = "push" =>
          pc[t] = "push" /\ ticket'[t] = ticket[t] /\ held'[t] = held[t]
    /\ pc'[consumer] = "pop" <=> pc[consumer] = "pop"
    /\ pc[consumer] = "pop" => ticket'[consumer] = ticket[consumer]

(* Such a step keeps the invariant.                                        *)
LEMMA OQuietStep ==
    ASSUME OInv, OQuiet
    PROVE  OInv'
<1>1. OTypeOK' /\ OIndexes'
  BY DEF OInv, OQuiet, OTypeOK, OIndexes
<1>2. ASSUME ~exceeded' PROVE OUnderWay'
  <2>1. OUnderWay
    BY <1>2 DEF OInv, OQuiet
  <2> QED
    BY <2>1 DEF OUnderWay, OQuiet, UnderWay
<1> QED
  BY <1>1, <1>2 DEF OInv

(* A new ticket is the next one, and its element the last one under way.   *)
LEMMA ReserveOrder ==
    ASSUME OneReceiver, IInv, OInv, NEW t \in Producers, Reserve(t)
    PROVE  OInv'
<1> DEFINE R == Len(reserved)
           D == Len(delivered)
           e == held'[t]
           Claims ==
             /\ pc[t] \notin {"push", "pop"} /\ pc'[t] = "push" /\ ticket'[t] = head
             /\ head' = Increment(head) /\ tail' = tail /\ slot' = slot
             /\ e \in Elements
             /\ \A u \in Threads \ {t} :
                  pc'[u] = pc[u] /\ ticket'[u] = ticket[u] /\ held'[u] = held[u]
<1>1. t \in Threads /\ consumer \in Threads /\ R \in Nat /\ D \in Nat
  BY HistoryLengths DEF OneReceiver, Threads, OInv
<1>2. Claims
  <2>1. ASSUME NEW x \in Fresh, PushReserve(t, x) PROVE Claims
    BY <1>1, <2>1 DEF PushReserve, Goto, Fresh, IInv, TypeOK
  <2>2. CASE TryPushReserve(t)
    BY <1>1, <2>2 DEF TryPushReserve, Goto, IInv, TypeOK, HeldWhilePushing
  <2> QED
    BY <2>1, <2>2 DEF Reserve
<1>3. /\ reserved' = Append(reserved, e) /\ delivered' = delivered
      /\ exceeded' = (exceeded \/ UnderWay + 1 > Size)
  BY DEF Reserve
<1>4. /\ reserved' \in Seq(Elements) /\ Len(reserved') = R + 1
      /\ \A k \in 1 .. R : reserved'[k] = reserved[k]
      /\ reserved'[R + 1] = e
  BY <1>2, <1>3 DEF OInv, OTypeOK
<1>5. OTypeOK'
  BY <1>3, <1>4 DEF OInv, OTypeOK
<1>6. OIndexes'
  <2>1. head' = TicketOf((R + 1) + 1)
    BY <1>1, <1>2, TicketNext DEF OInv, OIndexes
  <2>2. /\ pc'[consumer] = "pop" =>
             pc[consumer] = "pop" /\ ticket'[consumer] = ticket[consumer]
        /\ pc'[consumer] # "pop" => pc[consumer] # "pop"
    BY <1>1, <1>2
  <2> QED
    BY <1>2, <1>3, <1>4, <2>1, <2>2 DEF OInv, OIndexes
<1>7. ASSUME ~exceeded' PROVE OUnderWay'
  <2>1. ~exceeded /\ ~(UnderWay + 1 > Size)
    BY <1>3, <1>7
  <2>2. OUnderWay /\ UnderWay = R - D
    BY <2>1, HistoryLengths DEF OInv
  <2>3. R - D \in 0 .. Size /\ R - D + 1 <= Size /\ Size \in Nat
    BY <1>1, <2>1, <2>2, QueueAssumption DEF OUnderWay
  <2>4. UnderWay' \in 0 .. Size
    BY <1>1, <1>3, <1>4, <2>3 DEF UnderWay
  <2>5. \A j \in 1 .. D : delivered'[j] = reserved'[j]
    <3>1. \A j \in 1 .. D : j \in 1 .. R
      BY <1>1, <2>3
    <3> QED
      BY <1>3, <1>4, <2>2, <3>1 DEF OUnderWay
  <2>6. \A k \in D + 1 .. R : k \in D + 1 .. R + 1 /\ reserved'[k] = reserved[k]
    BY <1>1, <1>4
  <2>7. ASSUME NEW i \in Slots, slot'[i] # NIL
        PROVE  \E k \in D + 1 .. R + 1 :
                   i = SlotOf(TicketOf(k)) /\ slot'[i] = reserved'[k]
    BY <1>2, <2>2, <2>6, <2>7 DEF OUnderWay
  <2>8. ASSUME NEW u \in Threads, pc'[u] = "push"
        PROVE  \E k \in D + 1 .. R + 1 :
                   ticket'[u] = TicketOf(k) /\ held'[u] = reserved'[k]
    <3>1. CASE u = t
      <4>1. R + 1 \in D + 1 .. R + 1
        BY <1>1, <2>3
      <4>2. ticket'[u] = TicketOf(R + 1) /\ held'[u] = reserved'[R + 1]
        BY <1>2, <1>4, <3>1 DEF OInv, OIndexes
      <4> QED
        BY <4>1, <4>2
    <3>2. CASE u # t
      BY <1>2, <2>2, <2>6, <2>8, <3>2 DEF OUnderWay
    <3> QED
      BY <3>1, <3>2
  <2> QED
    BY <1>3, <1>4, <2>4, <2>5, <2>7, <2>8 DEF OUnderWay
<1> QED
  BY <1>5, <1>6, <1>7 DEF OInv

(* A store puts the element of a ticket into the slot of that ticket.      *)
LEMMA StoreOrder ==
    ASSUME OneReceiver, IInv, OInv, NEW t \in Threads, PushStore(t),
           UNCHANGED <<reserved, delivered, exceeded>>
    PROVE  OInv'
<1>1. /\ pc[t] = "push" /\ pc'[t] = "idle" /\ head' = head /\ tail' = tail
      /\ \A u \in Threads \ {t} :
           pc'[u] = pc[u] /\ ticket'[u] = ticket[u] /\ held'[u] = held[u]
      /\ \A i \in Slots : slot'[i] # slot[i] =>
           i = SlotOf(ticket[t]) /\ slot'[i] = held[t]
  BY SlotOfType DEF PushStore, Return, Goto, IInv, TypeOK
<1>2. consumer \in Threads
  BY DEF OneReceiver, Threads
<1>3. OTypeOK' /\ OIndexes'
  BY <1>1, <1>2 DEF OInv, OTypeOK, OIndexes
<1>4. ASSUME ~exceeded' PROVE OUnderWay'
  <2> DEFINE K == Len(delivered) + 1 .. Len(reserved)
  <2>1. OUnderWay
    BY <1>4 DEF OInv
  <2>2. ASSUME NEW i \in Slots, slot'[i] # NIL
        PROVE  \E k \in K : i = SlotOf(TicketOf(k)) /\ slot'[i] = reserved[k]
    <3>1. CASE slot'[i] = slot[i]
      BY <2>1, <2>2, <3>1 DEF OUnderWay
    <3>2. CASE slot'[i] # slot[i]
      <4>1. PICK k \in K : ticket[t] = TicketOf(k) /\ held[t] = reserved[k]
        BY <1>1, <2>1 DEF OUnderWay
      <4> QED
        BY <1>1, <3>2, <4>1
    <3> QED
      BY <3>1, <3>2
  <2>3. ASSUME NEW u \in Threads, pc'[u] = "push"
        PROVE  \E k \in K : ticket'[u] = TicketOf(k) /\ held'[u] = reserved[k]
    BY <1>1, <2>1, <2>3 DEF OUnderWay
  <2>4. UnderWay' = UnderWay
    BY DEF UnderWay
  <2> QED
    BY <2>1, <2>2, <2>3, <2>4 DEF OUnderWay
<1> QED
  BY <1>3, <1>4 DEF OInv

(* A ticket of the only consumer is that of the next element to deliver.   *)
LEMMA ClaimOrder ==
    ASSUME OneReceiver, IInv, OInv, PopReserve(consumer) \/ TryPopReserve(consumer),
           UNCHANGED <<reserved, delivered, exceeded>>
    PROVE  OInv'
<1>1. consumer \in Threads
  BY DEF OneReceiver, Threads
<1>2. /\ pc[consumer] \notin {"push", "pop"} /\ pc'[consumer] = "pop"
      /\ ticket'[consumer] = tail /\ tail' = Increment(tail)
      /\ head' = head /\ slot' = slot
      /\ \A u \in Threads \ {consumer} : pc'[u] = pc[u] /\ ticket'[u] = ticket[u]
      /\ held' = held
  BY <1>1 DEF PopReserve, TryPopReserve, Goto, IInv, TypeOK
<1>3. Len(delivered) + 1 \in Int /\ (Len(delivered) + 1) + 1 = Len(delivered) + 2
  BY HistoryLengths DEF OInv
<1>4. OTypeOK'
  BY DEF OInv, OTypeOK
<1>5. OIndexes'
  BY <1>2, <1>3, TicketNext DEF OInv, OIndexes
<1>6. ASSUME ~exceeded' PROVE OUnderWay'
  <2>1. OUnderWay
    BY <1>6 DEF OInv
  <2>2. \A u \in Threads : pc'[u] = "push" => pc[u] = "push" /\ ticket'[u] = ticket[u]
    BY <1>2
  <2> QED
    BY <1>2, <2>1, <2>2 DEF OUnderWay, UnderWay
<1> QED
  BY <1>4, <1>5, <1>6 DEF OInv

(* The only consumer takes the element of its own ticket: another element  *)
(* in its slot would be a lap ahead, with more than Size under way.        *)
LEMMA DeliverOrder ==
    ASSUME OneReceiver, IInv, OInv, Deliver(consumer)
    PROVE  OInv'
<1> DEFINE R == Len(reserved)
           D == Len(delivered)
           i == SlotOf(ticket[consumer])
           e == slot[i]
<1>1. /\ consumer \in Threads /\ R \in Nat /\ D \in Nat /\ i \in Slots
      /\ e \in Elements
  BY HistoryLengths, SlotOfType
     DEF OneReceiver, Threads, OInv, Deliver, PopTake, IInv, TypeOK
<1>2. /\ pc[consumer] = "pop" /\ pc'[consumer] = "idle" /\ e # NIL
      /\ head' = head /\ tail' = tail /\ held' = held
      /\ slot' = [slot EXCEPT ![i] = NIL]
      /\ \A u \in Threads \ {consumer} : pc'[u] = pc[u] /\ ticket'[u] = ticket[u]
      /\ reserved' = reserved /\ exceeded' = exceeded
      /\ delivered' = Append(delivered, e)
  BY <1>1 DEF Deliver, PopTake, Return, Goto, IInv, TypeOK
<1>3. /\ delivered' \in Seq(Elements) /\ Len(delivered') = D + 1
      /\ \A j \in 1 .. D : delivered'[j] = delivered[j]
      /\ delivered'[D + 1] = e
  BY <1>1, <1>2 DEF OInv, OTypeOK
<1>4. OTypeOK'
  BY <1>2, <1>3 DEF OInv, OTypeOK
<1>5. ticket[consumer] = TicketOf(D + 1) /\ tail = TicketOf(D + 2)
  BY <1>2 DEF OInv, OIndexes
<1>6. OIndexes'
  <2>1. (D + 1) + 1 = D + 2
    BY <1>1
  <2> QED
    BY <1>2, <1>3, <1>5, <2>1 DEF OInv, OIndexes
<1>7. ASSUME ~exceeded' PROVE OUnderWay'
  <2>1. OUnderWay /\ UnderWay = R - D
    BY <1>2, <1>7, HistoryLengths DEF OInv
  <2>2. R - D \in 0 .. Size /\ Size \in Nat
    BY <2>1, QueueAssumption DEF OUnderWay
  <2>3. D + 1 <= R /\ e = reserved[D + 1]
    <3>1. PICK k \in D + 1 .. R : i = SlotOf(TicketOf(k)) /\ e = reserved[k]
      BY <1>1, <1>2, <2>1 DEF OUnderWay
    <3>2. D + 1 \in Int /\ k \in D + 1 .. (D + 1) + Size - 1
      BY <1>1, <2>2
    <3>3. SlotOf(TicketOf(k)) = SlotOf(TicketOf(D + 1))
      BY <1>5, <3>1
    <3>4. k = D + 1
      BY <3>2, <3>3, TicketSlots
    <3> QED
      BY <1>1, <3>1, <3>4
  <2>4. UnderWay' \in 0 .. Size
    BY <1>1, <1>2, <1>3, <2>2, <2>3 DEF UnderWay
  <2>5. \A j \in 1 .. D + 1 : delivered'[j] = reserved[j]
    BY <1>1, <1>3, <2>1, <2>3 DEF OUnderWay
  <2>6. ASSUME NEW k \in D + 1 .. R, k # D + 1 PROVE k \in (D + 1) + 1 .. R
    BY <1>1, <2>6
  <2>7. ASSUME NEW s \in Slots, slot'[s] # NIL
        PROVE  \E k \in (D + 1) + 1 .. R :
                   s = SlotOf(TicketOf(k)) /\ slot'[s] = reserved[k]
    <3>1. s # i /\ slot'[s] = slot[s]
      BY <1>1, <1>2, <2>7 DEF IInv, TypeOK
    <3>2. PICK k \in D + 1 .. R : s = SlotOf(TicketOf(k)) /\ slot[s] = reserved[k]
      BY <2>1, <2>7, <3>1 DEF OUnderWay
    <3>3. k # D + 1
      BY <1>5, <3>1, <3>2
    <3> QED
      BY <2>6, <3>1, <3>2, <3>3
  <2>8. ASSUME NEW u \in Threads, pc'[u] = "push"
        PROVE  \E k \in (D + 1) + 1 .. R :
                   ticket'[u] = TicketOf(k) /\ held'[u] = reserved[k]
    <3>1. pc[u] = "push" /\ ticket'[u] = ticket[u] /\ held'[u] = held[u]
      BY <1>2, <2>8
    <3>2. PICK k \in D + 1 .. R : ticket[u] = TicketOf(k) /\ held[u] = reserved[k]
      BY <2>1, <3>1 DEF OUnderWay
    <3>3. k # D + 1
      BY <1>1, <1>2, <2>3, <3>2 DEF IInv, Conservation, NoneDuplicated
    <3> QED
      BY <2>6, <3>1, <3>2, <3>3
  <2> QED
    BY <1>2, <1>3, <2>4, <2>5, <2>7, <2>8 DEF OUnderWay
<1> QED
  BY <1>4, <1>6, <1>7 DEF OInv

(* Every step of the watched queue keeps the invariant.                    *)
LEMMA OrderStep ==
    ASSUME OneReceiver, IInv, OInv, [ONext]_ovars
    PROVE  OInv'
<1>1. consumer \in Threads /\ Consumers = {consumer} /\ Producers \subseteq Threads
  BY DEF OneReceiver, Threads
<1>2. ASSUME NEW t \in Producers, Reserve(t) PROVE OInv'
  BY <1>2, ReserveOrder
<1>3. ASSUME NEW t \in Producers, OtherProducerStep(t) PROVE OInv'
  <2>1. CASE PushStore(t)
    BY <1>1, <1>3, <2>1, StoreOrder DEF OtherProducerStep
  <2>2. CASE ~PushStore(t)
    <3>1. \/ \E e \in Fresh : TryPushLoad(t, e)
          \/ TryPushFull(t) \/ TryPushRoom(t) \/ TryPushRetry(t)
      BY <1>3, <2>2 DEF OtherProducerStep
    <3>2. OQuiet
      BY <1>1, <1>3, <3>1 DEF OtherProducerStep, TryPushLoad, TryPushFull, TryPushRoom,
                         TryPushRetry, Return, Goto, OQuiet, IInv, TypeOK
    <3> QED
      BY <3>2, OQuietStep
  <2> QED
    BY <2>1, <2>2
<1>4. ASSUME Deliver(consumer) PROVE OInv'
  BY <1>4, DeliverOrder
<1>5. ASSUME OtherConsumerStep(consumer) PROVE OInv'
  <2>1. CASE PopReserve(consumer) \/ TryPopReserve(consumer)
    BY <1>5, <2>1, ClaimOrder DEF OtherConsumerStep
  <2>2. CASE ~(PopReserve(consumer) \/ TryPopReserve(consumer))
    <3>1. \/ TryPopLoad(consumer) \/ TryPopEmpty(consumer)
          \/ TryPopSome(consumer) \/ TryPopRetry(consumer)
      BY <1>5, <2>2 DEF OtherConsumerStep
    <3>2. OQuiet
      BY <1>1, <1>5, <3>1 DEF OtherConsumerStep, TryPopLoad, TryPopEmpty, TryPopSome,
                         TryPopRetry, Return, Goto, OQuiet, IInv, TypeOK
    <3> QED
      BY <3>2, OQuietStep
  <2> QED
    BY <2>1, <2>2
<1>6. CASE UNCHANGED ovars
  <2>1. OQuiet
    BY <1>6 DEF ovars, OQuiet
  <2> QED
    BY <2>1, OQuietStep
<1> QED
  BY <1>1, <1>2, <1>3, <1>4, <1>5, <1>6 DEF ONext

(* The watched queue does what the queue does.                             *)
LEMMA WatchedStep ==
    ASSUME [ONext]_ovars
    PROVE  [Next]_vars
<1>1. ASSUME NEW t \in Producers, Reserve(t) \/ OtherProducerStep(t) PROVE ProducerStep(t)
  BY <1>1 DEF Reserve, OtherProducerStep, ProducerStep, Fresh
<1>2. ASSUME NEW t \in Consumers, Deliver(t) \/ OtherConsumerStep(t) PROVE ConsumerStep(t)
  BY <1>2 DEF Deliver, OtherConsumerStep, ConsumerStep
<1>3. CASE UNCHANGED ovars
  BY <1>3 DEF ovars, vars
<1> QED
  BY <1>1, <1>2, <1>3 DEF ONext, Next

(* What holds of the queue holds of the queue that QueueOrder watches.     *)
THEOREM WatchedQueueIsQueue == OSpec => Spec
<1>1. OInit => Init
  BY DEF OInit
<1>2. [ONext]_ovars => [Next]_vars
  BY WatchedStep
<1> QED
  BY <1>1, <1>2, PTL DEF OSpec, Spec

(* A single consumer receives the elements in the order of their tickets   *)
(* while at most m_size have been under way at once, whatever the number   *)
(* of producers and however long one of them stalls.                       *)
THEOREM DeliveredInTicketOrder ==
    ASSUME OneReceiver
    PROVE  OSpec => []FifoWithinCapacity
<1>1. OInit => OInv
  <2> SUFFICES ASSUME OInit PROVE OInv
    OBVIOUS
  <2>1. consumer \in Threads
    BY DEF OneReceiver, Threads
  <2>2. OTypeOK
    <3>1. reserved \in Seq(Elements) /\ delivered \in Seq(Elements)
      BY EmptySeq DEF OInit
    <3>2. exceeded \in BOOLEAN
      BY DEF OInit
    <3> QED
      BY <3>1, <3>2 DEF OTypeOK
  <2>3. Len(reserved) = 0 /\ Len(delivered) = 0
    BY DEF OInit
  <2>4. TicketOf(1) = Start
    <3>1. Start + 1 - 1 = Start /\ Start = Wrap * 0 + Start /\ Start \in 0 .. Wrap - 1
      BY QueueAssumption DEF Indexes
    <3> QED
      BY <3>1, QueueAssumption, DivUnique DEF TicketOf
  <2>5. OIndexes
    BY <2>1, <2>3, <2>4 DEF OInit, Init, OIndexes
  <2>6. OUnderWay
    BY <2>3, QueueAssumption DEF OInit, Init, OUnderWay, UnderWay
  <2> QED
    BY <2>2, <2>5, <2>6 DEF OInv
<1>2. IInv /\ OInv /\ [ONext]_ovars => OInv'
  BY OrderStep
<1>3. OInv => FifoWithinCapacity
  <2> SUFFICES ASSUME OInv, ~exceeded PROVE IsPrefix(delivered, reserved)
    BY DEF FifoWithinCapacity
  <2> DEFINE R == Len(reserved)
             D == Len(delivered)
  <2>1. OUnderWay /\ R \in Nat /\ D \in Nat /\ UnderWay = R - D
    BY HistoryLengths DEF OInv
  <2>2. D <= R
    BY <2>1, QueueAssumption DEF OUnderWay
  <2>3. delivered \in Seq(Elements) /\ reserved \in Seq(Elements)
    BY DEF OInv, OTypeOK
  <2>4. /\ \A j \in 1 .. D : delivered[j] \in Elements
        /\ \A j \in 1 .. D : reserved[j] \in Elements
        /\ \A j \in 1 .. D : delivered[j] = reserved[j]
    BY <2>1, <2>2, <2>3 DEF OUnderWay
  <2> DEFINE a == SubSeq(delivered, 1, D)
             b == SubSeq(reserved, 1, D)
  <2>5. /\ a \in Seq(Elements) /\ Len(a) = D
        /\ \A j \in 1 .. D : a[j] = delivered[j]
    BY <2>1, <2>3
  <2>6. /\ b \in Seq(Elements) /\ Len(b) = D
        /\ \A j \in 1 .. D : b[j] = reserved[j]
    BY <2>1, <2>2, <2>3
  <2>7. a = b
    <3> HIDE DEF a, b
    <3> QED
      BY <2>4, <2>5, <2>6, SeqEqual
  <2> QED
    BY <2>2, <2>7 DEF IsPrefix
<1> QED
  BY <1>1, <1>2, <1>3, WatchedQueueIsQueue, InductiveInvariant, PTL DEF OSpec
=============================================================================
