--------------------------- MODULE Mailbox_proofs ----------------------------
(***************************************************************************)
(* Proofs about Mailbox for every number of senders, messages and slots.   *)
(* The queue's part of each step is a step of LockFreeQueue, whose         *)
(* invariants and lemmas are used as they stand.                           *)
(***************************************************************************)
EXTENDS Mailbox, LockFreeQueue_proofs

Stages == {"idle", "push", "receive", "tryReceive", "drain", "drainPop"}

\* The senders that have seen the mailbox active and have no ticket yet.
Waiting == {t \in Threads : arg[t] # NIL}

\* What the queue holds or is about to hold, also with those senders, and
\* what empty() makes of a head it has read.
Queued == Cardinality(Stored) + Cardinality(Pushing)
Coming == Queued + Cardinality(Waiting)
HeadRead == SignedDiff(ticket[Owner], tail)

(* Every variable of the mailbox has its type.                             *)
MTypeOK ==
    /\ active \in BOOLEAN
    /\ stage \in [Threads -> Stages]
    /\ arg \in [Threads -> Elements \cup {NIL}]
    /\ freed \in SUBSET Elements
    /\ inbox \in SUBSET Elements
    /\ leaked \in SUBSET Elements

(* A sender has its message as the argument of send or of push, and no     *)
(* message otherwise.                                                      *)
SenderOK ==
    \A t \in Producers :
        /\ stage[t] \in {"idle", "push"}
        /\ stage[t] = "idle" => pc[t] = "idle" /\ arg[t] = NIL
        /\ stage[t] = "push" =>
              \/ pc[t] = "idle" /\ arg[t] # NIL
              \/ pc[t] = "push" /\ arg[t] = NIL

(* Where the owner's operations are inside those of the queue; only a      *)
(* deactivated mailbox is drained.                                         *)
OwnerOK ==
    /\ arg[Owner] = NIL
    /\ stage[Owner] # "push"
    /\ stage[Owner] = "idle" => pc[Owner] = "idle"
    /\ stage[Owner] = "receive" => active /\ pc[Owner] \in {"idle", "pop"}
    /\ stage[Owner] = "tryReceive" =>
          active /\ pc[Owner] \in {"idle", "tryPop", "tryPopCas", "pop"}
    /\ stage[Owner] = "drain" => ~active /\ pc[Owner] \in {"idle", "sizeTail", "sizeHead"}
    /\ stage[Owner] = "drainPop" =>
          ~active /\ pc[Owner] \in {"idle", "tryPop", "tryPopCas", "pop"}

(* The memory that is free, received, leaked or about to be sent is with   *)
(* the callers of the queue, and each piece is in one of these states.     *)
Apart ==
    /\ freed \cup inbox \cup leaked \subseteq outside
    /\ freed \cap inbox = {} /\ freed \cap leaked = {} /\ inbox \cap leaked = {}
    /\ \A t \in Threads : arg[t] # NIL =>
          /\ arg[t] \in outside \ (freed \cup inbox \cup leaked)
          /\ \A u \in Threads : arg[u] = arg[t] => u = t

(* What the two loads of empty() tell the drain, however many senders push *)
(* in between.  A head that was read can only be too small by the senders  *)
(* that were on their way; no sender sets out any more.                    *)
DrainOK ==
    /\ ~active /\ stage[Owner] = "idle" => Coming <= Cardinality(Producers)
    /\ stage[Owner] = "drain" /\ pc[Owner] = "sizeTail" =>
          Coming <= HeadRead + Cardinality(Producers) /\ HeadRead <= Queued
    /\ stage[Owner] = "drain" /\ pc[Owner] = "sizeHead" => ticket[Owner] = tail
    /\ stage[Owner] = "drainPop" /\ pc[Owner] # "pop" => Queued >= 1
    /\ stage[Owner] = "drainPop" /\ pc[Owner] \in {"tryPop", "tryPopCas"} =>
          ticket[Owner] = tail

(* The inductive invariant, on top of that of the queue.  Exclusive        *)
(* ownership needs Apart, because Conservation of the queue speaks of      *)
(* "outside" as a whole; Apart needs SenderOK, for a message must leave    *)
(* the hand before it enters the queue.  The bound on what is left in a    *)
(* deactivated mailbox needs DrainOK, and that the balance of the queue.   *)
MInv == MTypeOK /\ SenderOK /\ OwnerOK /\ Apart /\ DrainOK

-----------------------------------------------------------------------------
(* The owner is a thread, the only consumer and no producer.               *)
LEMMA OwnerFacts ==
    /\ Owner \in Threads /\ Owner \notin Producers
    /\ \A t \in Threads : t # Owner => t \in Producers
    /\ \A t \in Consumers : t = Owner
    /\ Producers \subseteq Threads
BY MailboxAssumption DEF Threads

(* The steps of the mailbox that leave the queue alone.                    *)
Local ==
    \/ \E e \in Elements : Allocate(e) \/ Deallocate(e)
    \/ \E t \in Producers, e \in Elements : SendSeesActive(t, e) \/ SendSeesInactive(t, e)
    \/ \E mode \in {"receive", "tryReceive"} : ReceiveBegin(Owner, mode)
    \/ Activate(Owner)
    \/ Deactivate(Owner)

(* The others, each around one step of the queue.                          *)
Around ==
    \/ \E t \in Producers : SendReserve(t) \/ SendStore(t)
    \/ ReceiveStep(Owner)
    \/ DrainStep(Owner)

(* Every step is one or the other.                                         *)
LEMMA TwoKinds == MNext => Local \/ Around
BY OwnerFacts DEF MNext, SenderStep, OwnerStep, Local, Around

(* A step around the queue is a step of the queue.                         *)
LEMMA AroundIsRoleStep ==
    ASSUME MTypeOK, Around
    PROVE  \E t \in Threads : RoleStep(t)
<1>1. ASSUME NEW t \in Producers, SendReserve(t) PROVE \E u \in Threads : RoleStep(u)
  <2>1. arg[t] \in Elements /\ PushReserve(t, arg[t])
    BY <1>1, OwnerFacts DEF SendReserve, MTypeOK
  <2> QED
    BY <2>1, OwnerFacts DEF RoleStep, ProducerStep
<1>2. ASSUME NEW t \in Producers, SendStore(t) PROVE \E u \in Threads : RoleStep(u)
  BY <1>2, OwnerFacts DEF SendStore, RoleStep, ProducerStep
<1>3. Owner \in Consumers
  BY MailboxAssumption
<1>4. ASSUME ReceiveStep(Owner) PROVE ConsumerStep(Owner)
  BY <1>4 DEF ReceiveStep, ReceiveReserve, ReceiveTry, ReceiveNothing, ReceiveTake,
              TryPopStep, ConsumerStep
<1>5. ASSUME DrainStep(Owner) PROVE ConsumerStep(Owner) \/ ObserverStep(Owner)
  BY <1>5 DEF DrainStep, DrainLoad, DrainEnd, DrainMore, DrainTry, DrainTake,
              TryPopStep, ConsumerStep, ObserverStep
<1> QED
  BY <1>1, <1>2, <1>3, <1>4, <1>5, OwnerFacts DEF Around, RoleStep

(* A step of a thread in its role is a step of a thread.                   *)
LEMMA RoleIsThreadStep == \A t : RoleStep(t) => ThreadStep(t)
BY DEF RoleStep, ProducerStep, ConsumerStep, ObserverStep, ThreadStep

(* The queue's invariants hold in the mailbox, whatever the owner does.    *)
LEMMA QueueStep ==
    ASSUME IInv, BInv, MTypeOK, [MNext]_mvars
    PROVE  IInv' /\ BInv'
<1>1. CASE UNCHANGED vars
  <2>1. IInv'
    BY <1>1 DEF vars, IInv, TypeOK, HeldWhilePushing, Conservation, NoneLost,
           NoneDuplicated
  <2> QED
    BY <1>1, <2>1, BInvStutter
<1>2. CASE \E t \in Threads : RoleStep(t)
  <2>1. PICK t \in Threads : RoleStep(t)
    BY <1>2
  <2>2. ThreadStep(t)
    BY <2>1, RoleIsThreadStep
  <2>3. TypeOK'
    BY <2>2, TypeStep DEF IInv
  <2>4. HeldWhilePushing'
    BY <2>2, HeldStep DEF IInv
  <2>5. Conservation'
    BY <2>2, ConservationStep DEF IInv
  <2>6. BInv'
    BY <2>1, <2>3, BInvStep DEF IInv
  <2> QED
    BY <2>3, <2>4, <2>5, <2>6 DEF IInv
<1>3. CASE Local
  BY <1>1, <1>3 DEF Local, Allocate, Deallocate, SendSeesActive, SendSeesInactive,
                    ReceiveBegin, Activate, Deactivate
<1>4. CASE UNCHANGED mvars
  BY <1>1, <1>4 DEF mvars, vars
<1> QED
  BY <1>2, <1>3, <1>4, TwoKinds, AroundIsRoleStep

-----------------------------------------------------------------------------
(* What a pop takes is a message from a slot, not one with the callers.    *)
LEMMA TakenIsMessage ==
    ASSUME IInv, NEW t \in Threads, PopTake(t)
    PROVE  /\ slot[SlotOf(ticket[t])] \in Elements
           /\ slot[SlotOf(ticket[t])] \notin outside
           /\ outside' = outside \cup {slot[SlotOf(ticket[t])]}
<1>1. SlotOf(ticket[t]) \in Slots
  BY SlotOfType DEF IInv, TypeOK
<1> QED
  BY <1>1 DEF IInv, TypeOK, PopTake, Conservation, NoneDuplicated

(* Every step keeps the types.                                             *)
LEMMA MTypeStep ==
    ASSUME IInv, MTypeOK, MNext
    PROVE  MTypeOK'
<1> USE OwnerFacts DEF MTypeOK, Enter, Stages, memory
<1>1. ASSUME NEW e \in Elements, Allocate(e) PROVE MTypeOK'
  BY <1>1 DEF Allocate
<1>2. ASSUME NEW e \in Elements, Deallocate(e) PROVE MTypeOK'
  BY <1>2 DEF Deallocate
<1>3. ASSUME NEW t \in Producers, NEW e \in Elements, SendSeesActive(t, e) PROVE MTypeOK'
  BY <1>3 DEF SendSeesActive
<1>4. ASSUME NEW t \in Producers, NEW e \in Elements, SendSeesInactive(t, e)
      PROVE  MTypeOK'
  BY <1>4 DEF SendSeesInactive
<1>5. ASSUME NEW mode \in {"receive", "tryReceive"}, ReceiveBegin(Owner, mode)
      PROVE  MTypeOK'
  BY <1>5 DEF ReceiveBegin
<1>6. ASSUME Activate(Owner) PROVE MTypeOK'
  BY <1>6 DEF Activate
<1>7. ASSUME Deactivate(Owner) PROVE MTypeOK'
  BY <1>7 DEF Deactivate
<1>8. ASSUME NEW t \in Producers, SendReserve(t) PROVE MTypeOK'
  BY <1>8 DEF SendReserve
<1>9. ASSUME NEW t \in Producers, SendStore(t) PROVE MTypeOK'
  BY <1>9 DEF SendStore
<1>10. ASSUME ReceiveReserve(Owner) PROVE MTypeOK'
  BY <1>10 DEF ReceiveReserve
<1>11. ASSUME ReceiveTry(Owner) PROVE MTypeOK'
  BY <1>11
  DEF ReceiveTry
<1>12. ASSUME ReceiveNothing(Owner) PROVE MTypeOK'
  BY <1>12 DEF ReceiveNothing, TryPopEmpty
<1>13. ASSUME ReceiveTake(Owner) PROVE MTypeOK'
  <2>1. slot[SlotOf(ticket[Owner])] \in Elements
    BY <1>13, TakenIsMessage DEF ReceiveTake
  <2> QED
    BY <1>13, <2>1 DEF ReceiveTake
<1>14. ASSUME DrainLoad(Owner) PROVE MTypeOK'
  BY <1>14 DEF DrainLoad, SizeLoadHead, SizeLoadTail
<1>15. ASSUME DrainEnd(Owner) PROVE MTypeOK'
  BY <1>15 DEF DrainEnd, SizeReturn
<1>16. ASSUME DrainMore(Owner) PROVE MTypeOK'
  BY <1>16 DEF DrainMore, SizeReturn
<1>17. ASSUME DrainTry(Owner) PROVE MTypeOK'
  BY <1>17
  DEF DrainTry
<1>18. ASSUME DrainTake(Owner) PROVE MTypeOK'
  <2>1. slot[SlotOf(ticket[Owner])] \in Elements
    BY <1>18, TakenIsMessage DEF DrainTake
  <2> QED
    BY <1>18, <2>1 DEF DrainTake
<1> QED
  BY <1>1, <1>2, <1>3, <1>4, <1>5, <1>6, <1>7, <1>8, <1>9,
     <1>10, <1>11, <1>12, <1>13, <1>14, <1>15, <1>16, <1>17, <1>18,
     TwoKinds
  DEF Local, Around, ReceiveStep, DrainStep

(* Every step keeps each sender's message and program counter together.    *)
LEMMA SenderStepOK ==
    ASSUME IInv, MTypeOK, SenderOK, OwnerOK, MNext
    PROVE  SenderOK'
<1> USE OwnerFacts, QueueAssumption
    DEF IInv, TypeOK, MTypeOK, SenderOK, Enter, memory, vars, Goto, Return
<1>1. ASSUME NEW e \in Elements, Allocate(e) PROVE SenderOK'
  BY <1>1 DEF Allocate
<1>2. ASSUME NEW e \in Elements, Deallocate(e) PROVE SenderOK'
  BY <1>2 DEF Deallocate
<1>3. ASSUME NEW t \in Producers, NEW e \in Elements, SendSeesActive(t, e) PROVE SenderOK'
  BY <1>3 DEF SendSeesActive
<1>4. ASSUME NEW t \in Producers, NEW e \in Elements, SendSeesInactive(t, e)
      PROVE  SenderOK'
  BY <1>4 DEF SendSeesInactive
<1>5. ASSUME NEW mode \in {"receive", "tryReceive"}, ReceiveBegin(Owner, mode)
      PROVE  SenderOK'
  BY <1>5 DEF ReceiveBegin
<1>6. ASSUME Activate(Owner) PROVE SenderOK'
  BY <1>6 DEF Activate
<1>7. ASSUME Deactivate(Owner) PROVE SenderOK'
  BY <1>7 DEF Deactivate
<1>8. ASSUME NEW t \in Producers, SendReserve(t) PROVE SenderOK'
  BY <1>8 DEF SendReserve, PushReserve
<1>9. ASSUME NEW t \in Producers, SendStore(t) PROVE SenderOK'
  BY <1>9 DEF SendStore, PushStore
<1>10. ASSUME ReceiveReserve(Owner) PROVE SenderOK'
  BY <1>10 DEF ReceiveReserve, PopReserve
<1>11. ASSUME ReceiveTry(Owner) PROVE SenderOK'
  BY <1>11
  DEF ReceiveTry, TryPopStep, TryPopLoad, TryPopSome, TryPopReserve, TryPopRetry
<1>12. ASSUME ReceiveNothing(Owner) PROVE SenderOK'
  BY <1>12 DEF ReceiveNothing, TryPopEmpty
<1>13. ASSUME ReceiveTake(Owner) PROVE SenderOK'
  BY <1>13 DEF ReceiveTake, PopTake
<1>14. ASSUME DrainLoad(Owner) PROVE SenderOK'
  BY <1>14 DEF DrainLoad, SizeLoadHead, SizeLoadTail
<1>15. ASSUME DrainEnd(Owner) PROVE SenderOK'
  BY <1>15 DEF DrainEnd, SizeReturn
<1>16. ASSUME DrainMore(Owner) PROVE SenderOK'
  BY <1>16 DEF DrainMore, SizeReturn
<1>17. ASSUME DrainTry(Owner) PROVE SenderOK'
  BY <1>17
  DEF DrainTry, TryPopStep, TryPopLoad, TryPopSome, TryPopReserve, TryPopRetry
<1>18. ASSUME DrainTake(Owner) PROVE SenderOK'
  BY <1>18 DEF DrainTake, PopTake
<1> QED
  BY <1>1, <1>2, <1>3, <1>4, <1>5, <1>6, <1>7, <1>8, <1>9,
     <1>10, <1>11, <1>12, <1>13, <1>14, <1>15, <1>16, <1>17, <1>18,
     TwoKinds
  DEF Local, Around, ReceiveStep, DrainStep

(* Every step keeps the owner's operations and those of the queue in step. *)
LEMMA OwnerStepOK ==
    ASSUME IInv, MTypeOK, OwnerOK, MNext
    PROVE  OwnerOK'
<1> USE OwnerFacts, QueueAssumption
    DEF IInv, TypeOK, MTypeOK, OwnerOK, Enter, memory, vars, Goto, Return
<1>1. ASSUME NEW e \in Elements, Allocate(e) PROVE OwnerOK'
  BY <1>1 DEF Allocate
<1>2. ASSUME NEW e \in Elements, Deallocate(e) PROVE OwnerOK'
  BY <1>2 DEF Deallocate
<1>3. ASSUME NEW t \in Producers, NEW e \in Elements, SendSeesActive(t, e) PROVE OwnerOK'
  BY <1>3 DEF SendSeesActive
<1>4. ASSUME NEW t \in Producers, NEW e \in Elements, SendSeesInactive(t, e)
      PROVE  OwnerOK'
  BY <1>4 DEF SendSeesInactive
<1>5. ASSUME NEW mode \in {"receive", "tryReceive"}, ReceiveBegin(Owner, mode)
      PROVE  OwnerOK'
  BY <1>5 DEF ReceiveBegin
<1>6. ASSUME Activate(Owner) PROVE OwnerOK'
  BY <1>6 DEF Activate
<1>7. ASSUME Deactivate(Owner) PROVE OwnerOK'
  BY <1>7 DEF Deactivate
<1>8. ASSUME NEW t \in Producers, SendReserve(t) PROVE OwnerOK'
  BY <1>8 DEF SendReserve, PushReserve
<1>9. ASSUME NEW t \in Producers, SendStore(t) PROVE OwnerOK'
  BY <1>9 DEF SendStore, PushStore
<1>10. ASSUME ReceiveReserve(Owner) PROVE OwnerOK'
  BY <1>10 DEF ReceiveReserve, PopReserve
<1>11. ASSUME ReceiveTry(Owner) PROVE OwnerOK'
  BY <1>11
  DEF ReceiveTry, TryPopStep, TryPopLoad, TryPopSome, TryPopReserve, TryPopRetry
<1>12. ASSUME ReceiveNothing(Owner) PROVE OwnerOK'
  BY <1>12 DEF ReceiveNothing, TryPopEmpty
<1>13. ASSUME ReceiveTake(Owner) PROVE OwnerOK'
  BY <1>13 DEF ReceiveTake, PopTake
<1>14. ASSUME DrainLoad(Owner) PROVE OwnerOK'
  BY <1>14 DEF DrainLoad, SizeLoadHead, SizeLoadTail
<1>15. ASSUME DrainEnd(Owner) PROVE OwnerOK'
  BY <1>15 DEF DrainEnd, SizeReturn
<1>16. ASSUME DrainMore(Owner) PROVE OwnerOK'
  BY <1>16 DEF DrainMore, SizeReturn
<1>17. ASSUME DrainTry(Owner) PROVE OwnerOK'
  BY <1>17
  DEF DrainTry, TryPopStep, TryPopLoad, TryPopSome, TryPopReserve, TryPopRetry
<1>18. ASSUME DrainTake(Owner) PROVE OwnerOK'
  BY <1>18 DEF DrainTake, PopTake
<1> QED
  BY <1>1, <1>2, <1>3, <1>4, <1>5, <1>6, <1>7, <1>8, <1>9,
     <1>10, <1>11, <1>12, <1>13, <1>14, <1>15, <1>16, <1>17, <1>18,
     TwoKinds
  DEF Local, Around, ReceiveStep, DrainStep

(* Every step moves a message's memory from one state to one other: an     *)
(* allocation from the free ones, a send from the allocated ones, a        *)
(* receive and the drain from the queue.                                   *)
LEMMA ApartStep ==
    ASSUME IInv, MTypeOK, SenderOK, OwnerOK, Apart, MNext
    PROVE  Apart'
<1> USE OwnerFacts, QueueAssumption
    DEF MTypeOK, SenderOK, Apart, Unsent, Enter, memory, vars, Goto, Return
<1>1. ASSUME NEW e \in Elements, Allocate(e) PROVE Apart'
  BY <1>1 DEF Allocate
<1>2. ASSUME NEW e \in Elements, Deallocate(e) PROVE Apart'
  BY <1>2 DEF Deallocate
<1>3. ASSUME NEW t \in Producers, NEW e \in Elements, SendSeesActive(t, e) PROVE Apart'
  BY <1>3 DEF SendSeesActive
<1>4. ASSUME NEW t \in Producers, NEW e \in Elements, SendSeesInactive(t, e) PROVE Apart'
  BY <1>4 DEF SendSeesInactive
<1>5. ASSUME NEW mode \in {"receive", "tryReceive"}, ReceiveBegin(Owner, mode)
      PROVE  Apart'
  BY <1>5 DEF ReceiveBegin
<1>6. ASSUME Activate(Owner) PROVE Apart'
  BY <1>6 DEF Activate
<1>7. ASSUME Deactivate(Owner) PROVE Apart'
  BY <1>7 DEF Deactivate
<1>8. ASSUME NEW t \in Producers, SendReserve(t) PROVE Apart'
  BY <1>8 DEF SendReserve, PushReserve
<1>9. ASSUME NEW t \in Producers, SendStore(t) PROVE Apart'
  BY <1>9 DEF SendStore, PushStore
<1>10. ASSUME ReceiveReserve(Owner) PROVE Apart'
  BY <1>10 DEF ReceiveReserve, PopReserve
<1>11. ASSUME ReceiveTry(Owner) PROVE Apart'
  BY <1>11
  DEF ReceiveTry, TryPopStep, TryPopLoad, TryPopSome, TryPopReserve, TryPopRetry
<1>12. ASSUME ReceiveNothing(Owner) PROVE Apart'
  BY <1>12 DEF ReceiveNothing, TryPopEmpty
<1>13. ASSUME ReceiveTake(Owner) PROVE Apart'
  <2>1. PopTake(Owner)
    BY <1>13 DEF ReceiveTake
  <2>2. /\ slot[SlotOf(ticket[Owner])] \in Elements
        /\ slot[SlotOf(ticket[Owner])] \notin outside
        /\ outside' = outside \cup {slot[SlotOf(ticket[Owner])]}
    BY <2>1, TakenIsMessage
  <2> QED
    BY <1>13, <2>2 DEF ReceiveTake
<1>14. ASSUME DrainLoad(Owner) PROVE Apart'
  BY <1>14 DEF DrainLoad, SizeLoadHead, SizeLoadTail
<1>15. ASSUME DrainEnd(Owner) PROVE Apart'
  BY <1>15 DEF DrainEnd, SizeReturn
<1>16. ASSUME DrainMore(Owner) PROVE Apart'
  BY <1>16 DEF DrainMore, SizeReturn
<1>17. ASSUME DrainTry(Owner) PROVE Apart'
  BY <1>17
  DEF DrainTry, TryPopStep, TryPopLoad, TryPopSome, TryPopReserve, TryPopRetry
<1>18. ASSUME DrainTake(Owner) PROVE Apart'
  <2>1. PopTake(Owner)
    BY <1>18 DEF DrainTake
  <2>2. /\ slot[SlotOf(ticket[Owner])] \in Elements
        /\ slot[SlotOf(ticket[Owner])] \notin outside
        /\ outside' = outside \cup {slot[SlotOf(ticket[Owner])]}
    BY <2>1, TakenIsMessage
  <2> QED
    BY <1>18, <2>2 DEF DrainTake
<1> QED
  BY <1>1, <1>2, <1>3, <1>4, <1>5, <1>6, <1>7, <1>8, <1>9,
     <1>10, <1>11, <1>12, <1>13, <1>14, <1>15, <1>16, <1>17, <1>18,
     TwoKinds
  DEF Local, Around, ReceiveStep, DrainStep

-----------------------------------------------------------------------------
(* The counts of DrainOK exist.                                            *)
LEMMA DrainCounts ==
    ASSUME IInv, BInv, OwnerOK
    PROVE  /\ Cardinality(Stored) \in Nat /\ Cardinality(Pushing) \in Nat
           /\ IsFiniteSet(Waiting) /\ Cardinality(Waiting) \in Nat
           /\ Cardinality(Waiting) <= Cardinality(Producers)
           /\ Cardinality(Producers) \in Nat /\ Queued \in Nat /\ Coming \in Nat
           /\ HeadRead \in Int
<1>1. Waiting \subseteq Producers
  BY OwnerFacts DEF Waiting, OwnerOK
<1>2. IsFiniteSet(Waiting) /\ Cardinality(Waiting) <= Cardinality(Producers)
  BY <1>1, WidthAssumption, FS_Subset
<1>3. Cardinality(Waiting) \in Nat /\ Cardinality(Producers) \in Nat
  BY <1>2, WidthAssumption, FS_CardinalityType
<1>4. Cardinality(Stored) \in Nat /\ Cardinality(Pushing) \in Nat
  BY Counts, <1>3 DEF BInv
<1>5. ticket[Owner] \in Indexes /\ tail \in Indexes
  BY OwnerFacts DEF IInv, TypeOK
<1>6. HeadRead \in Int
  BY <1>5, SignedDiffValue DEF HeadRead
<1> QED
  BY <1>2, <1>3, <1>4, <1>6 DEF Queued, Coming

(* A sender's step in the queue adds nothing to what is queued or coming,  *)
(* and takes nothing from what is queued.                                  *)
LEMMA SenderCounts ==
    ASSUME IInv, BInv, TypeOK', MTypeOK, OwnerOK,
           NEW t \in Producers, SendReserve(t) \/ SendStore(t)
    PROVE  Queued' \in Int /\ Queued' >= Queued /\ Coming' = Coming
<1>0. t \in Threads
  BY OwnerFacts
<1>1. /\ Cardinality(Stored) \in Nat /\ Cardinality(Pushing) \in Nat
      /\ IsFiniteSet(Waiting) /\ Cardinality(Waiting) \in Nat
  BY DrainCounts
<1>2. CASE SendReserve(t)
  <2>1. PushReserve(t, arg[t]) /\ arg[t] # NIL /\ arg' = [arg EXCEPT ![t] = NIL]
    BY <1>0, <1>2 DEF SendReserve
  <2>2. ClaimPush(t) /\ Alone(t)
    BY <1>0, <2>1 DEF PushReserve, ClaimPush, Alone, Goto, IInv, TypeOK
  <2>3. Cardinality(Pushing') = Cardinality(Pushing) + 1 /\ Stored' = Stored
    BY <1>0, <2>2, CountStep DEF TicketStep, IInv, BInv
  <2>4. t \in Waiting /\ Waiting' = Waiting \ {t}
    BY <1>0, <2>1 DEF Waiting, MTypeOK
  <2>5. Cardinality(Waiting') = Cardinality(Waiting) - 1
    BY <1>1, <2>4, FS_RemoveElement
  <2> QED
    BY <1>1, <2>3, <2>5 DEF Queued, Coming
<1>3. CASE SendStore(t)
  <2>1. PushStore(t) /\ arg' = arg
    BY <1>3 DEF SendStore
  <2>2. UsePush(t) /\ Alone(t)
    <3>1. held[t] \in Elements
      BY <1>0, <2>1 DEF PushStore, IInv, TypeOK, HeldWhilePushing
    <3> QED
      BY <1>0, <2>1, <3>1 DEF PushStore, UsePush, Alone, Goto, Return, IInv, TypeOK
  <2>3. /\ Cardinality(Pushing') = Cardinality(Pushing) - 1
        /\ Cardinality(Stored') = Cardinality(Stored) + 1
    BY <1>0, <2>2, CountStep DEF TicketStep, IInv, BInv
  <2>4. Waiting' = Waiting
    BY <2>1 DEF Waiting
  <2> QED
    BY <1>1, <2>3, <2>4 DEF Queued, Coming
<1> QED
  BY <1>2, <1>3

(* While the owner only looks, the distance of the indexes is what is      *)
(* queued: nobody else takes a ticket at the tail.                         *)
LEMMA OwnerLooks ==
    ASSUME BInv, pc[Owner] # "pop"
    PROVE  SignedDiff(head, tail) = Queued
<1>1. Popping = {}
  BY OwnerFacts DEF BInv, Roles, Popping
<1>2. Cardinality(Popping) = 0
  BY <1>1, FS_EmptySet
<1>3. Cardinality(Stored) \in Int /\ Cardinality(Pushing) \in Int
  BY Counts DEF BInv
<1> QED
  BY <1>2, <1>3 DEF BInv, IndexBalance, Queued

(* A step of the owner that moves no element changes no count.             *)
LEMMA LookCounts ==
    ASSUME IInv, NEW l, l # "push", pc' = [pc EXCEPT ![Owner] = l],
           pc[Owner] # "push", slot' = slot, arg' = arg
    PROVE  Queued' = Queued /\ Coming' = Coming
<1>1. Pushing' = Pushing
  BY DEF IInv, TypeOK, Pushing
<1>2. Stored' = Stored /\ Waiting' = Waiting
  BY DEF Stored, Waiting
<1> QED
  BY <1>1, <1>2 DEF Queued, Coming

(* Every step keeps what the drain knows.                                  *)
LEMMA DrainOKStep ==
    ASSUME IInv, BInv, IInv', MTypeOK, OwnerOK, OwnerOK', DrainOK, MNext
    PROVE  DrainOK'
<1>0. /\ Queued \in Nat /\ Coming \in Nat /\ HeadRead \in Int
      /\ Cardinality(Producers) \in Nat /\ Cardinality(Waiting) \in Nat
      /\ Cardinality(Waiting) <= Cardinality(Producers)
      /\ Coming = Queued + Cardinality(Waiting)
  BY DrainCounts DEF Coming
<1>1. CASE active'
  BY <1>1 DEF OwnerOK, DrainOK
<1>2. ASSUME UNCHANGED <<vars, arg, stage, active>> PROVE DrainOK'
  <2>1. Queued' = Queued /\ Coming' = Coming /\ HeadRead' = HeadRead
    BY <1>2 DEF vars, Stored, Pushing, Waiting, Queued, Coming, HeadRead
  <2> QED
    BY <1>2, <2>1 DEF vars, DrainOK
<1>3. ASSUME Deactivate(Owner) PROVE DrainOK'
  <2>1. stage'[Owner] = "drain" /\ pc'[Owner] = "idle"
    BY <1>3, OwnerFacts DEF Deactivate, Enter, MTypeOK, vars, OwnerOK
  <2> QED
    BY <2>1 DEF DrainOK
<1>4. ASSUME NEW t \in Producers, SendReserve(t) \/ SendStore(t) PROVE DrainOK'
  <2>1. Queued' \in Int /\ Queued' >= Queued /\ Coming' = Coming
    BY <1>4, SenderCounts DEF IInv
  <2>2. /\ stage'[Owner] = stage[Owner] /\ active' = active /\ tail' = tail
        /\ pc'[Owner] = pc[Owner] /\ ticket'[Owner] = ticket[Owner]
    BY <1>4, OwnerFacts
    DEF SendReserve, SendStore, PushReserve, PushStore, Enter, Goto, Return,
        MTypeOK, IInv, TypeOK
  <2>3. HeadRead' = HeadRead
    BY <2>2 DEF HeadRead
  <2> QED
    BY <1>0, <2>1, <2>2, <2>3 DEF DrainOK
<1>5. ASSUME DrainLoad(Owner) PROVE DrainOK'
  <2>1. /\ stage[Owner] = "drain" /\ stage' = stage /\ pc[Owner] = "idle"
        /\ slot' = slot /\ arg' = arg /\ tail' = tail
    BY <1>5 DEF DrainLoad, SizeLoadHead, SizeLoadTail
  <2>2. SignedDiff(head, tail) = Queued
    BY <2>1, OwnerLooks
  <2>3. CASE SizeLoadHead(Owner)
    <3>1. pc' = [pc EXCEPT ![Owner] = "sizeTail"] /\ ticket'[Owner] = head
      BY <2>3, OwnerFacts DEF SizeLoadHead, Goto, IInv, TypeOK
    <3>2. Queued' = Queued /\ Coming' = Coming
      BY <2>1, <3>1, LookCounts
    <3>3. HeadRead' = Queued
      BY <2>1, <2>2, <3>1 DEF HeadRead
    <3>4. pc'[Owner] = "sizeTail"
      BY <3>1, OwnerFacts DEF IInv, TypeOK
    <3> QED
      BY <1>0, <2>1, <3>2, <3>3, <3>4 DEF DrainOK
  <2>4. CASE SizeLoadTail(Owner)
    <3>1. pc'[Owner] = "sizeHead" /\ ticket'[Owner] = tail
      BY <2>4, OwnerFacts DEF SizeLoadTail, Goto, IInv, TypeOK
    <3> QED
      BY <2>1, <3>1 DEF DrainOK
  <2> QED
    BY <1>5, <2>3, <2>4 DEF DrainLoad
<1>6. ASSUME DrainEnd(Owner) \/ DrainMore(Owner) PROVE DrainOK'
  <2>1. /\ stage[Owner] = "drain" /\ pc[Owner] \in {"sizeTail", "sizeHead"}
        /\ pc' = [pc EXCEPT ![Owner] = "idle"] /\ slot' = slot /\ arg' = arg
    BY <1>6 DEF DrainEnd, DrainMore, SizeReturn, Return, Goto
  <2>2. Queued' = Queued /\ Coming' = Coming
    BY <2>1, LookCounts
  <2>3. pc'[Owner] = "idle"
    BY <2>1, OwnerFacts DEF IInv, TypeOK
  <2>4. /\ SizeRead(Owner) = 0 => Coming <= Cardinality(Producers)
        /\ SizeRead(Owner) # 0 => Queued >= 1
    <3>1. CASE pc[Owner] = "sizeTail"
      <4>1. SizeRead(Owner) = IF HeadRead < 0 THEN 0 ELSE HeadRead
        BY <3>1 DEF SizeRead, NonNegative, HeadRead
      <4>2. Coming <= HeadRead + Cardinality(Producers) /\ HeadRead <= Queued
        BY <2>1, <3>1 DEF DrainOK
      <4> QED
        BY <1>0, <4>1, <4>2
    <3>2. CASE pc[Owner] = "sizeHead"
      <4>1. ticket[Owner] = tail /\ SignedDiff(head, tail) = Queued
        BY <2>1, <3>2, OwnerLooks DEF DrainOK
      <4>2. SizeRead(Owner) = IF Queued < 0 THEN 0 ELSE Queued
        BY <3>2, <4>1 DEF SizeRead, NonNegative
      <4> QED
        BY <1>0, <4>2
    <3> QED
      BY <2>1, <3>1, <3>2
  <2>5. CASE DrainEnd(Owner)
    <3>1. stage'[Owner] = "idle" /\ SizeRead(Owner) = 0
      BY <2>5, OwnerFacts DEF DrainEnd, Enter, MTypeOK
    <3> QED
      BY <2>2, <2>4, <3>1 DEF DrainOK
  <2>6. CASE DrainMore(Owner)
    <3>1. stage'[Owner] = "drainPop" /\ SizeRead(Owner) # 0
      BY <2>6, OwnerFacts DEF DrainMore, Enter, MTypeOK
    <3> QED
      BY <2>2, <2>3, <2>4, <3>1 DEF DrainOK
  <2> QED
    BY <1>6, <2>5, <2>6
<1>7. ASSUME DrainTry(Owner) PROVE DrainOK'
  <2>1. stage[Owner] = "drainPop" /\ stage' = stage /\ slot' = slot /\ arg' = arg
    BY <1>7 DEF DrainTry, TryPopStep, TryPopLoad, TryPopSome, TryPopReserve, TryPopRetry
  <2>2. CASE TryPopReserve(Owner)
    <3>1. pc'[Owner] = "pop"
      BY <2>2, OwnerFacts DEF TryPopReserve, Goto, IInv, TypeOK
    <3> QED
      BY <2>1, <3>1 DEF DrainOK
  <2>3. CASE TryPopLoad(Owner) \/ TryPopSome(Owner) \/ TryPopRetry(Owner)
    <3>1. /\ pc[Owner] \in {"idle", "tryPop", "tryPopCas"} /\ tail' = tail
          /\ \/ pc' = [pc EXCEPT ![Owner] = "tryPop"]
             \/ pc' = [pc EXCEPT ![Owner] = "tryPopCas"]
      BY <2>3 DEF TryPopLoad, TryPopSome, TryPopRetry, Goto
    <3>2. ticket'[Owner] = tail
      BY <2>1, <2>3, OwnerFacts
      DEF TryPopLoad, TryPopSome, TryPopRetry, DrainOK, IInv, TypeOK
    <3>3. Queued' = Queued
      BY <2>1, <3>1, LookCounts
    <3>4. Queued >= 1
      BY <2>1, <3>1 DEF DrainOK
    <3> QED
      BY <2>1, <3>1, <3>2, <3>3, <3>4 DEF DrainOK
  <2> QED
    BY <1>7, <2>2, <2>3 DEF DrainTry, TryPopStep
<1>8. ASSUME DrainTake(Owner) PROVE DrainOK'
  <2>1. stage'[Owner] = "drain" /\ pc'[Owner] = "idle"
    BY <1>8, OwnerFacts DEF DrainTake, PopTake, Enter, Return, Goto, MTypeOK, IInv, TypeOK
  <2> QED
    BY <2>1 DEF DrainOK
<1>9. ASSUME ReceiveStep(Owner) PROVE active'
  BY <1>9 DEF ReceiveStep, ReceiveReserve, ReceiveTry, ReceiveNothing,
         ReceiveTake, OwnerOK
<1>10. ASSUME Local, ~active'
       PROVE  Deactivate(Owner) \/ UNCHANGED <<vars, arg, stage, active>>
  BY <1>10 DEF Local, Allocate, Deallocate, SendSeesActive, SendSeesInactive,
               ReceiveBegin, Activate
<1> QED
  BY <1>1, <1>2, <1>3, <1>4, <1>5, <1>6, <1>7, <1>8, <1>9, <1>10, TwoKinds
  DEF Around, DrainStep

-----------------------------------------------------------------------------
(* In the initial state nothing is allocated, queued or under way.         *)
LEMMA MInvInit ==
    ASSUME MInit
    PROVE  IInv /\ BInv /\ MInv
<1>1. Init
  BY DEF MInit
<1>2. IInv
  <2>1. TypeOK
    BY <1>1, QueueAssumption, ZeroIndex DEF Init, TypeOK, PcValues
  <2>2. HeldWhilePushing /\ Conservation
    BY <1>1, QueueAssumption
    DEF Init, HeldWhilePushing, Conservation, NoneLost, NoneDuplicated
  <2> QED
    BY <2>1, <2>2 DEF IInv
<1>3. BInv
  BY <1>1, BalanceInit
<1>4. MTypeOK
  BY DEF MInit, MTypeOK, Stages
<1>5. SenderOK /\ OwnerOK
  BY OwnerFacts DEF MInit, Init, SenderOK, OwnerOK
<1>6. Apart
  BY DEF MInit, Init, Apart
<1>7. DrainOK
  <2>1. Stored = {} /\ Pushing = {} /\ Waiting = {}
    BY DEF MInit, Init, Stored, Pushing, Waiting
  <2>2. Coming = 0
    BY <2>1, FS_EmptySet DEF Coming, Queued
  <2>3. Cardinality(Producers) \in Nat
    BY WidthAssumption, FS_CardinalityType
  <2>4. stage[Owner] = "idle"
    BY OwnerFacts DEF MInit
  <2> QED
    BY <2>2, <2>3, <2>4 DEF DrainOK
<1> QED
  BY <1>2, <1>3, <1>4, <1>5, <1>6, <1>7 DEF MInv

(* The inductive invariant, with that of the queue, holds in every         *)
(* reachable state of the mailbox.                                         *)
THEOREM MailboxInvariant == MSpec => [](IInv /\ BInv /\ MInv)
<1>1. (IInv /\ BInv /\ MInv) /\ [MNext]_mvars => (IInv /\ BInv /\ MInv)'
  <2> SUFFICES ASSUME IInv, BInv, MInv, [MNext]_mvars PROVE IInv' /\ BInv' /\ MInv'
    OBVIOUS
  <2>1. IInv' /\ BInv'
    BY QueueStep DEF MInv
  <2>2. CASE UNCHANGED mvars
    <3>1. MTypeOK' /\ SenderOK' /\ OwnerOK' /\ Apart'
      BY <2>2 DEF mvars, MInv, MTypeOK, SenderOK, OwnerOK, Apart
    <3>2. Queued' = Queued /\ Coming' = Coming /\ HeadRead' = HeadRead
      BY <2>2 DEF mvars, Stored, Pushing, Waiting, Queued, Coming, HeadRead
    <3>3. DrainOK'
      BY <2>2, <3>2 DEF mvars, MInv, DrainOK
    <3> QED
      BY <2>1, <3>1, <3>3 DEF MInv
  <2>3. CASE MNext
    <3>1. MTypeOK'
      BY <2>3, MTypeStep DEF MInv
    <3>2. SenderOK'
      BY <2>3, SenderStepOK DEF MInv
    <3>3. OwnerOK'
      BY <2>3, OwnerStepOK DEF MInv
    <3>4. Apart'
      BY <2>3, ApartStep DEF MInv
    <3>5. DrainOK'
      BY <2>1, <2>3, <3>3, DrainOKStep DEF MInv
    <3> QED
      BY <2>1, <3>1, <3>2, <3>3, <3>4, <3>5 DEF MInv
  <2> QED
    BY <2>2, <2>3
<1>2. MInit => IInv /\ BInv /\ MInv
  BY MInvInit
<1> QED
  BY <1>1, <1>2, PTL DEF MSpec

(* No message is freed, received or leaked while a sender or the queue has *)
(* it, and none is in two of these states: sends, receives and drains that *)
(* run at the same time free nothing twice and nothing that is in use.     *)
THEOREM MessagesHaveOneOwner == MSpec => []OwnershipExclusive
<1>1. IInv /\ MInv => OwnershipExclusive
  <2> SUFFICES ASSUME IInv, MInv PROVE OwnershipExclusive
    OBVIOUS
  <2>1. freed \cap inbox = {} /\ freed \cap leaked = {} /\ inbox \cap leaked = {}
    BY DEF MInv, Apart
  <2>2. /\ freed \cap InHand = {} /\ inbox \cap InHand = {} /\ leaked \cap InHand = {}
    BY DEF MInv, Apart, InHand, IInv, Conservation, NoneDuplicated
  <2>3. freed \cap Content = {} /\ inbox \cap Content = {} /\ leaked \cap Content = {}
    BY DEF MInv, Apart, Content, IInv, Conservation, NoneDuplicated
  <2>4. InHand \cap Content = {}
    BY DEF MInv, Apart, InHand, Content, IInv, Conservation, NoneDuplicated
  <2> DEFINE P == Places
  <2>5. /\ DOMAIN P = 1 .. 5
        /\ P[1] = freed /\ P[2] = inbox /\ P[3] = leaked
        /\ P[4] = InHand /\ P[5] = Content
    BY DEF Places
  <2> HIDE DEF P
  <2>6. \A i, j \in 1 .. 5 : i < j => P[i] \cap P[j] = {}
    <3> SUFFICES ASSUME NEW i \in 1 .. 5, NEW j \in 1 .. 5, i < j
                 PROVE  P[i] \cap P[j] = {}
      OBVIOUS
    <3>1. i \in {1, 2, 3, 4} /\ j \in {2, 3, 4, 5}
      OBVIOUS
    <3>2. CASE i = 1
      BY <2>1, <2>2, <2>3, <2>5, <3>1, <3>2
    <3>3. CASE i = 2
      BY <2>1, <2>2, <2>3, <2>5, <3>1, <3>3
    <3>4. CASE i = 3
      BY <2>2, <2>3, <2>5, <3>1, <3>4
    <3>5. CASE i = 4
      BY <2>4, <2>5, <3>1, <3>5
    <3> QED
      BY <3>1, <3>2, <3>3, <3>4, <3>5
  <2>7. \A i, j \in DOMAIN P : i # j => P[i] \cap P[j] = {}
    <3> SUFFICES ASSUME NEW i \in 1 .. 5, NEW j \in 1 .. 5, i # j
                 PROVE  P[i] \cap P[j] = {}
      BY <2>5
    <3>1. CASE i < j
      BY <2>6, <3>1
    <3>2. CASE j < i
      <4>1. P[j] \cap P[i] = {}
        BY <2>6, <3>2
      <4> QED
        BY <4>1
    <3> QED
      BY <3>1, <3>2
  <2> QED
    BY <2>7 DEF OwnershipExclusive, P
<1> QED
  BY <1>1, MailboxInvariant, PTL

(* A deactivated mailbox keeps at most one message for each sender,        *)
(* however many senders there are and however often it is reused.          *)
THEOREM StrandedIsBounded == MSpec => []StrandedBound
<1>1. IInv /\ BInv /\ MInv => StrandedBound
  <2> SUFFICES ASSUME IInv, BInv, MInv, ~active, stage[Owner] = "idle"
               PROVE  Cardinality(Stored) + Cardinality(Pushing) <= Cardinality(Producers)
    BY DEF StrandedBound
  <2>1. Coming <= Cardinality(Producers)
    BY DEF MInv, DrainOK
  <2>2. /\ Queued \in Nat /\ Cardinality(Waiting) \in Nat
        /\ Cardinality(Producers) \in Nat /\ Coming = Queued + Cardinality(Waiting)
    BY DrainCounts DEF MInv, Coming
  <2>3. Queued <= Cardinality(Producers)
    BY <2>1, <2>2
  <2> QED
    BY <2>3 DEF Queued
<1> QED
  BY <1>1, MailboxInvariant, PTL

(* The tryPop of the drain never finds the queue empty: empty() was false, *)
(* the owner is the only consumer, and senders only add.  So the branch of *)
(* the loop of setState in which tryPop fails is never taken: each round   *)
(* of the drain deallocates a message.                                     *)
THEOREM DrainFindsMessage ==
    MSpec => [](stage[Owner] = "drainPop" /\ pc[Owner] = "tryPop" =>
                    SignedDiff(head, ticket[Owner]) > 0)
<1>1. IInv /\ BInv /\ MInv =>
        (stage[Owner] = "drainPop" /\ pc[Owner] = "tryPop" =>
            SignedDiff(head, ticket[Owner]) > 0)
  <2> SUFFICES ASSUME IInv, BInv, MInv, stage[Owner] = "drainPop", pc[Owner] = "tryPop"
               PROVE  SignedDiff(head, ticket[Owner]) > 0
    OBVIOUS
  <2>1. ticket[Owner] = tail /\ Queued >= 1
    BY DEF MInv, DrainOK
  <2>2. SignedDiff(head, tail) = Queued
    BY OwnerLooks
  <2>3. Queued \in Nat
    BY DrainCounts DEF MInv
  <2> QED
    BY <2>1, <2>2, <2>3
<1> QED
  BY <1>1, MailboxInvariant, PTL
=============================================================================
