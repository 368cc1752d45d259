-------------------------- MODULE Container_proofs ---------------------------
(***************************************************************************)
(* Proofs about Container for every number of threads, entries and names.  *)
(* The free queue's part of each step is a step of LockFreeQueue, whose    *)
(* invariants and lemmas are used as they stand.                           *)
(***************************************************************************)
EXTENDS Container, LockFreeQueue_proofs

CStages == {"none", "acquiring", "taken", "named", "unnamed", "releasing"}

\* A thread that has an entry outside the free queue and no push at work.
Keeping == {"taken", "named", "unnamed"}

\* How far m_tail has come: the number of entries taken so far.
Taken == (tail - Start) % Wrap

(* Every variable of the container has its type.                           *)
CTypeOK ==
    /\ activeEntries \in [Keys -> Elements \cup {NIL}]
    /\ stage \in [Threads -> CStages]
    /\ entry \in [Threads -> Elements \cup {NIL}]
    /\ key \in [Threads -> Keys \cup {NIL}]

(* Where each operation of the container is inside that of the free queue, *)
(* and where its entry is then.                                            *)
StageOK ==
    \A t \in Threads :
        /\ stage[t] = "none" =>
              pc[t] \in {"idle", "sizeTail", "sizeHead"} /\ entry[t] = NIL
        /\ stage[t] = "acquiring" => pc[t] = "pop" /\ entry[t] = NIL
        /\ stage[t] \in Keeping => pc[t] = "idle" /\ entry[t] \in outside
        /\ stage[t] = "named" => key[t] \in Keys
        /\ stage[t] = "releasing" =>
              pc[t] \in {"tryPush", "tryPushCas", "push"} /\ entry[t] = held[t]

(* An entry that is neither free nor being given back is somebody's, and   *)
(* nobody else's.                                                          *)
OneOwner ==
    /\ \A e \in outside : \E t \in Threads : stage[t] \in Keeping /\ entry[t] = e
    /\ \A t, u \in Threads : entry[t] # NIL /\ entry[t] = entry[u] => t = u

(* m_head starts Size tickets ahead of the first m_tail and never moves    *)
(* back; an m_head that tryPush has loaded lies between the two.           *)
HeadAhead ==
    /\ Taken <= MaxTickets
    /\ Taken + SignedDiff(head, tail) >= Size
    /\ \A t \in Threads : pc[t] \in {"tryPush", "tryPushCas"} =>
          /\ Taken + SignedDiff(ticket[t], tail) >= Size
          /\ SignedDiff(ticket[t], tail) <= SignedDiff(head, tail)

(* The inductive invariant, on top of that of the queue.  An entry would   *)
(* be lost if tryPush found the queue full.  That it does not needs        *)
(* HeadAhead, for the m_head it compares with m_tail may be old, and the   *)
(* balance of the queue: a thread with an entry in hand leaves room for it.*)
CInv == CTypeOK /\ StageOK /\ OneOwner /\ HeadAhead /\ NamedEntriesOwned

-----------------------------------------------------------------------------
(* Every thread is a producer and a consumer of the free queue.            *)
LEMMA Everyone == Producers = Threads /\ Consumers = Threads
BY ContainerAssumption DEF Threads

(* The steps of the container around a step of the free queue.             *)
QueueAction(t) ==
    \/ AcquireReserve(t) \/ AcquireTake(t)
    \/ ReleaseLoad(t) \/ ReleaseCheck(t) \/ ReleaseEnd(t)
    \/ SizeStep(t)

(* The steps that change the map of names only.                            *)
MapAction(t) ==
    removeEntryFromHashMap(t) \/ \E k \in Keys : addEntryToHashMap(t, k)

(* Every step is one or the other.                                         *)
LEMMA StepKinds == CNext => \E t \in Threads : QueueAction(t) \/ MapAction(t)
BY DEF CNext, Acquiring, Releasing, QueueAction, MapAction

(* A step around the free queue is a step of the free queue.               *)
LEMMA QueueActionIsRoleStep ==
    ASSUME TypeOK, NEW t \in Threads, QueueAction(t)
    PROVE  RoleStep(t)
<1>1. t \in Producers /\ t \in Consumers
  BY Everyone
<1>2. ASSUME ReleaseLoad(t) PROVE entry[t] \in Elements /\ TryPushLoad(t, entry[t])
  BY <1>2 DEF ReleaseLoad, TryPushLoad, TypeOK
<1>3. CASE ReleaseLoad(t)
  BY <1>1, <1>2, <1>3 DEF RoleStep, ProducerStep
<1>4. CASE ReleaseCheck(t) \/ ReleaseEnd(t)
  BY <1>1, <1>4 DEF ReleaseCheck, ReleaseEnd, RoleStep, ProducerStep
<1>5. CASE AcquireReserve(t) \/ AcquireTake(t)
  BY <1>1, <1>5 DEF AcquireReserve, AcquireTake, RoleStep, ConsumerStep
<1>6. CASE SizeStep(t)
  BY <1>6 DEF SizeStep, RoleStep, ObserverStep
<1> QED
  BY <1>3, <1>4, <1>5, <1>6 DEF QueueAction

(* A step of a thread in its role is a step of a thread.                   *)
LEMMA RoleIsThreadStep == \A t : RoleStep(t) => ThreadStep(t)
BY DEF RoleStep, ProducerStep, ConsumerStep, ObserverStep, ThreadStep

(* The queue's invariants hold in the container.                           *)
LEMMA QueueStep ==
    ASSUME IInv, BInv, [CNext]_cvars
    PROVE  IInv' /\ BInv'
<1>1. CASE UNCHANGED vars
  <2>1. IInv'
    BY <1>1 DEF vars, IInv, TypeOK, HeldWhilePushing, Conservation, NoneLost,
                NoneDuplicated
  <2> QED
    BY <1>1, <2>1, BInvStutter
<1>2. ASSUME NEW t \in Threads, QueueAction(t) PROVE IInv' /\ BInv'
  <2>1. RoleStep(t) /\ ThreadStep(t)
    BY <1>2, QueueActionIsRoleStep, RoleIsThreadStep DEF IInv
  <2>2. TypeOK' /\ HeldWhilePushing' /\ Conservation'
    BY <2>1, TypeStep, HeldStep, ConservationStep DEF IInv
  <2>3. BInv'
    BY <2>1, <2>2, BInvStep DEF IInv
  <2> QED
    BY <2>2, <2>3 DEF IInv
<1>3. ASSUME NEW t \in Threads, MapAction(t) PROVE UNCHANGED vars
  BY <1>3 DEF MapAction, removeEntryFromHashMap, addEntryToHashMap
<1>4. CASE UNCHANGED cvars
  BY <1>1, <1>4 DEF cvars, vars
<1> QED
  BY <1>1, <1>2, <1>3, <1>4, StepKinds

-----------------------------------------------------------------------------
(* A thread that gives an entry back leaves room for it: the entries in    *)
(* slots and in the hands of pushes are others, and there are Size in all. *)
LEMMA RoomForEntry ==
    ASSUME IInv, BInv, NEW t \in Threads, pc[t] \in {"tryPush", "tryPushCas"}
    PROVE  SignedDiff(head, tail) \in Int /\ SignedDiff(head, tail) <= Size - 1
<1> DEFINE G == Pushing \cup {t}
           B == {held[u] : u \in G}
           g == [u \in G |-> held[u]]
           f == [i \in Stored |-> slot[i]]
<1>1. /\ IsFiniteSet(Stored) /\ Cardinality(Stored) \in Nat
      /\ IsFiniteSet(Pushing) /\ Cardinality(Pushing) \in Nat
      /\ IsFiniteSet(Popping) /\ Cardinality(Popping) \in Nat
  BY Counts, FS_CardinalityType DEF BInv
<1>2. IsFiniteSet(G) /\ Cardinality(G) = Cardinality(Pushing) + 1
  <2>1. t \notin Pushing
    BY DEF Pushing
  <2> QED
    BY <1>1, <2>1, FS_AddElement
<1>3. G \subseteq Threads /\ \A u \in G : held[u] \in Elements
  BY DEF IInv, TypeOK, HeldWhilePushing, Pushing
<1>4. B \in SUBSET Elements
  BY <1>3
<1>5. IsFiniteSet(B) /\ IsFiniteSet(Elements) /\ Cardinality(Elements) = Size
  <2> HIDE DEF B
  <2> QED
    BY <1>4, ContainerAssumption, FS_Subset
<1>6. g \in Injection(G, B)
  BY <1>3, QueueAssumption DEF Injection, IsInjective, IInv, Conservation, NoneDuplicated
<1>7. Cardinality(G) <= Cardinality(B)
  <2> HIDE DEF G, B, g
  <2> QED
    BY <1>5, <1>6, FS_Injection
<1>8. f \in Injection(Stored, Elements \ B)
  <2>1. \A i \in Stored : i \in Slots /\ slot[i] \in Elements \ B
    BY <1>3 DEF Stored, IInv, TypeOK, Conservation, NoneDuplicated
  <2>2. \A i, j \in Stored : slot[i] = slot[j] => i = j
    BY DEF Stored, IInv, Conservation, NoneDuplicated
  <2> HIDE DEF B
  <2> QED
    BY <2>1, <2>2 DEF Injection, IsInjective
<1>9. /\ IsFiniteSet(Elements \ B)
      /\ Cardinality(Elements \ B) = Size - Cardinality(B)
  <2> HIDE DEF B
  <2>1. Elements \cap B = B
    BY <1>4
  <2> QED
    BY <1>5, <2>1, FS_Difference
<1>10. Cardinality(Stored) <= Cardinality(Elements \ B)
  <2> HIDE DEF B, f
  <2> QED
    BY <1>8, <1>9, FS_Injection
<1>11. Cardinality(B) \in Nat
  BY <1>5, FS_CardinalityType
<1>12. SignedDiff(head, tail) =
         Cardinality(Stored) + Cardinality(Pushing) - Cardinality(Popping)
  BY DEF BInv, IndexBalance
<1> HIDE DEF G, B
<1> QED
  BY <1>1, <1>2, <1>7, <1>9, <1>10, <1>11, <1>12, QueueAssumption

(* The next entry taken is counted, and the first index has not come round.*)
LEMMA TakenNext ==
    ASSUME tail \in Indexes, Taken < MaxTickets
    PROVE  /\ Taken \in Nat
           /\ (Increment(tail) - Start) % Wrap = Taken + 1
<1>1. Taken = IF tail >= Start THEN tail - Start ELSE tail - Start + Wrap
  BY DiffValue, QueueAssumption DEF Taken
<1>2. Increment(tail) \in Indexes
  BY IncrementType
<1>3. (Increment(tail) - Start) % Wrap =
        IF Increment(tail) >= Start THEN Increment(tail) - Start
                                    ELSE Increment(tail) - Start + Wrap
  BY <1>2, DiffValue, QueueAssumption
<1>4. Increment(tail) = IF tail = Wrap - 1 THEN 0 ELSE tail + 1
  BY IncrementValue
<1>5. MaxTickets \in Nat /\ MaxTickets < Wrap /\ Start \in Indexes
  BY ContainerAssumption, QueueAssumption, Half
<1>6. Wrap \in Nat /\ tail \in 0 .. Wrap - 1 /\ Start \in 0 .. Wrap - 1
  BY <1>5, QueueAssumption DEF Indexes
<1> HIDE DEF Taken
<1> QED
  BY <1>1, <1>3, <1>4, <1>5, <1>6

(* Taking an entry moves m_tail one ticket nearer to every m_head, present *)
(* or old, and none of these distances leaves the signed range.            *)
LEMMA NearerByOne ==
    ASSUME tail \in Indexes, Taken < MaxTickets, NEW i \in Indexes,
           Taken + SignedDiff(i, tail) >= Size
    PROVE  SignedDiff(i, Increment(tail)) = SignedDiff(i, tail) - 1
<1>1. Taken \in Nat
  BY TakenNext
<1>2. SignedDiff(i, tail) \in Int
  BY SignedDiffValue
<1>3. SignedDiff(i, tail) > (Wrap \div 2) - Wrap
  <2> DEFINE h == Wrap \div 2
  <2>1. h \in Nat /\ 2 * h <= Wrap
    BY Half
  <2>2. MaxTickets \in Nat /\ MaxTickets + Size < h /\ Size \in Nat /\ Wrap \in Nat
    BY ContainerAssumption, QueueAssumption
  <2> HIDE DEF h, Taken
  <2>3. SignedDiff(i, tail) > h - Wrap
    BY <1>1, <1>2, <2>1, <2>2
  <2> QED
    BY <2>3 DEF h
<1> QED
  BY <1>3, SignedDiffNext

-----------------------------------------------------------------------------
(* An entry that is given back is not refused: m_tail only comes nearer to *)
(* the m_head that tryPush has loaded, and there was room at that m_head.  *)
LEMMA GivenBackFits ==
    ASSUME IInv, BInv, HeadAhead, NEW t \in Threads, pc[t] = "tryPush"
    PROVE  SignedDiff(ticket[t], tail) < Size
<1>1. SignedDiff(head, tail) \in Int /\ SignedDiff(head, tail) <= Size - 1
  BY RoomForEntry
<1>2. SignedDiff(ticket[t], tail) <= SignedDiff(head, tail)
  BY DEF HeadAhead
<1>3. SignedDiff(ticket[t], tail) \in Int
  BY SignedDiffValue DEF IInv, TypeOK
<1> QED
  BY <1>1, <1>2, <1>3, QueueAssumption

(* An m_head that is loaded anew is no further than m_head.                *)
LEMMA LoadKeepsHeadAhead ==
    ASSUME TypeOK, HeadAhead, head' = head, tail' = tail,
           \A u \in Threads : pc'[u] \in {"tryPush", "tryPushCas"} =>
              \/ ticket'[u] = head
              \/ pc[u] \in {"tryPush", "tryPushCas"} /\ ticket'[u] = ticket[u]
    PROVE  HeadAhead'
<1>1. SignedDiff(head, tail) \in Int
  BY SignedDiffValue DEF TypeOK
<1>2. Taken' = Taken /\ SignedDiff(head', tail') = SignedDiff(head, tail)
  BY DEF Taken
<1> DEFINE A(i) == Taken + SignedDiff(i, tail) >= Size
           C(i) == SignedDiff(i, tail) <= SignedDiff(head, tail)
<1>3. Taken <= MaxTickets /\ A(head) /\ C(head)
  BY <1>1 DEF HeadAhead
<1>4. \A u \in Threads :
        pc'[u] \in {"tryPush", "tryPushCas"} => A(ticket'[u]) /\ C(ticket'[u])
  BY <1>3 DEF HeadAhead
<1> QED
  BY <1>2, <1>3, <1>4 DEF HeadAhead

(* Taking an entry moves m_tail only, one ticket nearer to every m_head.   *)
LEMMA TakeKeepsHeadAhead ==
    ASSUME TypeOK, HeadAhead, NEW t \in Threads, AcquireReserve(t)
    PROVE  HeadAhead'
<1>1. /\ Taken < MaxTickets /\ head' = head /\ tail' = Increment(tail)
      /\ \A u \in Threads : pc'[u] \in {"tryPush", "tryPushCas"} =>
            pc[u] \in {"tryPush", "tryPushCas"} /\ ticket'[u] = ticket[u]
  BY DEF AcquireReserve, PopReserve, Goto, Taken, TypeOK
<1>2. Taken \in Nat /\ Taken' = Taken + 1
  BY <1>1, TakenNext DEF Taken, TypeOK
<1>3. ASSUME NEW i \in Indexes, Taken + SignedDiff(i, tail) >= Size
      PROVE  SignedDiff(i, tail) \in Int /\ SignedDiff(i, tail') = SignedDiff(i, tail) - 1
  BY <1>1, <1>3, NearerByOne, SignedDiffValue DEF TypeOK
<1>4. MaxTickets \in Nat /\ Size \in Nat
  BY ContainerAssumption, QueueAssumption
<1>5. Taken' <= MaxTickets
  BY <1>1, <1>2, <1>4
<1>6. head \in Indexes /\ Taken + SignedDiff(head, tail) >= Size
  BY DEF HeadAhead, TypeOK
<1>7. Taken' + SignedDiff(head', tail') >= Size
  BY <1>1, <1>2, <1>3, <1>4, <1>6
<1>8. ASSUME NEW u \in Threads, pc'[u] \in {"tryPush", "tryPushCas"}
      PROVE  /\ Taken' + SignedDiff(ticket'[u], tail') >= Size
             /\ SignedDiff(ticket'[u], tail') <= SignedDiff(head', tail')
  <2>1. /\ ticket'[u] = ticket[u] /\ ticket[u] \in Indexes
        /\ Taken + SignedDiff(ticket[u], tail) >= Size
        /\ SignedDiff(ticket[u], tail) <= SignedDiff(head, tail)
    BY <1>1, <1>8 DEF HeadAhead, TypeOK
  <2> QED
    BY <1>1, <1>2, <1>3, <1>4, <1>6, <2>1
<1> QED
  BY <1>5, <1>7, <1>8 DEF HeadAhead

(* Giving an entry back moves m_head only, and not beyond Size tickets.    *)
LEMMA GiveKeepsHeadAhead ==
    ASSUME IInv, BInv, HeadAhead, NEW t \in Threads, TryPushReserve(t)
    PROVE  HeadAhead'
<1>1. /\ pc[t] = "tryPushCas" /\ head' = Increment(head) /\ tail' = tail
      /\ \A u \in Threads : pc'[u] \in {"tryPush", "tryPushCas"} =>
            pc[u] \in {"tryPush", "tryPushCas"} /\ ticket'[u] = ticket[u]
  BY DEF TryPushReserve, Goto, IInv, TypeOK
<1>2. SignedDiff(head, tail) \in Int /\ SignedDiff(head, tail) <= Size - 1
  BY <1>1, RoomForEntry
<1>3. Size \in Nat /\ Size < Wrap \div 2 /\ Wrap \div 2 \in Nat
  BY ContainerAssumption, QueueAssumption, Half
<1>4. SignedDiff(head', tail') = SignedDiff(head, tail) + 1
  BY <1>1, <1>2, <1>3, SignedDiffNext DEF IInv, TypeOK
<1>5. Taken \in Int /\ Taken' = Taken
  <2>1. Taken = IF tail >= Start THEN tail - Start ELSE tail - Start + Wrap
    BY DiffValue, QueueAssumption DEF Taken, IInv, TypeOK
  <2> QED
    BY <1>1, <2>1, QueueAssumption DEF Taken, IInv, TypeOK, Indexes
<1>6. \A u \in Threads : SignedDiff(ticket[u], tail) \in Int
  BY SignedDiffValue DEF IInv, TypeOK
<1>7. Taken' <= MaxTickets /\ Taken' + SignedDiff(head', tail') >= Size
  BY <1>2, <1>3, <1>4, <1>5 DEF HeadAhead
<1>8. ASSUME NEW u \in Threads, pc'[u] \in {"tryPush", "tryPushCas"}
      PROVE  /\ Taken' + SignedDiff(ticket'[u], tail') >= Size
             /\ SignedDiff(ticket'[u], tail') <= SignedDiff(head', tail')
  <2>1. /\ ticket'[u] = ticket[u] /\ tail' = tail
        /\ Taken + SignedDiff(ticket[u], tail) >= Size
        /\ SignedDiff(ticket[u], tail) <= SignedDiff(head, tail)
    BY <1>1, <1>8 DEF HeadAhead
  <2> QED
    BY <1>2, <1>4, <1>5, <1>6, <2>1
<1> QED
  BY <1>7, <1>8 DEF HeadAhead

(* Every step keeps m_head ahead.                                          *)
LEMMA HeadAheadStep ==
    ASSUME IInv, BInv, HeadAhead, [CNext]_cvars
    PROVE  HeadAhead'
<1> DEFINE Loads ==
        /\ head' = head /\ tail' = tail
        /\ \A u \in Threads : pc'[u] \in {"tryPush", "tryPushCas"} =>
              \/ ticket'[u] = head
              \/ pc[u] \in {"tryPush", "tryPushCas"} /\ ticket'[u] = ticket[u]
<1>1. TypeOK
  BY DEF IInv
<1>2. ASSUME Loads PROVE HeadAhead'
  BY <1>1, <1>2, LoadKeepsHeadAhead
<1>3. CASE UNCHANGED vars
  BY <1>2, <1>3 DEF vars
<1>4. ASSUME NEW t \in Threads, QueueAction(t) PROVE HeadAhead'
  <2>1. CASE AcquireReserve(t)
    BY <1>1, <2>1, TakeKeepsHeadAhead
  <2>2. CASE AcquireTake(t)
    <3>1. Loads
      BY <1>1, <2>2 DEF AcquireTake, PopTake, Return, Goto, TypeOK
    <3> QED
      BY <1>2, <3>1
  <2>3. CASE ReleaseLoad(t)
    <3>1. Loads
      BY <1>1, <2>3 DEF ReleaseLoad, TryPushLoad, Goto, TypeOK
    <3> QED
      BY <1>2, <3>1
  <2>4. CASE ReleaseCheck(t)
    <3>1. CASE TryPushReserve(t)
      BY <3>1, GiveKeepsHeadAhead
    <3>2. CASE TryPushRoom(t)
      <4>1. Loads
        BY <1>1, <3>2 DEF TryPushRoom, Goto, TypeOK
      <4> QED
        BY <1>2, <4>1
    <3>3. CASE TryPushRetry(t)
      <4>1. Loads
        BY <1>1, <3>3 DEF TryPushRetry, Goto, TypeOK
      <4> QED
        BY <1>2, <4>1
    <3> QED
      BY <2>4, <3>1, <3>2, <3>3 DEF ReleaseCheck
  <2>5. CASE ReleaseEnd(t)
    <3>1. Loads
      BY <1>1, <2>5 DEF ReleaseEnd, TryPushFull, PushStore, Return, Goto, TypeOK
    <3> QED
      BY <1>2, <3>1
  <2>6. CASE SizeStep(t)
    <3>1. Loads
      BY <1>1, <2>6 DEF SizeStep, SizeLoadHead, SizeLoadTail, SizeReturn, Return,
                       Goto, TypeOK
    <3> QED
      BY <1>2, <3>1
  <2> QED
    BY <1>4, <2>1, <2>2, <2>3, <2>4, <2>5, <2>6 DEF QueueAction
<1>5. ASSUME NEW t \in Threads, MapAction(t) PROVE HeadAhead'
  BY <1>3, <1>5 DEF MapAction, removeEntryFromHashMap, addEntryToHashMap
<1>6. CASE UNCHANGED cvars
  BY <1>3, <1>6 DEF cvars, vars
<1> QED
  BY <1>4, <1>5, <1>6, StepKinds

-----------------------------------------------------------------------------
(* Where every entry is, and who has it.                                   *)
Whereabouts == CTypeOK /\ StageOK /\ OneOwner /\ NamedEntriesOwned

(* A step of the queue that neither takes nor gives back an entry.         *)
LEMMA QuietStep ==
    ASSUME TypeOK, Whereabouts, NEW t \in Threads, stage[t] \in {"none", "releasing"},
           UNCHANGED <<activeEntries, stage, entry, key, held, outside>>,
           pc' = [pc EXCEPT ![t] = pc'[t]],
           stage[t] = "none" => pc'[t] \in {"idle", "sizeTail", "sizeHead"},
           stage[t] = "releasing" => pc'[t] \in {"tryPush", "tryPushCas", "push"}
    PROVE  Whereabouts'
<1>1. CTypeOK'
  BY DEF Whereabouts, CTypeOK
<1>2. StageOK'
  BY DEF Whereabouts, StageOK, Keeping, TypeOK
<1>3. OneOwner'
  BY DEF Whereabouts, OneOwner
<1>4. NamedEntriesOwned'
  BY DEF Whereabouts, NamedEntriesOwned
<1> QED
  BY <1>1, <1>2, <1>3, <1>4 DEF Whereabouts

(* A thread that takes an entry is its only owner: it was in a slot.       *)
LEMMA TakeStep ==
    ASSUME IInv, Whereabouts, NEW t \in Threads, AcquireTake(t)
    PROVE  Whereabouts'
<1> DEFINE e == slot[SlotOf(ticket[t])]
<1>1. e \in Elements
  BY SlotOfType DEF AcquireTake, PopTake, IInv, TypeOK
<1>2. e \notin outside /\ \A u \in Threads : held[u] # e
  BY <1>1, SlotOfType, QueueAssumption
     DEF AcquireTake, PopTake, IInv, TypeOK, Conservation, NoneDuplicated
<1>3. /\ stage[t] = "acquiring" /\ stage' = [stage EXCEPT ![t] = "taken"]
      /\ entry' = [entry EXCEPT ![t] = e] /\ outside' = outside \cup {e}
      /\ pc' = [pc EXCEPT ![t] = "idle"]
      /\ UNCHANGED <<activeEntries, key, held>>
  BY DEF AcquireTake, PopTake, Return, Goto, Enter
<1>4. \A u \in Threads : entry[u] # e
  BY <1>1, <1>2, QueueAssumption DEF Whereabouts, StageOK, CTypeOK, CStages, Keeping
<1> HIDE DEF e
<1>5. CTypeOK'
  BY <1>1, <1>3 DEF Whereabouts, CTypeOK, CStages
<1>6. StageOK'
  BY <1>3 DEF Whereabouts, StageOK, Keeping, CTypeOK, IInv, TypeOK
<1>7. OneOwner'
  <2>1. \A x \in outside' : \E u \in Threads : stage'[u] \in Keeping /\ entry'[u] = x
    BY <1>3 DEF Whereabouts, OneOwner, Keeping, CTypeOK
  <2>2. \A u, v \in Threads : entry'[u] # NIL /\ entry'[u] = entry'[v] => u = v
    BY <1>3, <1>4 DEF Whereabouts, OneOwner, CTypeOK
  <2> QED
    BY <2>1, <2>2 DEF OneOwner
<1>8. NamedEntriesOwned'
  BY <1>3 DEF Whereabouts, NamedEntriesOwned, CTypeOK
<1> QED
  BY <1>5, <1>6, <1>7, <1>8 DEF Whereabouts

(* Taking the ticket of an entry moves no entry.                           *)
LEMMA ReserveStep ==
    ASSUME IInv, Whereabouts, NEW t \in Threads, AcquireReserve(t)
    PROVE  Whereabouts'
<1>1. /\ stage[t] = "none" /\ stage' = [stage EXCEPT ![t] = "acquiring"]
      /\ pc' = [pc EXCEPT ![t] = "pop"]
      /\ UNCHANGED <<activeEntries, entry, key, held, outside>>
  BY DEF AcquireReserve, PopReserve, Goto, Enter
<1>2. CTypeOK'
  BY <1>1 DEF Whereabouts, CTypeOK, CStages
<1>3. StageOK'
  BY <1>1 DEF Whereabouts, StageOK, Keeping, CTypeOK, IInv, TypeOK
<1>4. OneOwner'
  BY <1>1 DEF Whereabouts, OneOwner, Keeping, CTypeOK
<1>5. NamedEntriesOwned'
  BY <1>1 DEF Whereabouts, NamedEntriesOwned, CTypeOK
<1> QED
  BY <1>2, <1>3, <1>4, <1>5 DEF Whereabouts

(* A thread that begins to give its entry back has it in hand.             *)
LEMMA ReleaseStep ==
    ASSUME IInv, Whereabouts, NEW t \in Threads, ReleaseLoad(t)
    PROVE  Whereabouts'
<1>1. /\ stage[t] = "unnamed" /\ stage' = [stage EXCEPT ![t] = "releasing"]
      /\ pc' = [pc EXCEPT ![t] = "tryPush"] /\ held' = [held EXCEPT ![t] = entry[t]]
      /\ outside' = outside \ {entry[t]}
      /\ UNCHANGED <<activeEntries, entry, key>>
  BY DEF ReleaseLoad, TryPushLoad, Goto, Enter
<1>2. \A u \in Threads \ {t} : entry[u] # NIL => entry[u] # entry[t]
  BY DEF Whereabouts, OneOwner
<1>3. CTypeOK'
  BY <1>1 DEF Whereabouts, CTypeOK, CStages
<1>4. StageOK'
  <2>1. \A u \in Threads : stage[u] \in Keeping => entry[u] # NIL
    BY QueueAssumption DEF Whereabouts, StageOK, IInv, TypeOK
  <2> QED
    BY <1>1, <1>2, <2>1 DEF Whereabouts, StageOK, Keeping, CTypeOK, IInv, TypeOK
<1>5. OneOwner'
  BY <1>1 DEF Whereabouts, OneOwner, Keeping, CTypeOK
<1>6. NamedEntriesOwned'
  BY <1>1 DEF Whereabouts, NamedEntriesOwned, CTypeOK
<1> QED
  BY <1>3, <1>4, <1>5, <1>6 DEF Whereabouts

(* Storing the entry ends its ownership, and no name leads to it.          *)
LEMMA StoreStep ==
    ASSUME IInv, Whereabouts, NEW t \in Threads, stage[t] = "releasing", PushStore(t),
           entry' = [entry EXCEPT ![t] = NIL], Enter(t, "none"),
           UNCHANGED <<activeEntries, key>>
    PROVE  Whereabouts'
<1>1. /\ stage' = [stage EXCEPT ![t] = "none"]
      /\ pc' = [pc EXCEPT ![t] = "idle"] /\ held' = [held EXCEPT ![t] = NIL]
      /\ outside' = outside
  BY DEF PushStore, Return, Goto, Enter
<1>2. CTypeOK'
  BY <1>1 DEF Whereabouts, CTypeOK, CStages
<1>3. StageOK'
  BY <1>1 DEF Whereabouts, StageOK, Keeping, CTypeOK, IInv, TypeOK
<1>4. OneOwner'
  BY <1>1 DEF Whereabouts, OneOwner, Keeping, CTypeOK
<1>5. NamedEntriesOwned'
  BY <1>1 DEF Whereabouts, NamedEntriesOwned, CTypeOK
<1> QED
  BY <1>2, <1>3, <1>4, <1>5 DEF Whereabouts

(* Entering and removing a name move no entry.                             *)
LEMMA MapStep ==
    ASSUME IInv, Whereabouts, NEW t \in Threads, MapAction(t)
    PROVE  Whereabouts'
<1>1. CASE removeEntryFromHashMap(t)
  <2>1. /\ stage[t] = "named" /\ stage' = [stage EXCEPT ![t] = "unnamed"]
        /\ activeEntries' = [activeEntries EXCEPT ![key[t]] = NIL]
        /\ key' = [key EXCEPT ![t] = NIL]
        /\ UNCHANGED <<pc, held, outside, entry>>
    BY <1>1 DEF removeEntryFromHashMap, Enter, vars
  <2>2. CTypeOK'
    BY <2>1 DEF Whereabouts, CTypeOK, CStages
  <2>3. StageOK'
    BY <2>1 DEF Whereabouts, StageOK, Keeping, CTypeOK
  <2>4. OneOwner'
    BY <2>1 DEF Whereabouts, OneOwner, Keeping, CTypeOK
  <2>5. NamedEntriesOwned'
    BY <2>1 DEF Whereabouts, NamedEntriesOwned, CTypeOK
  <2> QED
    BY <2>2, <2>3, <2>4, <2>5 DEF Whereabouts
<1>2. ASSUME NEW k \in Keys, addEntryToHashMap(t, k) PROVE Whereabouts'
  <2>1. /\ stage[t] = "taken" /\ stage' = [stage EXCEPT ![t] = "named"]
        /\ activeEntries' = IF activeEntries[k] # NIL THEN activeEntries
                            ELSE [activeEntries EXCEPT ![k] = entry[t]]
        /\ key' = [key EXCEPT ![t] = k]
        /\ UNCHANGED <<pc, held, outside, entry>>
    BY <1>2 DEF addEntryToHashMap, Enter, vars
  <2>2. CTypeOK'
    BY <2>1 DEF Whereabouts, CTypeOK, CStages
  <2>3. StageOK'
    BY <2>1 DEF Whereabouts, StageOK, Keeping, CTypeOK
  <2>4. OneOwner'
    BY <2>1 DEF Whereabouts, OneOwner, Keeping, CTypeOK
  <2>5. NamedEntriesOwned'
    BY <2>1 DEF Whereabouts, NamedEntriesOwned, CTypeOK
  <2> QED
    BY <2>2, <2>3, <2>4, <2>5 DEF Whereabouts
<1> QED
  BY <1>1, <1>2 DEF MapAction

(* Every step of the container keeps the whereabouts of the entries.       *)
LEMMA WhereaboutsStep ==
    ASSUME IInv, BInv, CInv, [CNext]_cvars
    PROVE  Whereabouts'
<1>1. Whereabouts /\ TypeOK /\ HeadAhead
  BY DEF CInv, Whereabouts, IInv
<1>2. ASSUME NEW t \in Threads, QueueAction(t) PROVE Whereabouts'
  <2>1. CASE AcquireReserve(t)
    BY <1>1, <2>1, ReserveStep
  <2>2. CASE AcquireTake(t)
    BY <1>1, <2>2, TakeStep
  <2>3. CASE ReleaseLoad(t)
    BY <1>1, <2>3, ReleaseStep
  <2>4. CASE ReleaseCheck(t)
    <3>1. /\ stage[t] = "releasing"
          /\ UNCHANGED <<activeEntries, stage, entry, key, held, outside>>
          /\ pc' = [pc EXCEPT ![t] = pc'[t]]
          /\ pc'[t] \in {"tryPush", "tryPushCas", "push"}
      BY <1>1, <2>4 DEF ReleaseCheck, TryPushRoom, TryPushReserve, TryPushRetry,
                        Goto, local, TypeOK
    <3> QED
      BY <1>1, <3>1, QuietStep
  <2>5. CASE ReleaseEnd(t)
    <3>1. ~TryPushFull(t)
      <4>1. ASSUME TryPushFull(t) PROVE FALSE
        <5>1. SignedDiff(ticket[t], tail) < Size
          BY <1>1, <4>1, GivenBackFits DEF TryPushFull
        <5>2. SignedDiff(ticket[t], tail) \in Int
          BY <1>1, SignedDiffValue DEF TypeOK
        <5> QED
          BY <4>1, <5>1, <5>2, QueueAssumption DEF TryPushFull
      <4> QED
        BY <4>1
    <3> QED
      BY <1>1, <2>5, <3>1, StoreStep DEF ReleaseEnd
  <2>6. CASE SizeStep(t)
    <3>1. /\ stage[t] = "none"
          /\ UNCHANGED <<activeEntries, stage, entry, key, held, outside>>
          /\ pc' = [pc EXCEPT ![t] = pc'[t]]
          /\ pc'[t] \in {"idle", "sizeTail", "sizeHead"}
      BY <1>1, <2>6 DEF SizeStep, SizeLoadHead, SizeLoadTail, SizeReturn, Return,
                        Goto, local, TypeOK
    <3> QED
      BY <1>1, <3>1, QuietStep
  <2> QED
    BY <1>2, <2>1, <2>2, <2>3, <2>4, <2>5, <2>6 DEF QueueAction
<1>3. ASSUME NEW t \in Threads, MapAction(t) PROVE Whereabouts'
  BY <1>1, <1>3, MapStep
<1>4. CASE UNCHANGED cvars
  BY <1>1, <1>4 DEF cvars, Whereabouts, CTypeOK, StageOK, OneOwner, NamedEntriesOwned
<1> QED
  BY <1>2, <1>3, <1>4, StepKinds

-----------------------------------------------------------------------------
(* The constructor's m_head: Size tickets ahead of m_tail.                 *)
LEMMA FirstHead ==
    ASSUME CInit
    PROVE  /\ head \in Indexes /\ tail \in Indexes
           /\ SignedDiff(head, tail) = Size
           /\ Taken = 0
<1>1. /\ Start \in Indexes /\ Size \in Nat /\ Wrap \in Nat \ {0}
      /\ Start \in 0 .. Wrap - 1
  BY QueueAssumption DEF Indexes
<1>2. Size < Wrap \div 2 /\ Wrap \div 2 \in Nat /\ 2 * (Wrap \div 2) <= Wrap
  BY <1>1, ContainerAssumption, Half
<1>3. head = IF Start + Size < Wrap THEN Start + Size ELSE Start + Size - Wrap
  <2> DEFINE x == Start + Size
  <2>1. head = x % Wrap /\ x \in Int
    BY <1>1 DEF CInit
  <2>2. ASSUME NEW q \in {0, 1}, x - Wrap * q \in 0 .. Wrap - 1
        PROVE  head = x - Wrap * q
    <3> DEFINE s == x - Wrap * q
    <3>1. s \in 0 .. Wrap - 1 /\ x = Wrap * q + s /\ q \in Int
      BY <1>1, <2>1, <2>2
    <3> HIDE DEF x, s
    <3>2. x % Wrap = s
      BY <1>1, <2>1, <3>1, DivUnique
    <3> QED
      BY <2>1, <3>2 DEF s
  <2>3. CASE x < Wrap
    <3>1. x - Wrap * 0 = x /\ x \in 0 .. Wrap - 1
      BY <1>1, <2>3
    <3> QED
      BY <2>2, <2>3, <3>1
  <2>4. CASE ~(x < Wrap)
    <3>1. x - Wrap * 1 = x - Wrap /\ x - Wrap \in 0 .. Wrap - 1
      BY <1>1, <1>2, <2>4
    <3>2. head = x - Wrap
      <4> HIDE DEF x
      <4> QED
        BY <2>2, <3>1
    <3> QED
      BY <1>1, <2>4, <3>2
  <2> QED
    BY <2>3, <2>4
<1>4. head \in Indexes /\ tail = Start /\ tail \in Indexes
  BY <1>1, <1>2, <1>3 DEF CInit, Indexes
<1>5. head - tail \in {Size - Wrap, Size, Size + Wrap}
  BY <1>1, <1>3, <1>4
<1>6. Size >= (Wrap \div 2) - Wrap
  BY <1>1, <1>2
<1>7. SignedDiff(head, tail) = Size
  BY <1>1, <1>2, <1>4, <1>5, <1>6, SignedDiffUnique
<1>8. Taken = 0
  BY <1>1, <1>4, DiffValue DEF Taken
<1> QED
  BY <1>4, <1>7, <1>8

(* The full ring the constructor leaves behind satisfies the invariants of *)
(* the queue: all entries are there, each in one slot.                     *)
LEMMA InitConserves ==
    ASSUME CInit
    PROVE  IInv
<1>1. TypeOK
  BY FirstHead, ZeroIndex, QueueAssumption DEF CInit, TypeOK, PcValues
<1>2. HeldWhilePushing
  BY DEF CInit, HeldWhilePushing
<1>3. NoneDuplicated
  BY <1>1, QueueAssumption DEF CInit, NoneDuplicated, TypeOK
<1>4. NoneLost
  <2>1. IsFiniteSet(Slots) /\ Cardinality(Slots) = Size
    BY QueueAssumption, FS_Interval DEF Slots
  <2>2. slot \in Injection(Slots, Elements)
    BY DEF CInit, Injection, IsInjective
  <2>3. IsFiniteSet(Elements) /\ Cardinality(Elements) = Cardinality(Slots)
    BY <2>1, ContainerAssumption
  <2>4. slot \in Surjection(Slots, Elements)
    BY <2>1, <2>2, <2>3, FS_Injection
  <2> QED
    BY <2>4 DEF Surjection, NoneLost
<1> QED
  BY <1>1, <1>2, <1>3, <1>4 DEF IInv, Conservation

(* A full ring is in balance: every slot has had one turn.                 *)
LEMMA FullBalance ==
    ASSUME CInit
    PROVE  BInv
<1>1. Roles
  BY DEF CInit, Roles
<1>2. Stored = Slots /\ Pushing = {} /\ Popping = {}
  <2>1. \A i \in Slots : slot[i] # NIL
    BY QueueAssumption DEF CInit
  <2> QED
    BY <2>1 DEF CInit, Stored, Pushing, Popping
<1>3. Cardinality({}) = 0 /\ Cardinality(Slots) = Size
  BY FS_EmptySet, FS_Interval, QueueAssumption DEF Slots
<1>4. SignedDiff(head, tail) = Size /\ tail \in Int /\ Size \in Nat \ {0}
  BY FirstHead, QueueAssumption DEF Indexes
<1>5. IndexBalance
  BY <1>2, <1>3, <1>4 DEF IndexBalance
<1>6. SlotBalance
  <2> SUFFICES ASSUME NEW r \in Slots
      PROVE  StoredAt(r) + Cardinality(PushAt(r)) - Cardinality(PopAt(r)) =
               Turns(tail + SignedDiff(head, tail), r) - Turns(tail, r)
    BY DEF SlotBalance
  <2>1. PushAt(r) = {} /\ PopAt(r) = {}
    BY <1>2 DEF PushAt, PopAt
  <2>2. StoredAt(r) = 1
    BY <1>2, QueueAssumption DEF StoredAt, Stored
  <2>3. Turns(tail + Size, r) = Turns(tail, r) + 1 /\ Turns(tail, r) \in Int
    <3> DEFINE y == tail + Size - 1 - r
               q == y \div Size
               s == y % Size
    <3>1. y \in Int /\ r \in Int
      BY <1>4 DEF Slots
    <3>2. q \in Int /\ s \in Slots /\ y = Size * q + s
      BY <1>4, <3>1, DivMod DEF Slots
    <3>3. Turns(tail, r) = q
      BY DEF Turns
    <3>4. (tail + Size) + Size - 1 - r = y + Size
      BY <1>4, <3>1
    <3> HIDE DEF y, q, s
    <3>5. y + Size = Size * (q + 1) + s
      BY <1>4, <3>2 DEF Slots
    <3>6. Turns(tail + Size, r) = q + 1
      BY <1>4, <3>2, <3>4, <3>5, TurnsAre
    <3> QED
      BY <3>2, <3>3, <3>6
  <2> QED
    BY <1>3, <1>4, <2>1, <2>2, <2>3
<1> QED
  BY <1>1, <1>5, <1>6 DEF BInv

(* No entry has left the container yet.                                    *)
LEMMA InitWhereabouts ==
    ASSUME CInit
    PROVE  CInv
<1>1. CTypeOK
  BY DEF CInit, CTypeOK, CStages
<1>2. StageOK
  BY DEF CInit, StageOK, Keeping
<1>3. OneOwner
  BY DEF CInit, OneOwner
<1>4. HeadAhead
  <2>1. MaxTickets \in Nat /\ Size \in Nat
    BY ContainerAssumption, QueueAssumption
  <2>2. \A t \in Threads : pc[t] = "idle"
    BY DEF CInit
  <2> QED
    BY <2>1, <2>2, FirstHead DEF HeadAhead
<1>5. NamedEntriesOwned
  BY DEF CInit, NamedEntriesOwned
<1> QED
  BY <1>1, <1>2, <1>3, <1>4, <1>5 DEF CInv

-----------------------------------------------------------------------------
(* The invariants of the container and of its free queue hold throughout,  *)
(* for any number of threads, entries and names.                           *)
THEOREM ContainerInvariant == CSpec => [](IInv /\ BInv /\ CInv)
<1>1. CInit => IInv /\ BInv /\ CInv
  BY InitConserves, FullBalance, InitWhereabouts
<1>2. IInv /\ BInv /\ CInv /\ [CNext]_cvars => (IInv /\ BInv /\ CInv)'
  <2> SUFFICES ASSUME IInv, BInv, CInv, [CNext]_cvars PROVE (IInv /\ BInv /\ CInv)'
    OBVIOUS
  <2>1. IInv' /\ BInv'
    BY QueueStep
  <2>2. HeadAhead'
    BY HeadAheadStep DEF CInv
  <2>3. Whereabouts'
    BY WhereaboutsStep
  <2> QED
    BY <2>1, <2>2, <2>3 DEF CInv, Whereabouts
<1> QED
  BY <1>1, <1>2, PTL DEF CSpec

(* Between two steps every entry is in the free queue or with one thread:  *)
(* tryPushIntoQueue, whose result the callers ignore, loses none.          *)
THEOREM EntriesInOnePlace == CSpec => []EntryInOnePlace
<1>1. IInv /\ BInv /\ CInv => EntryInOnePlace
  <2> SUFFICES ASSUME IInv, BInv, CInv PROVE EntryInOnePlace
    OBVIOUS
  <2>1. \A e \in Elements : e \in Owned \/ e \in Content
    <3> SUFFICES ASSUME NEW e \in Elements PROVE e \in Owned \/ e \in Content
      OBVIOUS
    <3>1. CASE e \in outside
      BY <3>1, QueueAssumption DEF CInv, OneOwner, Owned
    <3>2. CASE \E i \in Slots : slot[i] = e
      BY <3>2, QueueAssumption DEF Content
    <3>3. ASSUME NEW t \in Threads, held[t] = e PROVE e \in Owned
      <4>1. pc[t] \in {"push", "tryPush", "tryPushCas"}
        BY <3>3, QueueAssumption DEF IInv, HeldWhilePushing
      <4>2. stage[t] = "releasing"
        BY <4>1 DEF CInv, StageOK, CTypeOK, CStages, Keeping
      <4>3. entry[t] = e
        BY <3>3, <4>2 DEF CInv, StageOK
      <4> QED
        BY <4>3, QueueAssumption DEF Owned
    <3> QED
      BY <3>1, <3>2, <3>3 DEF IInv, Conservation, NoneLost
  <2>2. ASSUME NEW t \in Threads, entry[t] # NIL
        PROVE  entry[t] \in Elements /\ entry[t] \notin Content
    <3>1. entry[t] \in Elements
      BY <2>2 DEF CInv, CTypeOK
    <3>2. entry[t] \in outside \/ entry[t] = held[t]
      BY <2>2 DEF CInv, StageOK, CTypeOK, CStages, Keeping
    <3> QED
      BY <2>2, <3>1, <3>2 DEF IInv, Conservation, NoneDuplicated, Content
  <2>3. Content \subseteq Elements
    BY DEF Content, IInv, TypeOK
  <2>4. Owned \subseteq Elements /\ Owned \cap Content = {}
    BY <2>2 DEF Owned
  <2>5. Owned \cup Content = Elements
    BY <2>1, <2>3, <2>4
  <2> QED
    BY <2>4, <2>5 DEF EntryInOnePlace, CInv, OneOwner
<1> QED
  BY <1>1, ContainerInvariant, PTL

(* A name never leads to an entry that is free or somebody else's.         *)
THEOREM NamesLeadToOwned == CSpec => []NamedEntriesOwned
BY ContainerInvariant, PTL DEF CInv

(* tryPushIntoQueue finds room whenever it compares, however old the       *)
(* m_head it has loaded.                                                   *)
GiveBackFindsRoom ==
    \A t \in Threads : pc[t] = "tryPush" => SignedDiff(ticket[t], tail) < Size

(* No entry that is given back is refused, which the callers rely on.      *)
THEOREM GiveBackNeverRefused == CSpec => []GiveBackFindsRoom
<1>1. IInv /\ BInv /\ CInv => GiveBackFindsRoom
  BY GivenBackFits DEF CInv, GiveBackFindsRoom
<1> QED
  BY <1>1, ContainerInvariant, PTL
=============================================================================
