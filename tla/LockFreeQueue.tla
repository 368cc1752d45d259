---------------------------- MODULE LockFreeQueue ----------------------------
(***************************************************************************)
(* The bounded lock-free ring of itcLockFreeQueue.h in its multi-producer  *)
(* multi-consumer form (IS_SPSC_VALUE = 0), the form every mailbox and     *)
(* every concurrent container uses.                                        *)
(*                                                                         *)
(* An operation has two halves.  The first takes a ticket from m_head or   *)
(* m_tail (fetch_add in push/pop, a checked compare-exchange loop in       *)
(* tryPush/tryPop); the second moves one element into or out of the slot   *)
(* the ticket names (doPushAtomic, doPopAtomic).  Every atomic access of   *)
(* the code is one step, so threads interleave between any two of them.    *)
(* The spinning loads of the retry loops change nothing and are the        *)
(* stuttering steps of a thread whose second half is not enabled.          *)
(***************************************************************************)
EXTENDS Integers, FiniteSets

CONSTANTS
    Producers,  \* threads that call push and tryPush
    Consumers,  \* threads that call pop and tryPop (may overlap Producers)
    Elements,   \* the non-NIL values of T: the pointers that travel
    NIL,        \* the value of an empty slot
    Size,       \* m_size
    Wrap,       \* 2^32: the modulus of the uint32_t indexes
    Start,      \* the index at which this behaviour of the queue begins
    Remap       \* remapIndex<SHUFFLE_BITS> on 0 .. m_size - 1

Slots == 0 .. Size - 1
Indexes == 0 .. Wrap - 1
Threads == Producers \cup Consumers

(***************************************************************************)
(* m_size divides 2^32 because MINIMIZE_CONTENTION rounds it up to a power *)
(* of two; remapIndex swaps two groups of bits, hence permutes the slots.  *)
(***************************************************************************)
ASSUME QueueAssumption ==
    /\ NIL \notin Elements
    /\ Size \in Nat \ {0}
    /\ Wrap \in Nat \ {0}
    /\ Start \in Indexes
    /\ Remap \in [Slots -> Slots]

ASSUME RingAssumption ==
    /\ Wrap % Size = 0
    /\ \A i, j \in Slots : Remap[i] = Remap[j] => i = j

(***************************************************************************)
(* The indexes are compared as signed differences, so the backlog that the *)
(* threads and the slots can build up must stay in the signed range.       *)
(***************************************************************************)
ASSUME WidthAssumption ==
    /\ IsFiniteSet(Producers) /\ IsFiniteSet(Consumers)
    /\ Size + Cardinality(Producers) < Wrap \div 2
    /\ Cardinality(Consumers) <= Wrap \div 2

VARIABLES
    head,     \* m_head: the next ticket of a push
    tail,     \* m_tail: the next ticket of a pop
    slot,     \* m_queue
    pc,       \* where each thread is inside an operation
    ticket,   \* the thread's local copy of m_head or m_tail
    held,     \* the element argument of the thread's push or tryPush
    outside   \* the elements that belong to callers, not to the queue

vars == <<head, tail, slot, pc, ticket, held, outside>>

PcValues == {"idle", "push", "tryPush", "tryPushCas",
             "pop", "tryPop", "tryPopCas", "sizeTail", "sizeHead"}

\* Faulty: the index type never overflows.
IncrementUnbounded(index) == index + 1

Increment(index) == (index + 1) % Wrap

\* static_cast<int32_t>(a - b) on uint32_t operands
SignedDiff(a, b) ==
    LET d == (a - b) % Wrap
    IN  IF d < Wrap \div 2 THEN d ELSE d - Wrap

SlotOf(index) == Remap[index % Size]

Goto(t, label) == pc' = [pc EXCEPT ![t] = label]

\* The operation returns: its local index is gone.
Return(t) ==
    /\ Goto(t, "idle")
    /\ ticket' = [ticket EXCEPT ![t] = 0]

-----------------------------------------------------------------------------
(* Faulty variants of the operations below, for testing the properties.    *)

\* m_head.fetch_add read as if it returned the incremented index
PushReserveAddFetch(t, e) ==
    /\ pc[t] = "idle"
    /\ e \in outside
    /\ outside' = outside \ {e}
    /\ held' = [held EXCEPT ![t] = e]
    /\ ticket' = [ticket EXCEPT ![t] = Increment(head)]
    /\ head' = Increment(head)
    /\ Goto(t, "push")
    /\ UNCHANGED <<tail, slot>>

\* a store of head + 1 in place of the compare-exchange
TryPushReserveByStore(t) ==
    /\ pc[t] = "tryPushCas"
    /\ head' = Increment(ticket[t])
    /\ Goto(t, "push")
    /\ UNCHANGED <<tail, slot, ticket, held, outside>>

\* the comparison refuses the last free slot
TryPushFullEarly(t) ==
    /\ pc[t] = "tryPush"
    /\ SignedDiff(ticket[t], tail) >= Size - 1
    /\ outside' = outside \cup {held[t]}
    /\ held' = [held EXCEPT ![t] = NIL]
    /\ Return(t)
    /\ UNCHANGED <<head, tail, slot>>

\* an exchange that does not expect NIL
PushStoreOverwrites(t) ==
    /\ pc[t] = "push"
    /\ slot' = [slot EXCEPT ![SlotOf(ticket[t])] = held[t]]
    /\ held' = [held EXCEPT ![t] = NIL]
    /\ Return(t)
    /\ UNCHANGED <<head, tail, outside>>

\* pop waits on the slot after the one its ticket names
PopReserveAddFetch(t) ==
    /\ pc[t] = "idle"
    /\ ticket' = [ticket EXCEPT ![t] = Increment(tail)]
    /\ tail' = Increment(tail)
    /\ Goto(t, "pop")
    /\ UNCHANGED <<head, slot, held, outside>>

\* tryPop without its emptiness check
TryPopSomeUnchecked(t) ==
    /\ pc[t] = "tryPop"
    /\ Goto(t, "tryPopCas")
    /\ UNCHANGED <<head, tail, slot, ticket, held, outside>>

\* a load in place of the exchange with NIL
PopTakeKeepsSlot(t) ==
    /\ pc[t] = "pop"
    /\ slot[SlotOf(ticket[t])] # NIL
    /\ outside' = outside \cup {slot[SlotOf(ticket[t])]}
    /\ Return(t)
    /\ UNCHANGED <<head, tail, slot, held>>

-----------------------------------------------------------------------------
Init ==
    /\ head = Start
    /\ tail = Start
    /\ slot = [i \in Slots |-> NIL]
    /\ pc = [t \in Threads |-> "idle"]
    /\ ticket = [t \in Threads |-> 0]
    /\ held = [t \in Threads |-> NIL]
    /\ outside = Elements

-----------------------------------------------------------------------------
(* push: an unconditional ticket, whatever the number of elements queued.  *)

PushReserve(t, e) ==
    /\ pc[t] = "idle"
    /\ e \in outside
    /\ outside' = outside \ {e}
    /\ held' = [held EXCEPT ![t] = e]
    /\ ticket' = [ticket EXCEPT ![t] = head]
    /\ head' = Increment(head)
    /\ Goto(t, "push")
    /\ UNCHANGED <<tail, slot>>

(* tryPush: load m_head, compare it with m_tail, then claim the ticket.    *)

TryPushLoad(t, e) ==
    /\ pc[t] = "idle"
    /\ e \in outside
    /\ outside' = outside \ {e}
    /\ held' = [held EXCEPT ![t] = e]
    /\ ticket' = [ticket EXCEPT ![t] = head]
    /\ Goto(t, "tryPush")
    /\ UNCHANGED <<head, tail, slot>>

TryPushFull(t) ==
    /\ pc[t] = "tryPush"
    /\ SignedDiff(ticket[t], tail) >= Size
    /\ outside' = outside \cup {held[t]}
    /\ held' = [held EXCEPT ![t] = NIL]
    /\ Return(t)
    /\ UNCHANGED <<head, tail, slot>>

TryPushRoom(t) ==
    /\ pc[t] = "tryPush"
    /\ SignedDiff(ticket[t], tail) < Size
    /\ Goto(t, "tryPushCas")
    /\ UNCHANGED <<head, tail, slot, ticket, held, outside>>

TryPushReserve(t) ==
    /\ pc[t] = "tryPushCas"
    /\ head = ticket[t]
    /\ head' = Increment(head)
    /\ Goto(t, "push")
    /\ UNCHANGED <<tail, slot, ticket, held, outside>>

\* compare_exchange_weak may fail even when m_head has not moved.
TryPushRetry(t) ==
    /\ pc[t] = "tryPushCas"
    /\ ticket' = [ticket EXCEPT ![t] = head]
    /\ Goto(t, "tryPush")
    /\ UNCHANGED <<head, tail, slot, held, outside>>

(* doPush: wait until the slot is NIL and exchange NIL for the element.    *)

PushStore(t) ==
    /\ pc[t] = "push"
    /\ slot[SlotOf(ticket[t])] = NIL
    /\ slot' = [slot EXCEPT ![SlotOf(ticket[t])] = held[t]]
    /\ held' = [held EXCEPT ![t] = NIL]
    /\ Return(t)
    /\ UNCHANGED <<head, tail, outside>>

-----------------------------------------------------------------------------
(* pop: an unconditional ticket, even when nothing is queued.              *)

PopReserve(t) ==
    /\ pc[t] = "idle"
    /\ ticket' = [ticket EXCEPT ![t] = tail]
    /\ tail' = Increment(tail)
    /\ Goto(t, "pop")
    /\ UNCHANGED <<head, slot, held, outside>>

TryPopLoad(t) ==
    /\ pc[t] = "idle"
    /\ ticket' = [ticket EXCEPT ![t] = tail]
    /\ Goto(t, "tryPop")
    /\ UNCHANGED <<head, tail, slot, held, outside>>

TryPopEmpty(t) ==
    /\ pc[t] = "tryPop"
    /\ SignedDiff(head, ticket[t]) <= 0
    /\ Return(t)
    /\ UNCHANGED <<head, tail, slot, held, outside>>

TryPopSome(t) ==
    /\ pc[t] = "tryPop"
    /\ SignedDiff(head, ticket[t]) > 0
    /\ Goto(t, "tryPopCas")
    /\ UNCHANGED <<head, tail, slot, ticket, held, outside>>

TryPopReserve(t) ==
    /\ pc[t] = "tryPopCas"
    /\ tail = ticket[t]
    /\ tail' = Increment(tail)
    /\ Goto(t, "pop")
    /\ UNCHANGED <<head, slot, ticket, held, outside>>

TryPopRetry(t) ==
    /\ pc[t] = "tryPopCas"
    /\ ticket' = [ticket EXCEPT ![t] = tail]
    /\ Goto(t, "tryPop")
    /\ UNCHANGED <<head, tail, slot, held, outside>>

(* doPop: exchange the slot with NIL until it yields an element, which the *)
(* caller then owns.                                                       *)

PopTake(t) ==
    /\ pc[t] = "pop"
    /\ slot[SlotOf(ticket[t])] # NIL
    /\ outside' = outside \cup {slot[SlotOf(ticket[t])]}
    /\ slot' = [slot EXCEPT ![SlotOf(ticket[t])] = NIL]
    /\ Return(t)
    /\ UNCHANGED <<head, tail, held>>

-----------------------------------------------------------------------------
(* size: two relaxed loads that nothing orders, hence either one first.    *)

SizeLoadHead(t) ==
    /\ pc[t] = "idle"
    /\ ticket' = [ticket EXCEPT ![t] = head]
    /\ Goto(t, "sizeTail")
    /\ UNCHANGED <<head, tail, slot, held, outside>>

SizeLoadTail(t) ==
    /\ pc[t] = "idle"
    /\ ticket' = [ticket EXCEPT ![t] = tail]
    /\ Goto(t, "sizeHead")
    /\ UNCHANGED <<head, tail, slot, held, outside>>

NonNegative(n) == IF n < 0 THEN 0 ELSE n

\* The value size() returns from the second of the two loads.
SizeRead(t) ==
    NonNegative(IF pc[t] = "sizeTail" THEN SignedDiff(ticket[t], tail)
                                      ELSE SignedDiff(head, ticket[t]))

SizeReturn(t) ==
    /\ pc[t] \in {"sizeTail", "sizeHead"}
    /\ Return(t)
    /\ UNCHANGED <<head, tail, slot, held, outside>>

-----------------------------------------------------------------------------
ProducerStep(t) ==
    \/ \E e \in Elements : PushReserve(t, e) \/ TryPushLoad(t, e)
    \/ TryPushFull(t)
    \/ TryPushRoom(t)
    \/ TryPushReserve(t)
    \/ TryPushRetry(t)
    \/ PushStore(t)

ConsumerStep(t) ==
    \/ PopReserve(t)
    \/ TryPopLoad(t)
    \/ TryPopEmpty(t)
    \/ TryPopSome(t)
    \/ TryPopReserve(t)
    \/ TryPopRetry(t)
    \/ PopTake(t)

ObserverStep(t) ==
    \/ SizeLoadHead(t)
    \/ SizeLoadTail(t)
    \/ SizeReturn(t)

Next ==
    \/ \E t \in Producers : ProducerStep(t)
    \/ \E t \in Consumers : ConsumerStep(t)
    \/ \E t \in Threads : ObserverStep(t)

Spec == Init /\ [][Next]_vars

-----------------------------------------------------------------------------
Stored == {i \in Slots : slot[i] # NIL}
Pushing == {t \in Threads : pc[t] = "push"}
Popping == {t \in Threads : pc[t] = "pop"}
Content == {slot[i] : i \in Slots} \ {NIL}
Holding == {t \in Threads : held[t] # NIL}

(* Every variable has its type.                                            *)
TypeOK ==
    /\ head \in Indexes
    /\ tail \in Indexes
    /\ slot \in [Slots -> Elements \cup {NIL}]
    /\ pc \in [Threads -> PcValues]
    /\ ticket \in [Threads -> Indexes]
    /\ held \in [Threads -> Elements \cup {NIL}]
    /\ outside \in SUBSET Elements

(* A thread has an element in hand exactly while one of its pushes is in   *)
(* progress: no return path of push or tryPush forgets the argument.       *)
HeldWhilePushing ==
    \A t \in Threads :
        held[t] # NIL <=> pc[t] \in {"push", "tryPush", "tryPushCas"}

(* No element is lost: one that is in no slot and in no thread's hand is   *)
(* with the callers.  A store over a full slot would break it.             *)
NoneLost ==
    \A e \in Elements :
        \/ e \in outside
        \/ \E i \in Slots : slot[i] = e
        \/ \E t \in Threads : held[t] = e

(* No element is in two places: the callers, the hands of the threads and  *)
(* the slots never share one, so no message is delivered or freed twice.   *)
NoneDuplicated ==
    /\ \A i, j \in Slots : slot[i] # NIL /\ slot[i] = slot[j] => i = j
    /\ \A t, u \in Threads : held[t] # NIL /\ held[t] = held[u] => t = u
    /\ \A i \in Slots : slot[i] \notin outside
    /\ \A t \in Threads : held[t] \notin outside
    /\ \A i \in Slots, t \in Threads : slot[i] # NIL => slot[i] # held[t]

(* Ownership of every element is exclusive and total through any           *)
(* interleaving of the operations, the stalled ones included.              *)
Conservation == NoneLost /\ NoneDuplicated

(* The signed distance of the two indexes is the number of elements stored *)
(* or about to be stored, less the pops that wait for one.  It is what     *)
(* size(), empty(), full() and the checks of tryPush and tryPop rely on.   *)
IndexBalance ==
    SignedDiff(head, tail) =
        Cardinality(Stored) + Cardinality(Pushing) - Cardinality(Popping)

(* Tickets bring pushes and pops together: once no push is in progress and *)
(* at least as many pops as pushes have been claimed, no element is stuck  *)
(* in a slot that no waiting pop will look at.                             *)
NoElementMissed ==
    Pushing = {} /\ SignedDiff(head, tail) <= 0 =>
        \A i \in Stored : \E t \in Popping : SlotOf(ticket[t]) = i

-----------------------------------------------------------------------------
(* The ring implements the abstract channel: the slots are its content and *)
(* the elements in the hands of pushing threads are its offers.            *)
Chan == INSTANCE Channel WITH offered <- held, content <- Content,
                              Capacity <- Size

(* Whatever the threads do, the callers see a channel that neither loses,  *)
(* invents nor repeats an element and never stores more than m_size.       *)
ImplementsChannel == Chan!Spec
=============================================================================
