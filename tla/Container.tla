------------------------------ MODULE Container ------------------------------
(***************************************************************************)
(* ConcurrentContainer (itcConcurrentContainer.h): the fixed set of        *)
(* entries of a region (its mailboxes), the free ones in a lock-free queue *)
(* and the named ones in a hash map under a mutex.  A thread takes a free  *)
(* entry, enters it under a name, removes the name and gives the entry     *)
(* back, the sequence of the region's threads and of the container's test. *)
(* Two threads may use the same name.                                      *)
(*                                                                         *)
(* The free queue is LockFreeQueue itself, with the entries as elements    *)
(* and every thread both producer and consumer.                            *)
(***************************************************************************)
EXTENDS LockFreeQueue

CONSTANTS
    Keys,        \* the names
    MaxTickets   \* bound: the number of entries taken in a behaviour

(***************************************************************************)
(* The bound keeps every index a stalled tryPush can hold within half of   *)
(* the index range of m_tail.  Beyond it, 2^31 pops during one call, the   *)
(* signed difference changes its sign and the free queue looks full.       *)
(***************************************************************************)
ASSUME ContainerAssumption ==
    /\ MaxTickets \in Nat
    /\ MaxTickets + Size < Wrap \div 2
    /\ Producers = Consumers
    /\ IsFiniteSet(Elements) /\ Cardinality(Elements) = Size
    /\ NIL \notin Keys

VARIABLES
    activeEntries,  \* m_activeEntries: name -> entry, or NIL
    stage,          \* what each thread is doing
    entry,          \* the entry it has taken
    key             \* the name it uses for it

cvars == <<head, tail, slot, pc, ticket, held, outside,
           activeEntries, stage, entry, key>>
local == <<stage, entry, key>>

Enter(t, s) == stage' = [stage EXCEPT ![t] = s]

\* The constructor has pushed every entry, in order.
CInit ==
    /\ head = (Start + Size) % Wrap
    /\ tail = Start
    /\ slot \in [Slots -> Elements]
    /\ \A i, j \in Slots : slot[i] = slot[j] => i = j
    /\ pc = [t \in Threads |-> "idle"]
    /\ ticket = [t \in Threads |-> 0]
    /\ held = [t \in Threads |-> NIL]
    /\ outside = {}
    /\ activeEntries = [k \in Keys |-> NIL]
    /\ stage = [t \in Threads |-> "none"]
    /\ entry = [t \in Threads |-> NIL]
    /\ key = [t \in Threads |-> NIL]

-----------------------------------------------------------------------------
(* Faulty variants of the operations below, for testing the properties.    *)

\* the condition of lookUpFromHashMap, which is inverted, in the removal
removeInverted(t) ==
    /\ stage[t] = "named"
    /\ Enter(t, "unnamed")
    /\ UNCHANGED <<vars, activeEntries, entry, key>>

-----------------------------------------------------------------------------
(* tryPopFromQueue, which is a blocking pop.                               *)

AcquireReserve(t) ==
    /\ stage[t] = "none"
    /\ (tail - Start) % Wrap < MaxTickets
    /\ PopReserve(t)
    /\ Enter(t, "acquiring")
    /\ UNCHANGED <<activeEntries, entry, key>>

AcquireTake(t) ==
    /\ stage[t] = "acquiring"
    /\ PopTake(t)
    /\ entry' = [entry EXCEPT ![t] = slot[SlotOf(ticket[t])]]
    /\ Enter(t, "taken")
    /\ UNCHANGED <<activeEntries, key>>

(* addEntryToHashMap returns false when the name is in use.                *)
addEntryToHashMap(t, k) ==
    /\ stage[t] = "taken"
    /\ key' = [key EXCEPT ![t] = k]
    /\ activeEntries' = IF activeEntries[k] # NIL THEN activeEntries
                        ELSE [activeEntries EXCEPT ![k] = entry[t]]
    /\ Enter(t, "named")
    /\ UNCHANGED <<vars, entry>>

(* removeEntryFromHashMap erases the name, whoever entered it.             *)
removeEntryFromHashMap(t) ==
    /\ stage[t] = "named"
    /\ activeEntries' = [activeEntries EXCEPT ![key[t]] = NIL]
    /\ key' = [key EXCEPT ![t] = NIL]
    /\ Enter(t, "unnamed")
    /\ UNCHANGED <<vars, entry>>

(* tryPushIntoQueue: the callers ignore its result.                        *)

ReleaseLoad(t) ==
    /\ stage[t] = "unnamed"
    /\ TryPushLoad(t, entry[t])
    /\ Enter(t, "releasing")
    /\ UNCHANGED <<activeEntries, entry, key>>

ReleaseCheck(t) ==
    /\ stage[t] = "releasing"
    /\ TryPushRoom(t) \/ TryPushReserve(t) \/ TryPushRetry(t)
    /\ UNCHANGED <<activeEntries, local>>

ReleaseEnd(t) ==
    /\ stage[t] = "releasing"
    /\ TryPushFull(t) \/ PushStore(t)
    /\ entry' = [entry EXCEPT ![t] = NIL]
    /\ Enter(t, "none")
    /\ UNCHANGED <<activeEntries, key>>

(* size: the entries that are not in the free queue, by two loads.         *)
SizeStep(t) ==
    /\ stage[t] = "none"
    /\ SizeLoadHead(t) \/ SizeLoadTail(t) \/ SizeReturn(t)
    /\ UNCHANGED <<activeEntries, local>>

Acquiring(t) == AcquireReserve(t) \/ AcquireTake(t)
Releasing(t) == removeEntryFromHashMap(t) \/ ReleaseLoad(t) \/ ReleaseCheck(t) \/ ReleaseEnd(t)

CNext ==
    \E t \in Threads :
        \/ Acquiring(t)
        \/ \E k \in Keys : addEntryToHashMap(t, k)
        \/ Releasing(t)
        \/ SizeStep(t)

CSpec == CInit /\ [][CNext]_cvars

-----------------------------------------------------------------------------
Owned == {entry[t] : t \in Threads} \ {NIL}

(* Every entry is free or has one owner, never both.  None is lost: an     *)
(* entry given back is not refused, although tryPush compares an old       *)
(* m_head with a new m_tail and pops that wait push m_tail past m_head.    *)
EntryInOnePlace ==
    /\ Owned \cup Content = Elements
    /\ Owned \cap Content = {}
    /\ \A t, u \in Threads : entry[t] # NIL /\ entry[t] = entry[u] => t = u

(* An entry that the map still names has not been given back: a name never *)
(* leads to a free or to a reused entry, although one thread's removal may *)
(* erase the name that another has entered.                                *)
NamedEntriesOwned ==
    \A k \in Keys : activeEntries[k] # NIL =>
        \E t \in Threads : /\ entry[t] = activeEntries[k]
                           /\ stage[t] = "named" /\ key[t] = k
=============================================================================
