------------------------------- MODULE Mailbox -------------------------------
(***************************************************************************)
(* One mailbox of a region: ItcMailbox (itcMailbox.h, itcMailbox.cc) and   *)
(* the local transport that sends to it (ItcTransportLocal), on top of the *)
(* lock-free queue that holds its messages.                                *)
(*                                                                         *)
(* The producers are the sending threads.  The single consumer is the      *)
(* thread that owns the mailbox: it receives, and it activates and         *)
(* deactivates the mailbox, over and over when the mailbox is reused.      *)
(* Messages are the queue's elements; they are allocated, sent, received   *)
(* or drained, and freed.                                                  *)
(***************************************************************************)
EXTENDS LockFreeQueue

CONSTANT Owner

ASSUME MailboxAssumption == Consumers = {Owner} /\ Owner \notin Producers

VARIABLES
    active,   \* m_isActive
    stage,    \* which mailbox operation each thread is in
    arg,      \* the message of a send between its check and its push
    freed,    \* messages whose memory is not allocated
    inbox,    \* messages receive returned and the owner has not freed
    leaked    \* messages send returned ITC_OK for and no one refers to

mvars == <<head, tail, slot, pc, ticket, held, outside,
           active, stage, arg, freed, inbox, leaked>>
memory == <<freed, inbox, leaked>>

Enter(t, s) == stage' = [stage EXCEPT ![t] = s]

\* The messages a sender has allocated and not yet sent.
Unsent == outside \ (freed \cup inbox \cup leaked \cup {arg[t] : t \in Threads})

-----------------------------------------------------------------------------
(* Faulty variants of the operations below, for testing the properties.    *)

\* push without the test of m_isActive
SendUnchecked(t, e) ==
    /\ stage[t] = "idle"
    /\ e \in Unsent
    /\ arg' = [arg EXCEPT ![t] = e]
    /\ Enter(t, "push")
    /\ UNCHANGED <<vars, active, memory>>

\* a transport that frees what it has sent, as the System V one does
SendStoreFrees(t) ==
    /\ stage[t] = "push"
    /\ PushStore(t)
    /\ freed' = freed \cup {held[t]}
    /\ Enter(t, "idle")
    /\ UNCHANGED <<active, arg, inbox, leaked>>

\* setState(false) without the drain
DeactivateOnly(t) ==
    /\ stage[t] = "idle"
    /\ active
    /\ active' = FALSE
    /\ UNCHANGED <<vars, stage, arg, memory>>

-----------------------------------------------------------------------------
MInit ==
    /\ Init
    /\ active = FALSE
    /\ stage = [t \in Threads |-> "idle"]
    /\ arg = [t \in Threads |-> NIL]
    /\ freed = Elements
    /\ inbox = {}
    /\ leaked = {}

-----------------------------------------------------------------------------
(* ItcAdminMessageHelper::allocate and deallocate.                         *)

Allocate(e) ==
    /\ e \in freed
    /\ freed' = freed \ {e}
    /\ UNCHANGED <<vars, active, arg, stage, inbox, leaked>>

Deallocate(e) ==
    /\ e \in inbox
    /\ inbox' = inbox \ {e}
    /\ freed' = freed \cup {e}
    /\ UNCHANGED <<vars, active, arg, stage, leaked>>

-----------------------------------------------------------------------------
(* ItcTransportLocal::send: ItcMailbox::push reads m_isActive, and pushes  *)
(* if it was set.  Its result is ignored, so send reports ITC_OK also for  *)
(* a message that an inactive mailbox did not take.                        *)

SendSeesActive(t, e) ==
    /\ stage[t] = "idle"
    /\ active
    /\ e \in Unsent
    /\ arg' = [arg EXCEPT ![t] = e]
    /\ Enter(t, "push")
    /\ UNCHANGED <<vars, active, memory>>

SendSeesInactive(t, e) ==
    /\ stage[t] = "idle"
    /\ ~active
    /\ e \in Unsent
    /\ leaked' = leaked \cup {e}
    /\ UNCHANGED <<vars, active, arg, stage, freed, inbox>>

SendReserve(t) ==
    /\ stage[t] = "push"
    /\ arg[t] # NIL
    /\ PushReserve(t, arg[t])
    /\ arg' = [arg EXCEPT ![t] = NIL]
    /\ UNCHANGED <<active, stage, memory>>

SendStore(t) ==
    /\ stage[t] = "push"
    /\ PushStore(t)
    /\ Enter(t, "idle")
    /\ UNCHANGED <<active, arg, memory>>

-----------------------------------------------------------------------------
(* ItcTransportLocal::receive: ItcMailbox::pop, blocking or not.           *)

ReceiveBegin(t, mode) ==
    /\ stage[t] = "idle"
    /\ active
    /\ Enter(t, mode)
    /\ UNCHANGED <<vars, active, arg, memory>>

ReceiveReserve(t) ==
    /\ stage[t] = "receive"
    /\ PopReserve(t)
    /\ UNCHANGED <<active, stage, arg, memory>>

\* The steps of a tryPop that do not end it.
TryPopStep(t) ==
    TryPopLoad(t) \/ TryPopSome(t) \/ TryPopReserve(t) \/ TryPopRetry(t)

ReceiveTry(t) ==
    /\ stage[t] = "tryReceive"
    /\ TryPopStep(t)
    /\ UNCHANGED <<active, stage, arg, memory>>

ReceiveNothing(t) ==
    /\ stage[t] = "tryReceive"
    /\ TryPopEmpty(t)
    /\ Enter(t, "idle")
    /\ UNCHANGED <<active, arg, memory>>

ReceiveTake(t) ==
    /\ stage[t] \in {"receive", "tryReceive"}
    /\ PopTake(t)
    /\ inbox' = inbox \cup {slot[SlotOf(ticket[t])]}
    /\ Enter(t, "idle")
    /\ UNCHANGED <<active, arg, freed, leaked>>

-----------------------------------------------------------------------------
(* ItcMailbox::setState.  Deactivation drains the queue: as long as        *)
(* empty() is false, tryPop and deallocate what it returned.  tryPop finds *)
(* an element then, the owner being the only consumer: its test for an     *)
(* empty queue has no step here, and a drain that met it would be stuck    *)
(* (DeactivationTerminates).                                               *)

Activate(t) ==
    /\ stage[t] = "idle"
    /\ ~active
    /\ active' = TRUE
    /\ UNCHANGED <<vars, stage, arg, memory>>

Deactivate(t) ==
    /\ stage[t] = "idle"
    /\ active
    /\ active' = FALSE
    /\ Enter(t, "drain")
    /\ UNCHANGED <<vars, arg, memory>>

DrainLoad(t) ==
    /\ stage[t] = "drain"
    /\ SizeLoadHead(t) \/ SizeLoadTail(t)
    /\ UNCHANGED <<active, stage, arg, memory>>

DrainEnd(t) ==
    /\ stage[t] = "drain"
    /\ SizeRead(t) = 0
    /\ SizeReturn(t)
    /\ Enter(t, "idle")
    /\ UNCHANGED <<active, arg, memory>>

DrainMore(t) ==
    /\ stage[t] = "drain"
    /\ SizeRead(t) # 0
    /\ SizeReturn(t)
    /\ Enter(t, "drainPop")
    /\ UNCHANGED <<active, arg, memory>>

DrainTry(t) ==
    /\ stage[t] = "drainPop"
    /\ TryPopStep(t)
    /\ UNCHANGED <<active, stage, arg, memory>>

DrainTake(t) ==
    /\ stage[t] = "drainPop"
    /\ PopTake(t)
    /\ freed' = freed \cup {slot[SlotOf(ticket[t])]}
    /\ Enter(t, "drain")
    /\ UNCHANGED <<active, arg, inbox, leaked>>

-----------------------------------------------------------------------------
SenderStep(t) ==
    \/ \E e \in Elements : SendSeesActive(t, e) \/ SendSeesInactive(t, e)
    \/ SendReserve(t)
    \/ SendStore(t)

ReceiveStep(t) ==
    \/ ReceiveReserve(t)
    \/ ReceiveTry(t)
    \/ ReceiveNothing(t)
    \/ ReceiveTake(t)

DrainStep(t) ==
    \/ DrainLoad(t)
    \/ DrainEnd(t)
    \/ DrainMore(t)
    \/ DrainTry(t)
    \/ DrainTake(t)

OwnerStep(t) ==
    \/ \E mode \in {"receive", "tryReceive"} : ReceiveBegin(t, mode)
    \/ ReceiveStep(t)
    \/ Activate(t)
    \/ Deactivate(t)
    \/ DrainStep(t)

MNext ==
    \/ \E e \in Elements : Allocate(e) \/ Deallocate(e)
    \/ \E t \in Producers : SenderStep(t)
    \/ \E t \in Consumers : OwnerStep(t)

MSpec == MInit /\ [][MNext]_mvars

(***************************************************************************)
(* An operation that has begun runs on: a sender that saw the mailbox      *)
(* active pushes its message, and the owner finishes its receive or its    *)
(* drain.  A weak compare-exchange does not fail for ever.  No one has to  *)
(* begin anything.                                                         *)
(***************************************************************************)
MFairness ==
    /\ \A t \in Producers :
        WF_mvars(SendReserve(t) \/ SendStore(t))
    /\ \A t \in Consumers :
        /\ WF_mvars(ReceiveStep(t) \/ DrainStep(t))
        /\ SF_mvars(TryPopReserve(t) /\ (ReceiveTry(t) \/ DrainTry(t)))

MFairSpec == MSpec /\ MFairness

-----------------------------------------------------------------------------
\* The messages in the hands of sending threads, before and inside push.
InHand == ({arg[t] : t \in Threads} \cup {held[t] : t \in Threads}) \ {NIL}

\* Where the memory of a message can be known, besides a caller yet to send.
Places == <<freed, inbox, leaked, InHand, Content>>

(* A message is in one place only: neither the drain nor the receiver      *)
(* frees one that a sender is pushing or a slot still holds, none is freed *)
(* twice, and none is received twice.                                      *)
OwnershipExclusive ==
    \A i, j \in DOMAIN Places : i # j => Places[i] \cap Places[j] = {}

(* A deactivated mailbox holds at most one message for each sender: the    *)
(* one whose push had seen it active.  Messages do not pile up in it,      *)
(* however often it is reused.                                             *)
StrandedBound ==
    ~active /\ stage[Owner] = "idle" =>
        Cardinality(Stored) + Cardinality(Pushing) <= Cardinality(Producers)

(* setState(false) returns: the drain does not run after new messages, nor *)
(* spin for ever on a ticket whose sender has not stored yet.              *)
DeactivationTerminates ==
    stage[Owner] \in {"drain", "drainPop"} ~> stage[Owner] = "idle"

(* A non-blocking receive returns, although it waits for the message of a  *)
(* sender that has taken a ticket and is still about to store.             *)
TryReceiveReturns == stage[Owner] = "tryReceive" ~> stage[Owner] = "idle"

(* A sender caught in flight by a deactivation gets out of push, even when *)
(* nobody receives any more (there are no more senders than slots).        *)
InFlightSendEnds ==
    \A t \in Producers :
        stage[t] = "push" /\ ~active ~> stage[t] = "idle" \/ active
=============================================================================
