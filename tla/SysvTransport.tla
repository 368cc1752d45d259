---------------------------- MODULE SysvTransport ----------------------------
(***************************************************************************)
(* ItcTransportSysvMsgQueue: messages from the threads of one region (a    *)
(* process) to another region, over the kernel message queue that the      *)
(* receiving region's rx thread creates.  The receiving process may exit   *)
(* or crash and start again at any moment; its queue survives a crash.     *)
(* The senders share the cached contact of that region without a lock.     *)
(*                                                                         *)
(* The kernel (msgget, msgsnd, msgrcv, msgctl) is external: one queue at a *)
(* time belongs to the receiver's key, and its identifier is new each time *)
(* the queue is created.                                                   *)
(*                                                                         *)
(* The rx thread starts with a value of m_maxMsgSize such as the tests     *)
(* give it.  With its initial value, SIZE_MAX, the allocation of the rx    *)
(* buffer throws and ends the process: that is RxCrash after the setup.    *)
(***************************************************************************)
EXTENDS Integers, Sequences

CONSTANTS
    Senders,      \* threads of the sending region
    Messages,     \* messages to the receiving region
    UserSize,     \* size of each message: msgno and payload, in bytes
    KernelMax,    \* msgmax, the kernel's limit on the size of a message
    QueueBytes,   \* msgmnb, its limit on the bytes in a queue
    MaxMsgSize,   \* m_maxMsgSize when the rx thread starts, 0 for not known
    Capacity,     \* messages the kernel queue holds before msgsnd blocks
    Lives,        \* bound: how often the receiving process starts
    NoMsg

RegionDefault == -1           \* ITC_MAILBOX_ID_DEFAULT: 0xFFFFFFFF, as a signed integer
ReceiverRegion == 2 * 2^20    \* the receiver's region bits
PreambleSize == 16            \* ITC_ADMIN_MESSAGE_PREAMBLE_SIZE
EndpointSize == 1             \* ITC_ADMIN_MESSAGE_ENDPOINT_SIZE
MsgnoSize == 4                \* ITC_MESSAGE_MSGNO_SIZE
MinSize == PreambleSize + MsgnoSize + EndpointSize
LongSize == 8                 \* sizeof(long)

ASSUME SysvAssumption ==
    /\ UserSize \in [Messages -> Nat]
    /\ \A m \in Messages : UserSize[m] >= MsgnoSize
    /\ KernelMax \in Nat /\ QueueBytes \in Nat /\ MaxMsgSize \in Nat
    /\ Capacity \in Nat \ {0} /\ Lives \in Nat
    /\ NoMsg \notin Messages

\* The bytes msgsnd is asked to send and msgrcv reports, without the long.
WireSize(m) == PreambleSize + UserSize[m] + EndpointSize

VARIABLES
    queueId,    \* identifier of the kernel queue of the receiver's key, or -1
    queued,     \* the messages in it
    created,    \* how many queues have been created: the next identifier
    contact,    \* m_contactList.at(projectId) of the sending region
    pc,         \* where each sending thread is in send
    msg,        \* its message
    found,      \* what getMsgQueueId returned to it
    freed,      \* messages deallocated by the sending region
    rx,         \* where the receiver's rx thread is
    rxId,       \* m_msgQueueId of the receiver
    life,       \* how often the receiver has started
    sentIn,     \* in which life of the receiver a message was put in a queue
    delivered   \* messages forwarded to local mailboxes, with their life

kernel == <<queueId, queued, created>>
sending == <<contact, pc, msg, found, freed>>
receiving == <<rx, rxId, life>>
svars == <<kernel, sending, receiving, sentIn, delivered>>

NoContact == [regionId |-> RegionDefault, msgQueueId |-> -1]

Goto(s, label) == pc' = [pc EXCEPT ![s] = label]

Init ==
    /\ queueId = -1 /\ queued = <<>> /\ created = 0
    /\ contact = NoContact
    /\ pc = [s \in Senders |-> "idle"]
    /\ msg = [s \in Senders |-> NoMsg]
    /\ found = [s \in Senders |-> -1]
    /\ freed = {}
    /\ rx = "down" /\ rxId = -1 /\ life = 0
    /\ sentIn = [m \in Messages |-> 0]
    /\ delivered = <<>>

-----------------------------------------------------------------------------
(* Faulty variants of the operations below, for testing the properties.    *)

\* a retry although msgsnd has succeeded
MsgsndOkRetries(s) ==
    /\ pc[s] = "msgsnd"
    /\ queueId # -1 /\ contact.msgQueueId = queueId
    /\ Len(queued) < Capacity
    /\ queued' = Append(queued, msg[s])
    /\ sentIn' = [sentIn EXCEPT ![msg[s]] = life]
    /\ UNCHANGED <<queueId, created, sending, receiving, delivered>>

\* the renewal of the contact without the new identifier
addRegionOnly(s) ==
    /\ pc[s] = "add"
    /\ contact' = [contact EXCEPT !.regionId = ReceiverRegion]
    /\ found' = [found EXCEPT ![s] = -1]
    /\ Goto(s, "msgsnd")
    /\ UNCHANGED <<kernel, msg, freed, receiving, sentIn, delivered>>

\* a receiver that keeps what it finds in the queue
RxStatAny ==
    /\ rx = "stat"
    /\ rx' = "serving"
    /\ UNCHANGED <<kernel, sending, rxId, life, sentIn, delivered>>

-----------------------------------------------------------------------------
(* send: msgsnd in a loop, renewing the contact when the queue is gone.    *)

\* The early returns, for a transport that is not initialised and a receiver
\* outside the supported regions, leave the message with its caller and
\* change nothing.
SendBegin(s, m) ==
    /\ pc[s] = "idle"
    /\ m \in Messages \ (freed \cup {msg[t] : t \in Senders})
    /\ msg' = [msg EXCEPT ![s] = m]
    /\ Goto(s, "msgsnd")
    /\ UNCHANGED <<kernel, contact, found, freed, receiving, sentIn, delivered>>

Accepts(m) == queueId # -1 /\ contact.msgQueueId = queueId /\ WireSize(m) <= KernelMax

\* A full queue blocks the caller.
MsgsndOk(s) ==
    /\ pc[s] = "msgsnd"
    /\ Accepts(msg[s])
    /\ Len(queued) < Capacity
    /\ queued' = Append(queued, msg[s])
    /\ sentIn' = [sentIn EXCEPT ![msg[s]] = life]
    /\ Goto(s, "free")
    /\ UNCHANGED <<queueId, created, contact, msg, found, freed, receiving, delivered>>

\* EINVAL: no such queue, or a message too long for the kernel; EIDRM: the
\* queue was removed while the caller was blocked on it.  (EINTR and every
\* other error only go round the loop.)
MsgsndInvalid(s) ==
    /\ pc[s] = "msgsnd"
    /\ ~Accepts(msg[s])
    /\ Goto(s, "remove")
    /\ UNCHANGED <<kernel, contact, msg, found, freed, receiving, sentIn, delivered>>

removeContactInfoAtIndex(s) ==
    /\ pc[s] = "remove"
    /\ contact' = NoContact
    /\ Goto(s, "lookup")
    /\ UNCHANGED <<kernel, msg, found, freed, receiving, sentIn, delivered>>

\* msgget(key, 0): the queue there is now, or -1 (ENOENT)
getMsgQueueId(s) ==
    /\ pc[s] = "lookup"
    /\ found' = [found EXCEPT ![s] = queueId]
    /\ Goto(s, "add")
    /\ UNCHANGED <<kernel, contact, msg, freed, receiving, sentIn, delivered>>

addContactInfoAtIndex(s) ==
    /\ pc[s] = "add"
    /\ contact' = IF found[s] # -1
                  THEN [regionId |-> ReceiverRegion, msgQueueId |-> found[s]]
                  ELSE contact
    /\ found' = [found EXCEPT ![s] = -1]
    /\ Goto(s, IF contact'.regionId = 0 THEN "free" ELSE "msgsnd")
    /\ UNCHANGED <<kernel, msg, freed, receiving, sentIn, delivered>>

\* After the loop the message is deallocated, and send returns ITC_OK.
SendReturn(s) ==
    /\ pc[s] = "free"
    /\ freed' = freed \cup {msg[s]}
    /\ msg' = [msg EXCEPT ![s] = NoMsg]
    /\ Goto(s, "idle")
    /\ UNCHANGED <<kernel, contact, found, receiving, sentIn, delivered>>

-----------------------------------------------------------------------------
(* sysvMsgQueueRxThread of the receiving region.                           *)

\* msgget(key, IPC_CREAT): the queue of a former life, or a new one
RxStart ==
    /\ rx = "down"
    /\ life < Lives
    /\ life' = life + 1
    /\ \/ queueId # -1 /\ UNCHANGED kernel
       \/ queueId = -1 /\ queueId' = created /\ created' = created + 1 /\ queued' = <<>>
    /\ rxId' = queueId'
    /\ rx' = "stat"
    /\ UNCHANGED <<sending, sentIn, delivered>>

\* IPC_STAT: is the queue empty?
RxStatEmpty ==
    /\ rx = "stat"
    /\ queued = <<>>
    /\ rx' = "serving"
    /\ UNCHANGED <<kernel, sending, rxId, life, sentIn, delivered>>

RxStatOld ==
    /\ rx = "stat"
    /\ queued # <<>>
    /\ rx' = "remove"
    /\ UNCHANGED <<kernel, sending, rxId, life, sentIn, delivered>>

\* IPC_RMID: the queue and what is in it are gone
RxRemove ==
    /\ rx = "remove"
    /\ queueId' = -1 /\ queued' = <<>>
    /\ rx' = "recreate"
    /\ UNCHANGED <<created, sending, rxId, life, sentIn, delivered>>

RxRecreate ==
    /\ rx = "recreate"
    /\ queueId' = created /\ created' = created + 1
    /\ rxId' = queueId'
    /\ rx' = "serving"
    /\ UNCHANGED <<queued, sending, life, sentIn, delivered>>

\* The length test of the receive loop.
TooSmall(m) == WireSize(m) <= LongSize + MinSize

\* The kernel is asked (IPC_INFO) unless the size is known.
getMaxMessageSize ==
    IF MaxMsgSize > 0 THEN MaxMsgSize
    ELSE CHOOSE n \in {KernelMax, QueueBytes} : n <= KernelMax /\ n <= QueueBytes

\* msgrcv is given sizeof(long) less than the buffer has.  With a longer
\* message it fails (E2BIG), the message stays, and the loop tries again.
Fits(m) == WireSize(m) <= getMaxMessageSize - LongSize

RxForward ==
    /\ rx = "serving"
    /\ queued # <<>> /\ Fits(Head(queued))
    /\ ~TooSmall(Head(queued))
    /\ delivered' = Append(delivered, [msg |-> Head(queued), life |-> life])
    /\ queued' = Tail(queued)
    /\ UNCHANGED <<queueId, created, sending, receiving, sentIn>>

RxDropSmall ==
    /\ rx = "serving"
    /\ queued # <<>> /\ Fits(Head(queued))
    /\ TooSmall(Head(queued))
    /\ queued' = Tail(queued)
    /\ UNCHANGED <<queueId, created, sending, receiving, sentIn, delivered>>

\* The thread is cancelled in msgrcv, or a call of msgctl fails before that
\* and it returns: destructRxThread removes the queue.  (When msgget fails
\* m_msgQueueId is -1, and the end of the thread is as in RxCrash.)
RxExit ==
    /\ rx \in {"stat", "remove", "serving"}
    /\ queueId' = -1 /\ queued' = <<>>
    /\ rxId' = -1
    /\ rx' = "down"
    /\ UNCHANGED <<created, sending, life, sentIn, delivered>>

\* The process dies anywhere and the kernel keeps the queue.
RxCrash ==
    /\ rx # "down"
    /\ rxId' = -1
    /\ rx' = "down"
    /\ UNCHANGED <<kernel, sending, life, sentIn, delivered>>

-----------------------------------------------------------------------------
SendStep(s) ==
    \/ MsgsndOk(s)
    \/ MsgsndInvalid(s)
    \/ removeContactInfoAtIndex(s)
    \/ getMsgQueueId(s)
    \/ addContactInfoAtIndex(s)
    \/ SendReturn(s)

RxStep ==
    \/ RxStatEmpty
    \/ RxStatOld
    \/ RxRemove
    \/ RxRecreate
    \/ RxForward
    \/ RxDropSmall

Next ==
    \/ \E s \in Senders : (\E m \in Messages : SendBegin(s, m)) \/ SendStep(s)
    \/ RxStep
    \/ RxStart
    \/ RxExit
    \/ RxCrash

Spec == Init /\ [][Next]_svars

(***************************************************************************)
(* A sending thread keeps running, and so does a living rx thread.  Nobody *)
(* has to start a send, or to start, end or crash the receiver.  Two       *)
(* senders that renew the shared contact in perfect lock step could undo   *)
(* each other's work for ever: the strong fairness of MsgsndOk says that a *)
(* preemptive scheduler does not keep them in that step.                   *)
(***************************************************************************)
Fairness ==
    /\ \A s \in Senders : WF_svars(SendStep(s)) /\ SF_svars(MsgsndOk(s))
    /\ WF_svars(RxStep)

FairSpec == Spec /\ Fairness

-----------------------------------------------------------------------------
Seen == queued \o [i \in DOMAIN delivered |-> delivered[i].msg]

(* The retries never send a message twice: it is in the kernel queue or    *)
(* forwarded at most once, whatever became of the queue in between.        *)
SentAtMostOnce ==
    \A i, j \in DOMAIN Seen : Seen[i] = Seen[j] => i = j

(* A restarted receiver forwards nothing that was sent to a former life of *)
(* it: a queue found with messages in it is replaced before it is read.    *)
NothingFromFormerLife ==
    \A i \in DOMAIN delivered : sentIn[delivered[i].msg] = delivered[i].life

(* A sender whose cached identifier has become stale finds the new queue   *)
(* and completes, once the receiver stays up, although another sender may  *)
(* be renewing, and thereby removing, the shared contact at the same time. *)
SendRecovers ==
    <>[](rx = "serving") =>
        \A s \in Senders : pc[s] # "idle" ~> pc[s] = "idle"
=============================================================================
