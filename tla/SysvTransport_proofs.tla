------------------------ MODULE SysvTransport_proofs -------------------------
(***************************************************************************)
(* Proofs about SysvTransport for every number of senders and messages,    *)
(* every size of message, every limit of the kernel and every number of    *)
(* lives of the receiver.                                                  *)
(***************************************************************************)
EXTENDS SysvTransport, SequenceTheorems, TLAPS

PcValues == {"idle", "msgsnd", "remove", "lookup", "add", "free"}
RxValues == {"down", "stat", "remove", "recreate", "serving"}
Deliveries == [msg : Messages, life : Nat]

(* Every variable of the transport has its type.                           *)
TypeOK ==
    /\ queueId \in Int
    /\ queued \in Seq(Messages)
    /\ created \in Nat
    /\ contact \in [regionId : {RegionDefault, ReceiverRegion}, msgQueueId : Int]
    /\ pc \in [Senders -> PcValues]
    /\ msg \in [Senders -> Messages \cup {NoMsg}]
    /\ found \in [Senders -> Int]
    /\ freed \in SUBSET Messages
    /\ rx \in RxValues
    /\ rxId \in Int
    /\ life \in Nat
    /\ sentIn \in [Messages -> Nat]
    /\ delivered \in Seq(Deliveries)

(* A thread has a message exactly while it is in send, no two threads have *)
(* the same one, and none has one that was freed.                          *)
OwnMessage ==
    \A s \in Senders :
        /\ msg[s] = NoMsg <=> pc[s] = "idle"
        /\ msg[s] \notin freed
        /\ \A t \in Senders : msg[s] = msg[t] /\ msg[s] # NoMsg => s = t

\* send is done with m, or would be as soon as its thread runs
Done(m) == m \in freed \/ \E s \in Senders : pc[s] = "free" /\ msg[s] = m

(* What is in the kernel queue, or was forwarded, is done with; so a       *)
(* message whose msgsnd is still to come is in neither.                    *)
SeenIsDone ==
    /\ \A i \in DOMAIN queued : Done(queued[i])
    /\ \A i \in DOMAIN delivered : Done(delivered[i].msg)

(* The parts of SentAtMostOnce: the kernel queue, the forwarded messages,  *)
(* and the two together.                                                   *)
QueuedOnce ==
    \A i, j \in DOMAIN queued : queued[i] = queued[j] => i = j
DeliveredOnce ==
    \A i, j \in DOMAIN delivered : delivered[i].msg = delivered[j].msg => i = j
QueuedOrDelivered ==
    \A i \in DOMAIN queued, j \in DOMAIN delivered : queued[i] # delivered[j].msg

(* There is nothing in a queue that does not exist, nor has the receiver   *)
(* made a new one yet when it has just removed the old; and only a life of *)
(* the receiver makes one.                                                 *)
QueueOK ==
    /\ rx # "down" => life > 0
    /\ queueId = -1 => queued = <<>>
    /\ queueId # -1 => life > 0
    /\ rx = "recreate" => queueId = -1

(* A receiver that serves has only messages of its present life to read.   *)
QueuedInThisLife ==
    rx = "serving" => \A i \in DOMAIN queued : sentIn[queued[i]] = life

(* What send has freed was put in a queue, in some life of the receiver.   *)
DoneMeansSent == \A m \in Messages : Done(m) => sentIn[m] > 0

(* The inductive invariant.  A retry sends nothing twice because what is   *)
(* in the queue is done with (SeenIsDone), and send begins with a message  *)
(* that is not (OwnMessage); a former life's messages are not read because *)
(* a receiver serves only a queue it has seen empty or has just created    *)
(* (QueueOK, QueuedInThisLife).                                            *)
IInv ==
    /\ TypeOK
    /\ OwnMessage
    /\ SeenIsDone
    /\ QueuedOnce /\ DeliveredOnce /\ QueuedOrDelivered
    /\ QueueOK
    /\ QueuedInThisLife
    /\ NothingFromFormerLife
    /\ DoneMeansSent

-----------------------------------------------------------------------------
(* What Append does, position by position.                                 *)
LEMMA AppendFacts ==
    ASSUME NEW S, NEW q \in Seq(S), NEW e \in S
    PROVE  /\ Append(q, e) \in Seq(S)
           /\ Len(q) + 1 \in DOMAIN Append(q, e) /\ Append(q, e)[Len(q) + 1] = e
           /\ \A i \in DOMAIN q : i \in DOMAIN Append(q, e) /\ Append(q, e)[i] = q[i]
           /\ \A i \in DOMAIN Append(q, e) : i \in DOMAIN q \/ i = Len(q) + 1
<1> DEFINE a == Append(q, e)
<1>1. /\ a \in Seq(S) /\ Len(a) = Len(q) + 1
      /\ \A i \in 1 .. Len(q) : a[i] = q[i]
      /\ a[Len(q) + 1] = e
  BY AppendProperties
<1> HIDE DEF a
<1>2. DOMAIN a = 1 .. Len(q) + 1 /\ DOMAIN q = 1 .. Len(q) /\ Len(q) \in Nat
  BY <1>1, LenProperties
<1>3. /\ Len(q) + 1 \in DOMAIN a
      /\ \A i \in DOMAIN q : i \in DOMAIN a
      /\ \A i \in DOMAIN a : i \in DOMAIN q \/ i = Len(q) + 1
  BY <1>2
<1> QED
  BY <1>1, <1>2, <1>3 DEF a

(* What Tail does, position by position.                                   *)
LEMMA TailFacts ==
    ASSUME NEW S, NEW q \in Seq(S), q # <<>>
    PROVE  /\ Tail(q) \in Seq(S)
           /\ 1 \in DOMAIN q /\ q[1] = Head(q) /\ Head(q) \in S
           /\ \A i \in DOMAIN Tail(q) :
                /\ i \in Nat \ {0} /\ i + 1 \in DOMAIN q
                /\ Tail(q)[i] = q[i + 1]
<1> DEFINE r == Tail(q)
<1>1. /\ r \in Seq(S) /\ Len(r) = Len(q) - 1 /\ Head(q) \in S
      /\ \A i \in 1 .. Len(r) : r[i] = q[i + 1]
  BY HeadTailProperties
<1>2. q[1] = Head(q)
  OBVIOUS
<1> HIDE DEF r
<1>3. DOMAIN r = 1 .. Len(r) /\ DOMAIN q = 1 .. Len(q) /\ Len(q) \in Nat \ {0}
  BY <1>1, LenProperties, EmptySeq
<1>4. /\ 1 \in DOMAIN q
      /\ \A i \in DOMAIN r : i \in Nat \ {0} /\ i + 1 \in DOMAIN q
  BY <1>1, <1>3
<1>5. \A i \in DOMAIN r : r[i] = q[i + 1]
  BY <1>1, <1>3
<1> QED
  BY <1>1, <1>2, <1>4, <1>5 DEF r

(* The empty queue has no positions.                                       *)
LEMMA EmptyFacts == \A q : q = <<>> => q \in Seq(Messages) /\ DOMAIN q = {}
OBVIOUS

(* The region ids and queue ids of a contact.                              *)
LEMMA ContactFacts ==
    ASSUME TypeOK
    PROVE  /\ contact.regionId # 0 /\ RegionDefault # 0 /\ ReceiverRegion # 0
           /\ RegionDefault \in Int /\ ReceiverRegion \in Int
BY DEF TypeOK, RegionDefault, ReceiverRegion

(* The contact that a renewal leaves never makes send give up.             *)
LEMMA ContactRenewed ==
    ASSUME TypeOK, NEW s \in Senders, addContactInfoAtIndex(s)
    PROVE  contact'.regionId # 0
<1>1. CASE found[s] # -1
  BY <1>1, ContactFacts DEF addContactInfoAtIndex
<1>2. CASE found[s] = -1
  BY <1>2, ContactFacts DEF addContactInfoAtIndex
<1> QED
  BY <1>1, <1>2

(* What a successful msgsnd changes: send was not done with the message,   *)
(* now it is, and the queue has it at its end.                             *)
LEMMA SentFacts ==
    ASSUME TypeOK, OwnMessage, SeenIsDone, NEW s \in Senders, MsgsndOk(s)
    PROVE  /\ msg[s] \in Messages /\ ~Done(msg[s])
           /\ \A m : Done(m)' <=> Done(m) \/ m = msg[s]
           /\ \A i \in DOMAIN queued' :
                \/ i \in DOMAIN queued /\ queued'[i] = queued[i]
                \/ i = Len(queued) + 1 /\ queued'[i] = msg[s]
           /\ delivered' = delivered /\ rx' = rx /\ life' = life
<1>1. pc[s] = "msgsnd" /\ pc' = [pc EXCEPT ![s] = "free"] /\ UNCHANGED <<msg, freed>>
  BY DEF MsgsndOk, Goto
<1>2. msg[s] \in Messages /\ ~Done(msg[s])
  BY <1>1, SysvAssumption DEF TypeOK, OwnMessage, Done
<1>3. \A m : Done(m)' <=> Done(m) \/ m = msg[s]
  BY <1>1 DEF TypeOK, Done
<1>4. queued' = Append(queued, msg[s]) /\ delivered' = delivered /\ rx' = rx /\ life' = life
  BY DEF MsgsndOk, receiving
<1>5. \A i \in DOMAIN Append(queued, msg[s]) :
        \/ i \in DOMAIN queued /\ Append(queued, msg[s])[i] = queued[i]
        \/ i = Len(queued) + 1 /\ Append(queued, msg[s])[i] = msg[s]
  BY <1>2, AppendFacts DEF TypeOK
<1> QED
  BY <1>2, <1>3, <1>4, <1>5

(* What reading a message changes: the queue moves up by one.              *)
LEMMA ReadFacts ==
    ASSUME TypeOK, RxForward \/ RxDropSmall
    PROVE  /\ 1 \in DOMAIN queued /\ queued[1] = Head(queued)
           /\ \A i \in DOMAIN queued' :
                /\ i \in Nat \ {0} /\ i + 1 \in DOMAIN queued
                /\ queued'[i] = queued[i + 1]
           /\ \A m : Done(m)' <=> Done(m)
           /\ rx = "serving" /\ rx' = rx /\ life' = life /\ sentIn' = sentIn
<1>1. queued # <<>> /\ queued' = Tail(queued)
  BY DEF RxForward, RxDropSmall
<1>2. rx = "serving" /\ rx' = rx /\ life' = life /\ sentIn' = sentIn
  BY DEF RxForward, RxDropSmall, receiving
<1>3. \A m : Done(m)' <=> Done(m)
  BY DEF RxForward, RxDropSmall, sending, Done
<1> QED
  BY <1>1, <1>2, <1>3, TailFacts DEF TypeOK

(* What forwarding adds to the forwarded messages.                         *)
LEMMA ForwardFacts ==
    ASSUME TypeOK, RxForward
    PROVE  \A i \in DOMAIN delivered' :
                \/ i \in DOMAIN delivered /\ delivered'[i] = delivered[i]
                \/ /\ i = Len(delivered) + 1
                   /\ delivered'[i].msg = queued[1] /\ delivered'[i].life = life
<1> DEFINE d == [msg |-> Head(queued), life |-> life]
<1>1. d \in Deliveries /\ d.msg = queued[1] /\ d.life = life
  BY TailFacts DEF RxForward, TypeOK, Deliveries
<1>2. delivered' = Append(delivered, d)
  BY DEF RxForward
<1> HIDE DEF d
<1>3. \A i \in DOMAIN Append(delivered, d) :
        \/ i \in DOMAIN delivered /\ Append(delivered, d)[i] = delivered[i]
        \/ i = Len(delivered) + 1 /\ Append(delivered, d)[i] = d
  BY <1>1, AppendFacts DEF TypeOK
<1> QED
  BY <1>1, <1>2, <1>3

(* Every step keeps the types.                                             *)
LEMMA TypeStep ==
    ASSUME TypeOK, OwnMessage, Next
    PROVE  TypeOK'
<1> USE SysvAssumption, ContactFacts, EmptyFacts
    DEF TypeOK, PcValues, RxValues, NoContact, kernel, sending, receiving, Goto
<1>1. ASSUME NEW s \in Senders, NEW m \in Messages, SendBegin(s, m) PROVE TypeOK'
  BY <1>1 DEF SendBegin
<1>2. ASSUME NEW s \in Senders, MsgsndOk(s) PROVE TypeOK'
  <2>1. msg[s] \in Messages
    BY <1>2 DEF MsgsndOk, OwnMessage
  <2>2. queued' \in Seq(Messages)
    BY <1>2, <2>1, AppendFacts DEF MsgsndOk
  <2> QED
    BY <1>2, <2>1, <2>2 DEF MsgsndOk
<1>3. ASSUME NEW s \in Senders, MsgsndInvalid(s) PROVE TypeOK'
  BY <1>3 DEF MsgsndInvalid
<1>4. ASSUME NEW s \in Senders, removeContactInfoAtIndex(s) PROVE TypeOK'
  BY <1>4 DEF removeContactInfoAtIndex
<1>5. ASSUME NEW s \in Senders, getMsgQueueId(s) PROVE TypeOK'
  BY <1>5 DEF getMsgQueueId
<1>6. ASSUME NEW s \in Senders, addContactInfoAtIndex(s) PROVE TypeOK'
  <2>1. found[s] \in Int
    BY <1>6
  <2>2. contact' \in [regionId : {RegionDefault, ReceiverRegion}, msgQueueId : Int]
    <3>1. CASE found[s] # -1
      BY <1>6, <2>1, <3>1 DEF addContactInfoAtIndex
    <3>2. CASE found[s] = -1
      BY <1>6, <3>2 DEF addContactInfoAtIndex
    <3> QED
      BY <3>1, <3>2
  <2>3. pc' \in [Senders -> PcValues]
    BY <1>6 DEF addContactInfoAtIndex
  <2>4. found' \in [Senders -> Int]
    BY <1>6 DEF addContactInfoAtIndex
  <2> QED
    BY <1>6, <2>2, <2>3, <2>4 DEF addContactInfoAtIndex
<1>7. ASSUME NEW s \in Senders, SendReturn(s) PROVE TypeOK'
  BY <1>7 DEF SendReturn, OwnMessage
<1>8. ASSUME RxStatEmpty PROVE TypeOK'
  BY <1>8 DEF RxStatEmpty
<1>9. ASSUME RxStatOld PROVE TypeOK'
  BY <1>9 DEF RxStatOld
<1>10. ASSUME RxRemove PROVE TypeOK'
  BY <1>10 DEF RxRemove
<1>11. ASSUME RxRecreate PROVE TypeOK'
  BY <1>11 DEF RxRecreate
<1>12. ASSUME RxForward PROVE TypeOK'
  <2>1. queued' \in Seq(Messages) /\ Head(queued) \in Messages
    BY <1>12, TailFacts DEF RxForward
  <2>2. [msg |-> Head(queued), life |-> life] \in Deliveries
    BY <2>1 DEF Deliveries
  <2>3. delivered' \in Seq(Deliveries)
    BY <1>12, <2>2, AppendFacts DEF RxForward
  <2> QED
    BY <1>12, <2>1, <2>3 DEF RxForward
<1>13. ASSUME RxDropSmall PROVE TypeOK'
  BY <1>13, TailFacts DEF RxDropSmall
<1>14. ASSUME RxStart PROVE TypeOK'
  <2>1. queueId' \in Int /\ created' \in Nat /\ queued' \in Seq(Messages)
    <3>1. CASE UNCHANGED kernel
      BY <3>1
    <3>2. CASE queueId' = created /\ created' = created + 1 /\ queued' = <<>>
      BY <3>2
    <3> QED
      BY <1>14, <3>1, <3>2 DEF RxStart
  <2>2. rxId' \in Int /\ rx' \in RxValues /\ life' \in Nat
    BY <1>14, <2>1 DEF RxStart
  <2> QED
    BY <1>14, <2>1, <2>2 DEF RxStart
<1>15. ASSUME RxExit PROVE TypeOK'
  BY <1>15 DEF RxExit
<1>16. ASSUME RxCrash PROVE TypeOK'
  BY <1>16 DEF RxCrash
<1> QED
  BY <1>1, <1>2, <1>3, <1>4, <1>5, <1>6, <1>7, <1>8, <1>9, <1>10,
     <1>11, <1>12, <1>13, <1>14, <1>15, <1>16
  DEF Next, SendStep, RxStep

(* Every step keeps the messages apart.                                    *)
LEMMA OwnStep ==
    ASSUME TypeOK, OwnMessage, Next
    PROVE  OwnMessage'
<1> USE SysvAssumption, ContactFacts
    DEF TypeOK, PcValues, OwnMessage, kernel, sending, receiving, Goto
<1>1. ASSUME NEW s \in Senders, NEW m \in Messages, SendBegin(s, m) PROVE OwnMessage'
  BY <1>1 DEF SendBegin
<1>2. ASSUME NEW s \in Senders, MsgsndOk(s) PROVE OwnMessage'
  BY <1>2 DEF MsgsndOk
<1>3. ASSUME NEW s \in Senders, MsgsndInvalid(s) PROVE OwnMessage'
  BY <1>3 DEF MsgsndInvalid
<1>4. ASSUME NEW s \in Senders, removeContactInfoAtIndex(s) PROVE OwnMessage'
  BY <1>4 DEF removeContactInfoAtIndex
<1>5. ASSUME NEW s \in Senders, getMsgQueueId(s) PROVE OwnMessage'
  BY <1>5 DEF getMsgQueueId
<1>6. ASSUME NEW s \in Senders, addContactInfoAtIndex(s) PROVE OwnMessage'
  BY <1>6 DEF addContactInfoAtIndex
<1>7. ASSUME NEW s \in Senders, SendReturn(s) PROVE OwnMessage'
  BY <1>7 DEF SendReturn
<1>8. ASSUME RxStatEmpty PROVE OwnMessage'
  BY <1>8 DEF RxStatEmpty
<1>9. ASSUME RxStatOld PROVE OwnMessage'
  BY <1>9 DEF RxStatOld
<1>10. ASSUME RxRemove PROVE OwnMessage'
  BY <1>10 DEF RxRemove
<1>11. ASSUME RxRecreate PROVE OwnMessage'
  BY <1>11 DEF RxRecreate
<1>12. ASSUME RxForward PROVE OwnMessage'
  BY <1>12 DEF RxForward
<1>13. ASSUME RxDropSmall PROVE OwnMessage'
  BY <1>13 DEF RxDropSmall
<1>14. ASSUME RxStart PROVE OwnMessage'
  BY <1>14 DEF RxStart
<1>15. ASSUME RxExit PROVE OwnMessage'
  BY <1>15 DEF RxExit
<1>16. ASSUME RxCrash PROVE OwnMessage'
  BY <1>16 DEF RxCrash
<1> QED
  BY <1>1, <1>2, <1>3, <1>4, <1>5, <1>6, <1>7, <1>8, <1>9, <1>10,
     <1>11, <1>12, <1>13, <1>14, <1>15, <1>16
  DEF Next, SendStep, RxStep

(* Renewing the contact changes nothing about who is done with what.       *)
LEMMA RenewFacts ==
    ASSUME TypeOK, NEW s \in Senders,
           \/ MsgsndInvalid(s) \/ removeContactInfoAtIndex(s)
           \/ getMsgQueueId(s) \/ addContactInfoAtIndex(s)
    PROVE  /\ \A m : Done(m)' <=> Done(m)
           /\ queued' = queued /\ delivered' = delivered
<1>1. pc[s] # "free" /\ UNCHANGED <<msg, freed, queued, delivered>>
  BY DEF MsgsndInvalid, removeContactInfoAtIndex, getMsgQueueId,
         addContactInfoAtIndex, kernel
<1>2. pc'[s] # "free" /\ \A t \in Senders \ {s} : pc'[t] = pc[t]
  <2>1. PICK l : l # "free" /\ pc' = [pc EXCEPT ![s] = l]
    BY ContactRenewed DEF MsgsndInvalid, removeContactInfoAtIndex, getMsgQueueId,
                          addContactInfoAtIndex, Goto
  <2> QED
    BY <2>1 DEF TypeOK
<1> QED
  BY <1>1, <1>2 DEF Done

(* A message comes into the queue only when send is done with it.          *)
LEMMA SeenStep ==
    ASSUME TypeOK, OwnMessage, SeenIsDone, Next
    PROVE  SeenIsDone'
<1> USE SysvAssumption, ContactFacts
    DEF TypeOK, PcValues, OwnMessage, SeenIsDone, Done, kernel, sending,
        receiving, Goto
<1>1. ASSUME NEW s \in Senders, NEW m \in Messages, SendBegin(s, m) PROVE SeenIsDone'
  BY <1>1 DEF SendBegin
<1>2. ASSUME NEW s \in Senders, MsgsndOk(s) PROVE SeenIsDone'
  <2> HIDE DEF Done, TypeOK, OwnMessage
  <2> QED
    BY <1>2, SentFacts
<1>3. ASSUME NEW s \in Senders, MsgsndInvalid(s) PROVE SeenIsDone'
  <2> HIDE DEF Done, TypeOK, OwnMessage
  <2> QED
    BY <1>3, RenewFacts
<1>4. ASSUME NEW s \in Senders, removeContactInfoAtIndex(s) PROVE SeenIsDone'
  <2> HIDE DEF Done, TypeOK, OwnMessage
  <2> QED
    BY <1>4, RenewFacts
<1>5. ASSUME NEW s \in Senders, getMsgQueueId(s) PROVE SeenIsDone'
  <2> HIDE DEF Done, TypeOK, OwnMessage
  <2> QED
    BY <1>5, RenewFacts
<1>6. ASSUME NEW s \in Senders, addContactInfoAtIndex(s) PROVE SeenIsDone'
  <2> HIDE DEF Done, TypeOK, OwnMessage
  <2> QED
    BY <1>6, RenewFacts
<1>7. ASSUME NEW s \in Senders, SendReturn(s) PROVE SeenIsDone'
  BY <1>7 DEF SendReturn
<1>8. ASSUME RxStatEmpty PROVE SeenIsDone'
  BY <1>8 DEF RxStatEmpty
<1>9. ASSUME RxStatOld PROVE SeenIsDone'
  BY <1>9 DEF RxStatOld
<1>10. ASSUME RxRemove PROVE SeenIsDone'
  BY <1>10 DEF RxRemove
<1>11. ASSUME RxRecreate PROVE SeenIsDone'
  BY <1>11 DEF RxRecreate
<1>12. ASSUME RxForward PROVE SeenIsDone'
  <2> HIDE DEF Done, TypeOK, OwnMessage
  <2> QED
    BY <1>12, ReadFacts, ForwardFacts
<1>13. ASSUME RxDropSmall PROVE SeenIsDone'
  <2> HIDE DEF Done, TypeOK, OwnMessage
  <2>1. delivered' = delivered
    BY <1>13 DEF RxDropSmall
  <2> QED
    BY <1>13, <2>1, ReadFacts
<1>14. ASSUME RxStart PROVE SeenIsDone'
  BY <1>14 DEF RxStart
<1>15. ASSUME RxExit PROVE SeenIsDone'
  BY <1>15 DEF RxExit
<1>16. ASSUME RxCrash PROVE SeenIsDone'
  BY <1>16 DEF RxCrash
<1> QED
  BY <1>1, <1>2, <1>3, <1>4, <1>5, <1>6, <1>7, <1>8, <1>9, <1>10,
     <1>11, <1>12, <1>13, <1>14, <1>15, <1>16
  DEF Next, SendStep, RxStep

(* A message comes into the queue once.                                    *)
LEMMA OnceStep ==
    ASSUME TypeOK, OwnMessage, SeenIsDone, QueuedOnce, DeliveredOnce, QueuedOrDelivered, Next
    PROVE  QueuedOnce' /\ DeliveredOnce' /\ QueuedOrDelivered'
<1> USE EmptyFacts
    DEF QueuedOnce, DeliveredOnce, QueuedOrDelivered, kernel, sending, receiving,
        Goto
<1> DEFINE Goal == QueuedOnce' /\ DeliveredOnce' /\ QueuedOrDelivered'
<1>1. ASSUME NEW s \in Senders, NEW m \in Messages, SendBegin(s, m) PROVE Goal
  BY <1>1 DEF SendBegin
<1>2. ASSUME NEW s \in Senders, MsgsndOk(s) PROVE Goal
  <2>1. \A i \in DOMAIN queued : queued[i] # msg[s]
    BY <1>2, SentFacts DEF SeenIsDone
  <2>2. \A i \in DOMAIN delivered : delivered[i].msg # msg[s]
    BY <1>2, SentFacts DEF SeenIsDone
  <2> QED
    BY <1>2, <2>1, <2>2, SentFacts
<1>3. ASSUME NEW s \in Senders, MsgsndInvalid(s) PROVE Goal
  BY <1>3 DEF MsgsndInvalid
<1>4. ASSUME NEW s \in Senders, removeContactInfoAtIndex(s) PROVE Goal
  BY <1>4 DEF removeContactInfoAtIndex
<1>5. ASSUME NEW s \in Senders, getMsgQueueId(s) PROVE Goal
  BY <1>5 DEF getMsgQueueId
<1>6. ASSUME NEW s \in Senders, addContactInfoAtIndex(s) PROVE Goal
  BY <1>6 DEF addContactInfoAtIndex
<1>7. ASSUME NEW s \in Senders, SendReturn(s) PROVE Goal
  BY <1>7 DEF SendReturn
<1>8. ASSUME RxStatEmpty PROVE Goal
  BY <1>8 DEF RxStatEmpty
<1>9. ASSUME RxStatOld PROVE Goal
  BY <1>9 DEF RxStatOld
<1>10. ASSUME RxRemove PROVE Goal
  BY <1>10 DEF RxRemove
<1>11. ASSUME RxRecreate PROVE Goal
  BY <1>11 DEF RxRecreate
<1>12. ASSUME RxForward PROVE Goal
  <2>1. \A i \in DOMAIN queued' :
          /\ i \in Nat \ {0} /\ i + 1 \in DOMAIN queued
          /\ queued'[i] = queued[i + 1]
    BY <1>12, ReadFacts
  <2>2. 1 \in DOMAIN queued
    BY <1>12, ReadFacts
  <2>3. QueuedOnce'
    <3> SUFFICES ASSUME NEW i \in DOMAIN queued', NEW j \in DOMAIN queued',
                        queued'[i] = queued'[j]
                 PROVE  i = j
      OBVIOUS
    <3>1. i + 1 = j + 1
      BY <2>1
    <3> QED
      BY <2>1, <3>1
  <2>4. \A i \in DOMAIN queued' : queued'[i] # queued[1]
    <3> SUFFICES ASSUME NEW i \in DOMAIN queued' PROVE queued'[i] # queued[1]
      OBVIOUS
    <3>1. i + 1 # 1
      BY <2>1
    <3> QED
      BY <2>1, <2>2, <3>1
  <2> QED
    BY <1>12, <2>1, <2>2, <2>3, <2>4, ForwardFacts
<1>13. ASSUME RxDropSmall PROVE Goal
  <2>1. \A i \in DOMAIN queued' :
          /\ i \in Nat \ {0} /\ i + 1 \in DOMAIN queued
          /\ queued'[i] = queued[i + 1]
    BY <1>13, ReadFacts
  <2>2. delivered' = delivered
    BY <1>13 DEF RxDropSmall
  <2>3. QueuedOnce'
    <3> SUFFICES ASSUME NEW i \in DOMAIN queued', NEW j \in DOMAIN queued',
                        queued'[i] = queued'[j]
                 PROVE  i = j
      OBVIOUS
    <3>1. i + 1 = j + 1
      BY <2>1
    <3> QED
      BY <2>1, <3>1
  <2> QED
    BY <2>1, <2>2, <2>3
<1>14. ASSUME RxStart PROVE Goal
  BY <1>14 DEF RxStart
<1>15. ASSUME RxExit PROVE Goal
  BY <1>15 DEF RxExit
<1>16. ASSUME RxCrash PROVE Goal
  BY <1>16 DEF RxCrash
<1> QED
  BY <1>1, <1>2, <1>3, <1>4, <1>5, <1>6, <1>7, <1>8, <1>9, <1>10,
     <1>11, <1>12, <1>13, <1>14, <1>15, <1>16
  DEF Next, SendStep, RxStep

(* A queue that does not exist is empty.                                   *)
LEMMA QueueStep ==
    ASSUME TypeOK, QueueOK, Next
    PROVE  QueueOK'
<1> USE SysvAssumption, EmptyFacts
    DEF TypeOK, RxValues, QueueOK, kernel, sending, receiving, Goto
<1>1. ASSUME NEW s \in Senders, NEW m \in Messages, SendBegin(s, m) PROVE QueueOK'
  BY <1>1 DEF SendBegin
<1>2. ASSUME NEW s \in Senders, MsgsndOk(s) PROVE QueueOK'
  BY <1>2 DEF MsgsndOk, Accepts
<1>3. ASSUME NEW s \in Senders, MsgsndInvalid(s) PROVE QueueOK'
  BY <1>3 DEF MsgsndInvalid
<1>4. ASSUME NEW s \in Senders, removeContactInfoAtIndex(s) PROVE QueueOK'
  BY <1>4 DEF removeContactInfoAtIndex
<1>5. ASSUME NEW s \in Senders, getMsgQueueId(s) PROVE QueueOK'
  BY <1>5 DEF getMsgQueueId
<1>6. ASSUME NEW s \in Senders, addContactInfoAtIndex(s) PROVE QueueOK'
  BY <1>6 DEF addContactInfoAtIndex
<1>7. ASSUME NEW s \in Senders, SendReturn(s) PROVE QueueOK'
  BY <1>7 DEF SendReturn
<1>8. ASSUME RxStatEmpty PROVE QueueOK'
  BY <1>8 DEF RxStatEmpty
<1>9. ASSUME RxStatOld PROVE QueueOK'
  BY <1>9 DEF RxStatOld
<1>10. ASSUME RxRemove PROVE QueueOK'
  BY <1>10 DEF RxRemove
<1>11. ASSUME RxRecreate PROVE QueueOK'
  BY <1>11 DEF RxRecreate
<1>12. ASSUME RxForward PROVE QueueOK'
  BY <1>12 DEF RxForward
<1>13. ASSUME RxDropSmall PROVE QueueOK'
  BY <1>13 DEF RxDropSmall
<1>14. ASSUME RxStart PROVE QueueOK'
  BY <1>14 DEF RxStart
<1>15. ASSUME RxExit PROVE QueueOK'
  BY <1>15 DEF RxExit
<1>16. ASSUME RxCrash PROVE QueueOK'
  BY <1>16 DEF RxCrash
<1> QED
  BY <1>1, <1>2, <1>3, <1>4, <1>5, <1>6, <1>7, <1>8, <1>9, <1>10,
     <1>11, <1>12, <1>13, <1>14, <1>15, <1>16
  DEF Next, SendStep, RxStep

(* Only messages of the present life are read.                             *)
LEMMA LifeStep ==
    ASSUME TypeOK, OwnMessage, SeenIsDone, QueueOK, QueuedInThisLife, NothingFromFormerLife, Next
    PROVE  QueuedInThisLife' /\ NothingFromFormerLife'
<1> USE EmptyFacts
    DEF RxValues, QueueOK, QueuedInThisLife, NothingFromFormerLife, kernel,
        sending, receiving, Goto
<1> DEFINE Goal == QueuedInThisLife' /\ NothingFromFormerLife'
<1>1. ASSUME NEW s \in Senders, NEW m \in Messages, SendBegin(s, m) PROVE Goal
  BY <1>1 DEF SendBegin
<1>2. ASSUME NEW s \in Senders, MsgsndOk(s) PROVE Goal
  <2>1. \A i \in DOMAIN queued : queued[i] \in Messages /\ queued[i] # msg[s]
    BY <1>2, SentFacts, LenProperties DEF SeenIsDone, TypeOK
  <2>2. \A i \in DOMAIN delivered :
          delivered[i].msg \in Messages /\ delivered[i].msg # msg[s]
    <3>1. \A i \in DOMAIN delivered : delivered[i] \in Deliveries
      BY LenProperties DEF TypeOK
    <3>2. \A d \in Deliveries : d.msg \in Messages
      BY DEF Deliveries
    <3> QED
      BY <1>2, <3>1, <3>2, SentFacts DEF SeenIsDone
  <2>3. /\ sentIn'[msg[s]] = life
        /\ \A m \in Messages : m # msg[s] => sentIn'[m] = sentIn[m]
    BY <1>2, SentFacts DEF MsgsndOk, TypeOK
  <2> QED
    BY <1>2, <2>1, <2>2, <2>3, SentFacts
<1>3. ASSUME NEW s \in Senders, MsgsndInvalid(s) PROVE Goal
  BY <1>3 DEF MsgsndInvalid
<1>4. ASSUME NEW s \in Senders, removeContactInfoAtIndex(s) PROVE Goal
  BY <1>4 DEF removeContactInfoAtIndex
<1>5. ASSUME NEW s \in Senders, getMsgQueueId(s) PROVE Goal
  BY <1>5 DEF getMsgQueueId
<1>6. ASSUME NEW s \in Senders, addContactInfoAtIndex(s) PROVE Goal
  BY <1>6 DEF addContactInfoAtIndex
<1>7. ASSUME NEW s \in Senders, SendReturn(s) PROVE Goal
  BY <1>7 DEF SendReturn
<1>8. ASSUME RxStatEmpty PROVE Goal
  BY <1>8 DEF RxStatEmpty
<1>9. ASSUME RxStatOld PROVE Goal
  BY <1>9 DEF RxStatOld
<1>10. ASSUME RxRemove PROVE Goal
  BY <1>10 DEF RxRemove
<1>11. ASSUME RxRecreate PROVE Goal
  BY <1>11 DEF RxRecreate
<1>12. ASSUME RxForward PROVE Goal
  <2>1. sentIn[queued[1]] = life
    BY <1>12, ReadFacts
  <2> QED
    BY <1>12, <2>1, ReadFacts, ForwardFacts
<1>13. ASSUME RxDropSmall PROVE Goal
  <2>1. delivered' = delivered
    BY <1>13 DEF RxDropSmall
  <2> QED
    BY <1>13, <2>1, ReadFacts
<1>14. ASSUME RxStart PROVE Goal
  BY <1>14 DEF RxStart
<1>15. ASSUME RxExit PROVE Goal
  BY <1>15 DEF RxExit
<1>16. ASSUME RxCrash PROVE Goal
  BY <1>16 DEF RxCrash
<1> QED
  BY <1>1, <1>2, <1>3, <1>4, <1>5, <1>6, <1>7, <1>8, <1>9, <1>10,
     <1>11, <1>12, <1>13, <1>14, <1>15, <1>16
  DEF Next, SendStep, RxStep

(* A message that send is done with has been sent.                         *)
LEMMA DoneStep ==
    ASSUME TypeOK, OwnMessage, SeenIsDone, QueueOK, DoneMeansSent, Next
    PROVE  DoneMeansSent'
<1> USE SysvAssumption, ContactFacts
    DEF TypeOK, PcValues, OwnMessage, QueueOK, DoneMeansSent, Done, kernel,
        sending, receiving, Goto
<1>1. ASSUME NEW s \in Senders, NEW m \in Messages, SendBegin(s, m) PROVE DoneMeansSent'
  BY <1>1 DEF SendBegin
<1>2. ASSUME NEW s \in Senders, MsgsndOk(s) PROVE DoneMeansSent'
  <2> HIDE DEF Done
  <2>1. life > 0
    BY <1>2 DEF MsgsndOk, Accepts
  <2>2. /\ sentIn'[msg[s]] = life
        /\ \A m \in Messages : m # msg[s] => sentIn'[m] = sentIn[m]
    BY <1>2, SentFacts DEF MsgsndOk
  <2> QED
    BY <1>2, <2>1, <2>2, SentFacts
<1>3. ASSUME NEW s \in Senders, MsgsndInvalid(s) PROVE DoneMeansSent'
  BY <1>3 DEF MsgsndInvalid
<1>4. ASSUME NEW s \in Senders, removeContactInfoAtIndex(s) PROVE DoneMeansSent'
  BY <1>4 DEF removeContactInfoAtIndex
<1>5. ASSUME NEW s \in Senders, getMsgQueueId(s) PROVE DoneMeansSent'
  BY <1>5 DEF getMsgQueueId
<1>6. ASSUME NEW s \in Senders, addContactInfoAtIndex(s) PROVE DoneMeansSent'
  BY <1>6 DEF addContactInfoAtIndex
<1>7. ASSUME NEW s \in Senders, SendReturn(s) PROVE DoneMeansSent'
  BY <1>7 DEF SendReturn
<1>8. ASSUME RxStatEmpty PROVE DoneMeansSent'
  BY <1>8 DEF RxStatEmpty
<1>9. ASSUME RxStatOld PROVE DoneMeansSent'
  BY <1>9 DEF RxStatOld
<1>10. ASSUME RxRemove PROVE DoneMeansSent'
  BY <1>10 DEF RxRemove
<1>11. ASSUME RxRecreate PROVE DoneMeansSent'
  BY <1>11 DEF RxRecreate
<1>12. ASSUME RxForward PROVE DoneMeansSent'
  BY <1>12 DEF RxForward
<1>13. ASSUME RxDropSmall PROVE DoneMeansSent'
  BY <1>13 DEF RxDropSmall
<1>14. ASSUME RxStart PROVE DoneMeansSent'
  BY <1>14 DEF RxStart
<1>15. ASSUME RxExit PROVE DoneMeansSent'
  BY <1>15 DEF RxExit
<1>16. ASSUME RxCrash PROVE DoneMeansSent'
  BY <1>16 DEF RxCrash
<1> QED
  BY <1>1, <1>2, <1>3, <1>4, <1>5, <1>6, <1>7, <1>8, <1>9, <1>10,
     <1>11, <1>12, <1>13, <1>14, <1>15, <1>16
  DEF Next, SendStep, RxStep

-----------------------------------------------------------------------------
(* The invariant holds in every behaviour of the transport.                *)
THEOREM InductiveInvariant == Spec => []IInv
<1>1. Init => IInv
  <2> SUFFICES ASSUME Init PROVE IInv
    OBVIOUS
  <2> USE SysvAssumption DEF Init
  <2>1. TypeOK
    <3>1. queued \in Seq(Messages) /\ delivered \in Seq(Deliveries)
      OBVIOUS
    <3>2. contact \in [regionId : {RegionDefault, ReceiverRegion}, msgQueueId : Int]
      BY DEF NoContact
    <3>3. pc \in [Senders -> PcValues] /\ rx \in RxValues
      BY DEF PcValues, RxValues
    <3>4. found \in [Senders -> Int] /\ sentIn \in [Messages -> Nat]
          /\ msg \in [Senders -> Messages \cup {NoMsg}]
      OBVIOUS
    <3> QED
      BY <3>1, <3>2, <3>3, <3>4 DEF TypeOK
  <2>2. DOMAIN queued = {} /\ DOMAIN delivered = {}
    OBVIOUS
  <2>3. OwnMessage /\ QueueOK
    BY DEF OwnMessage, QueueOK
  <2>4. SeenIsDone /\ QueuedOnce /\ DeliveredOnce /\ QueuedOrDelivered
    BY <2>2 DEF SeenIsDone, QueuedOnce, DeliveredOnce, QueuedOrDelivered
  <2>5. QueuedInThisLife /\ NothingFromFormerLife
    BY <2>2 DEF QueuedInThisLife, NothingFromFormerLife
  <2>6. DoneMeansSent
    BY DEF DoneMeansSent, Done
  <2> QED
    BY <2>1, <2>3, <2>4, <2>5, <2>6 DEF IInv
<1>2. IInv /\ [Next]_svars => IInv'
  <2> SUFFICES ASSUME IInv, [Next]_svars PROVE IInv'
    OBVIOUS
  <2> USE DEF IInv
  <2>1. CASE Next
    BY <2>1, TypeStep, OwnStep, SeenStep, OnceStep, QueueStep, LifeStep, DoneStep
  <2>2. CASE UNCHANGED svars
    BY <2>2 DEF svars, kernel, sending, receiving, TypeOK, OwnMessage, SeenIsDone,
                QueuedOnce, DeliveredOnce, QueuedOrDelivered, QueueOK,
                QueuedInThisLife, NothingFromFormerLife, DoneMeansSent, Done
  <2> QED
    BY <2>1, <2>2
<1> QED
  BY <1>1, <1>2, PTL DEF Spec

(* No message is twice in the kernel queue and among the forwarded ones,   *)
(* however often send renews its contact and the receiver comes back.      *)
THEOREM NeverSentTwice == Spec => []SentAtMostOnce
<1>1. IInv => SentAtMostOnce
  <2> SUFFICES ASSUME IInv PROVE SentAtMostOnce
    OBVIOUS
  <2> USE DEF IInv
  <2> DEFINE f == [i \in DOMAIN delivered |-> delivered[i].msg]
             n == Len(queued)
             k == Len(delivered)
  <2>1. /\ n \in Nat /\ DOMAIN queued = 1 .. n
        /\ k \in Nat /\ DOMAIN delivered = 1 .. k
        /\ \A i \in 1 .. k : delivered[i] \in Deliveries
    BY LenProperties DEF TypeOK
  <2>2. \A i \in 1 .. k : delivered[i].msg \in Messages
    BY <2>1 DEF Deliveries
  <2>3. f \in Seq(Messages) /\ Len(f) = k
    BY <2>1, <2>2
  <2>4. \A i \in 1 .. k : f[i] = delivered[i].msg
    BY <2>1
  <2> HIDE DEF f, n, k
  <2>5. DOMAIN Seen = 1 .. n + k
        /\ \A i \in 1 .. n + k :
             Seen[i] = IF i <= n THEN queued[i] ELSE f[i - n]
    <3>1. Seen = queued \o f
      BY DEF Seen, f
    <3> QED
      BY <2>3, <3>1, ConcatProperties, LenProperties DEF TypeOK, n
  <2> SUFFICES ASSUME NEW i \in 1 .. n + k, NEW j \in 1 .. n + k, Seen[i] = Seen[j]
               PROVE  i = j
    BY <2>5 DEF SentAtMostOnce
  <2>6. CASE i <= n /\ j <= n
    BY <2>1, <2>5, <2>6 DEF QueuedOnce
  <2>7. CASE i <= n /\ j > n
    <3>1. /\ i \in 1 .. n /\ j - n \in 1 .. k
          /\ Seen[i] = queued[i] /\ Seen[j] = f[j - n]
      BY <2>1, <2>5, <2>7
    <3> QED
      BY <2>1, <2>4, <3>1 DEF QueuedOrDelivered
  <2>8. CASE i > n /\ j <= n
    <3>1. /\ j \in 1 .. n /\ i - n \in 1 .. k
          /\ Seen[j] = queued[j] /\ Seen[i] = f[i - n]
      BY <2>1, <2>5, <2>8
    <3> QED
      BY <2>1, <2>4, <3>1 DEF QueuedOrDelivered
  <2>9. CASE i > n /\ j > n
    <3>1. /\ i - n \in 1 .. k /\ j - n \in 1 .. k
          /\ Seen[i] = f[i - n] /\ Seen[j] = f[j - n]
      BY <2>1, <2>5, <2>9
    <3>2. i - n = j - n
      <4>1. delivered[i - n].msg = delivered[j - n].msg
        BY <2>4, <3>1
      <4>2. i - n \in DOMAIN delivered /\ j - n \in DOMAIN delivered
        BY <2>1, <3>1
      <4> QED
        BY <4>1, <4>2 DEF DeliveredOnce
    <3>3. i \in Int /\ j \in Int /\ n \in Int
      BY <2>1
    <3> QED
      BY <3>2, <3>3
  <2> QED
    BY <2>1, <2>6, <2>7, <2>8, <2>9
<1> QED
  BY <1>1, InductiveInvariant, PTL

(* A restarted receiver forwards nothing that was sent to a former life.   *)
THEOREM OnlyThisLife == Spec => []NothingFromFormerLife
BY InductiveInvariant, PTL DEF IInv

(* A message that send has deallocated, which is when it returns ITC_OK,   *)
(* was put in the kernel queue of a living or a crashed receiver before.   *)
THEOREM FreedWasSent == Spec => [](\A m \in freed : sentIn[m] > 0)
<1>1. IInv => \A m \in freed : sentIn[m] > 0
  BY DEF IInv, TypeOK, DoneMeansSent, Done
<1> QED
  BY <1>1, InductiveInvariant, PTL
=============================================================================
