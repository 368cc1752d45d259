------------------------------ MODULE Platform ------------------------------
(***************************************************************************)
(* The mailbox operations of ItcPlatform (itcPlatform.cc) in one client    *)
(* region: threads create, use and delete their mailboxes, exit, and       *)
(* release the platform, while itc-server follows their notifications.     *)
(*                                                                         *)
(* m_isInitialised is TRUE throughout.  No statement of this revision sets *)
(* it (only the befriended test class can), and while it is FALSE every    *)
(* operation returns at once; the model is about the code behind it.       *)
(*                                                                         *)
(* The container calls used here (emplace, at, remove, exist, clear, size) *)
(* are those of a former ConcurrentContainer.  They are external and       *)
(* atomic: emplace takes a free entry, remove frees one and leaves its     *)
(* bytes, which the code reads afterwards.  The id of a mailbox is the     *)
(* region's id with the index of its entry, so an index stands for an id;  *)
(* the default id, which no entry has the index of, is None.  Each thread  *)
(* names its mailboxes after itself.                                       *)
(***************************************************************************)
EXTENDS Naturals, Sequences, FiniteSets

CONSTANTS
    Threads,     \* threads of the region, and the names of their mailboxes
    Talkers,     \* the threads that use their mailboxes (a bound)
    Slots,       \* indexes of m_mboxList
    None,        \* a null pointer, ITC_MAILBOX_ID_DEFAULT
    QueueCap,    \* notifications the message queue of itc-server holds
    InboxCap     \* messages the queue of a mailbox holds

ASSUME PlatformAssumption ==
    /\ None \notin Slots \cup Threads
    /\ Talkers \subseteq Threads

\* ITC_NR_INTERNAL_USED_MAILBOXES
InternalMailboxes == 1

VARIABLES
    listed,     \* entries of m_mboxList in use
    name,       \* the name in each entry, also after its removal
    id,         \* mailboxId in each entry, also after its removal
    inbox,      \* the number of messages in each entry's queue
    my,         \* m_myMailbox of each thread, or indexOpt before it is set
    key,        \* the thread's value of m_destructKey
    pc,         \* where each thread is
    exiting,    \* threads in the destructor of m_destructKey
    msg,        \* the message a thread's user holds
    life,       \* how far a release has come
    toServer,   \* the message queue of itc-server
    directory,  \* the mailboxes itc-server knows
    refused,    \* history: entries createMailbox made and reported as failed
    misread,    \* history: mailboxes deleted under the default id
    crashed     \* the process has died

shared == <<listed, name, id, inbox>>
own == <<my, key, exiting>>
server == <<toServer, directory>>
history == <<refused, misread>>
vars == <<listed, name, id, inbox, my, key, pc, exiting, msg, life, toServer,
          directory, refused, misread, crashed>>

Go(t, l) == pc' = [pc EXCEPT ![t] = l]

\* A deletion ends in its caller, or ends the thread that is exiting.
Return(t) == Go(t, IF t \in exiting THEN "gone" ELSE "idle")

\* m_mboxList->exist(name)
Exist(n) == \E s \in listed : name[s] = n

\* The transport to itc-server works until release has closed it.
CanSend == life # "down"
Room == Len(toServer) < QueueCap

Notify(what, n, s) ==
    /\ CanSend
    /\ Room
    /\ toServer' = Append(toServer, [what |-> what, name |-> n, id |-> s])

PInit ==
    /\ listed = {}
    /\ name = [s \in Slots |-> None]
    /\ id = [s \in Slots |-> None]
    /\ inbox = [s \in Slots |-> 0]
    /\ my = [t \in Threads |-> None]
    /\ key = [t \in Threads |-> None]
    /\ pc = [t \in Threads |-> "idle"]
    /\ exiting = {}
    /\ msg = [t \in Threads |-> "none"]
    /\ life = "up"
    /\ toServer = <<>>
    /\ directory = {}
    /\ refused = {}
    /\ misread = {}
    /\ crashed = FALSE

-----------------------------------------------------------------------------
(* Faulty variants of the operations below, for testing the properties.    *)

\* the name too is read from the entry when the notification is built
DeleteNotifyReadsName(t) ==
    /\ pc[t] = "notifyDelete"
    /\ Notify("delete", name[my[t]], id[my[t]])
    /\ misread' = IF id[my[t]] = None THEN misread \cup {<<t, my[t]>>}
                                      ELSE misread \ {<<t, my[t]>>}
    /\ my' = [my EXCEPT ![t] = None]
    /\ Return(t)
    /\ UNCHANGED <<shared, key, exiting, msg, life, directory, refused, crashed>>

\* m_myMailbox is not reset
DeleteNotifyKeepsMine(t) ==
    /\ pc[t] = "notifyDelete"
    /\ Notify("delete", t, id[my[t]])
    /\ Return(t)
    /\ UNCHANGED <<shared, own, msg, life, directory, history, crashed>>

\* the key is not set
SetSpecificOmitted(t) ==
    /\ pc[t] = "setSpecific"
    /\ Go(t, "notifyCreate")
    /\ UNCHANGED <<shared, own, msg, life, server, history, crashed>>

-----------------------------------------------------------------------------
(* createMailbox.  A thread that has a mailbox gets the same id again, and *)
(* one that finds the list full gets none.                                 *)

Emplace(t, s) ==
    /\ pc[t] = "idle"
    /\ my[t] = None
    /\ s \notin listed
    /\ listed' = listed \cup {s}
    /\ name' = [name EXCEPT ![s] = t]
    /\ id' = [id EXCEPT ![s] = None]
    /\ inbox' = [inbox EXCEPT ![s] = 0]
    /\ my' = [my EXCEPT ![t] = s]
    /\ Go(t, "assignId")
    /\ UNCHANGED <<key, exiting, msg, life, server, history, crashed>>

\* The entry gets its id in a second step.
AssignId(t) ==
    /\ pc[t] = "assignId"
    /\ id' = [id EXCEPT ![my[t]] = my[t]]
    /\ Go(t, "setSpecific")
    /\ UNCHANGED <<listed, name, inbox, own, msg, life, server, history, crashed>>

SetSpecific(t) ==
    /\ pc[t] = "setSpecific"
    /\ life # "down"
    /\ key' = [key EXCEPT ![t] = my[t]]
    /\ Go(t, "notifyCreate")
    /\ UNCHANGED <<shared, my, exiting, msg, life, server, history, crashed>>

\* createMailbox returns ITC_MAILBOX_ID_DEFAULT: the entry stays in the list
\* and m_myMailbox stays set.
CreateFails(t) ==
    /\ refused' = refused \cup {my[t]}
    /\ Go(t, "idle")
    /\ UNCHANGED <<shared, own, msg, life, server, misread, crashed>>

SetSpecificFails(t) == pc[t] = "setSpecific" /\ CreateFails(t)

CreateNotify(t) ==
    /\ pc[t] = "notifyCreate"
    /\ Notify("create", t, id[my[t]])
    /\ Go(t, "idle")
    /\ UNCHANGED <<shared, own, msg, life, directory, history, crashed>>

CreateNotifyFails(t) == pc[t] = "notifyCreate" /\ ~CanSend /\ CreateFails(t)

-----------------------------------------------------------------------------
(* deleteMailbox.  The entry is given back before itc-server is told.  The *)
(* notification takes the name from a copy made before, but the id from    *)
(* the entry, which another thread may be taking anew.                     *)

\* The body of deleteMailbox for the id i that is in the thread's entry.
Remove(t, i) ==
    /\ listed' = listed \ {i}
    /\ refused' = refused \ {i}
    /\ Go(t, "notifyDelete")
    /\ UNCHANGED <<name, id, inbox, my, msg, life, server, misread, crashed>>

\* The user passes the id createMailbox returned.
Delete(t) ==
    /\ pc[t] = "idle"
    /\ my[t] # None
    /\ id[my[t]] = my[t]
    /\ Remove(t, my[t])
    /\ UNCHANGED <<key, exiting>>

DeleteNotify(t) ==
    /\ pc[t] = "notifyDelete"
    /\ Notify("delete", t, id[my[t]])
    /\ misread' = IF id[my[t]] = None THEN misread \cup {<<t, my[t]>>}
                                      ELSE misread \ {<<t, my[t]>>}
    /\ my' = [my EXCEPT ![t] = None]
    /\ Return(t)
    /\ UNCHANGED <<shared, key, exiting, msg, life, directory, refused, crashed>>

\* deleteMailbox returns ITC_FAILED with m_myMailbox still set.
DeleteNotifyFails(t) ==
    /\ pc[t] = "notifyDelete"
    /\ ~CanSend
    /\ Return(t)
    /\ UNCHANGED <<shared, own, msg, life, server, history, crashed>>

-----------------------------------------------------------------------------
(* A thread exits: destructMailboxAtThreadExit runs for a non-null value   *)
(* of the key, which deleteMailbox has not cleared, and deletes the entry  *)
(* if the name now in it is in the list.                                   *)

Exit(t) ==
    /\ pc[t] = "idle"
    /\ exiting' = exiting \cup {t}
    /\ key' = [key EXCEPT ![t] = None]
    /\ UNCHANGED <<shared, my, msg, life, server, history, crashed>>

\* No value, a name that is gone, or the mailbox of another thread.
ExitOnly(t) ==
    /\ \/ key[t] = None
       \/ key[t] # None /\ ~Exist(name[key[t]])
       \/ key[t] # None /\ my[t] # None /\ id[my[t]] # id[key[t]]
    /\ Exit(t)
    /\ Go(t, "gone")

ExitDeletes(t) ==
    /\ pc[t] = "idle"
    /\ key[t] # None /\ my[t] # None /\ id[my[t]] = id[key[t]]
    /\ Exist(name[key[t]])
    /\ exiting' = exiting \cup {t}
    /\ key' = [key EXCEPT ![t] = None]
    /\ Remove(t, id[key[t]])

\* deleteMailbox reads m_myMailbox->mailboxId of a null m_myMailbox.
ExitCrashes(t) ==
    /\ pc[t] = "idle"
    /\ key[t] # None /\ my[t] = None
    /\ Exist(name[key[t]])
    /\ crashed' = TRUE
    /\ UNCHANGED <<shared, own, pc, msg, life, server, history>>

-----------------------------------------------------------------------------
(* allocateMessage, deallocateMessage, send, receive.                      *)

AllocateMessage(t) ==
    /\ pc[t] = "idle"
    /\ msg[t] = "none"
    /\ msg' = [msg EXCEPT ![t] = "mine"]
    /\ UNCHANGED <<shared, own, pc, life, server, history, crashed>>

\* Freeing what is already free aborts, or goes unnoticed.
DeallocateMessage(t) ==
    /\ pc[t] = "idle"
    /\ msg[t] # "none"
    /\ msg' = [msg EXCEPT ![t] = "none"]
    /\ crashed' \in IF msg[t] = "freed" THEN BOOLEAN ELSE {FALSE}
    /\ UNCHANGED <<shared, own, pc, life, server, history>>

MaySend(t) == pc[t] = "idle" /\ my[t] # None /\ msg[t] = "mine"

\* ItcTransportLocal: the entry is there whether it is in use or not.
SendLocal(t, s) ==
    /\ MaySend(t)
    /\ s # id[my[t]]
    /\ inbox[s] < InboxCap
    /\ inbox' = [inbox EXCEPT ![s] = @ + 1]
    /\ msg' = [msg EXCEPT ![t] = "none"]
    /\ UNCHANGED <<listed, name, id, own, pc, life, server, history, crashed>>

\* ItcTransportSysvMsgQueue: another region of this world.
SendRegion(t) ==
    /\ MaySend(t)
    /\ CanSend
    /\ msg' = [msg EXCEPT ![t] = "none"]
    /\ UNCHANGED <<shared, own, pc, life, server, history, crashed>>

\* forwardMessageToItcServer sends a copy and frees the message, also when
\* the copy could not be sent and the caller is told ITC_FAILED.
ForwardWorld(t) ==
    /\ MaySend(t)
    /\ Notify("forward", t, id[my[t]])
    /\ msg' = [msg EXCEPT ![t] = "none"]
    /\ UNCHANGED <<shared, own, pc, life, directory, history, crashed>>

ForwardFails(t) ==
    /\ MaySend(t)
    /\ ~CanSend
    /\ msg' = [msg EXCEPT ![t] = "freed"]
    /\ UNCHANGED <<shared, own, pc, life, server, history, crashed>>

Receive(t) ==
    /\ pc[t] = "idle"
    /\ my[t] # None
    /\ msg[t] = "none"
    /\ inbox[my[t]] > 0
    /\ inbox' = [inbox EXCEPT ![my[t]] = @ - 1]
    /\ msg' = [msg EXCEPT ![t] = "mine"]
    /\ UNCHANGED <<listed, name, id, own, pc, life, server, history, crashed>>

\* The bits of the modes of a location, and of ITC_MASK_LOCATE (0x1110).
ITC_MODE_LOCATE_IN_REGION == {1}
ITC_MODE_LOCATE_IN_ALL == {1, 2, 3}
ITC_MASK_LOCATE == {4, 8, 12}

\* locateMailboxSync: the mask leaves nothing of a mode, so the list is not
\* searched and itc-server not asked; the caller gets the default contact.
LocateSync(t) ==
    /\ pc[t] = "idle"
    /\ \E mode \in SUBSET ITC_MODE_LOCATE_IN_ALL :
        LET locateMode == mode \cap ITC_MASK_LOCATE
        IN  /\ locateMode \cap ITC_MODE_LOCATE_IN_REGION = {}
            /\ locateMode \cap (ITC_MODE_LOCATE_IN_ALL \ ITC_MODE_LOCATE_IN_REGION) = {}
    /\ UNCHANGED vars

\* locateMailboxAsync: a request that is sent, and then freed a second time.
\* Whether the region has the mailbox only changes what the reply says.
LocateAsync(t) ==
    /\ pc[t] = "idle"
    /\ my[t] # None
    /\ Notify("locate", t, id[my[t]])
    /\ crashed' \in BOOLEAN
    /\ UNCHANGED <<shared, own, pc, msg, life, directory, history>>

-----------------------------------------------------------------------------
(* release: one mailbox may be left in the list, which is then cleared.    *)

ReleaseBegin(t) ==
    /\ pc[t] = "idle"
    /\ life = "up"
    /\ Cardinality(listed) <= InternalMailboxes
    /\ Go(t, "terminate")
    /\ UNCHANGED <<shared, own, msg, life, server, history, crashed>>

ReleaseTerminateFails(t) ==
    /\ pc[t] = "terminate"
    /\ Go(t, "idle")
    /\ UNCHANGED <<shared, own, msg, life, server, history, crashed>>

ReleaseClear(t) ==
    /\ pc[t] = "terminate"
    /\ listed' = {}
    /\ life' = IF life = "up" THEN "cleared" ELSE life
    /\ Go(t, "close")
    /\ UNCHANGED <<name, id, inbox, own, msg, server, history, crashed>>

\* The transports are closed and the key is deleted with everyone's value.
ReleaseClose(t) ==
    /\ pc[t] = "close"
    /\ life' = "down"
    /\ key' = [u \in Threads |-> None]
    /\ Go(t, "idle")
    /\ UNCHANGED <<shared, my, exiting, msg, server, history, crashed>>

-----------------------------------------------------------------------------
(* itc-server, which is not part of this revision, as its protocol         *)
(* (itcSystemProto.h) describes it.                                        *)

ServerStep ==
    /\ toServer # <<>>
    /\ LET m == Head(toServer)
           reply == m.what = "locate" /\ m.id # None
       IN  /\ directory' = CASE m.what = "create" -> directory \cup {<<m.name, m.id>>}
                             [] m.what = "delete" -> directory \ {<<m.name, m.id>>}
                             [] OTHER -> directory
           /\ reply => inbox[m.id] < InboxCap
           /\ inbox' = IF reply THEN [inbox EXCEPT ![m.id] = @ + 1] ELSE inbox
    /\ toServer' = Tail(toServer)
    /\ UNCHANGED <<listed, name, id, own, pc, msg, life, history, crashed>>

-----------------------------------------------------------------------------
Create(t) ==
    \/ \E s \in Slots : Emplace(t, s)
    \/ AssignId(t)
    \/ SetSpecific(t)
    \/ SetSpecificFails(t)
    \/ CreateNotify(t)
    \/ CreateNotifyFails(t)

Destroy(t) == Delete(t) \/ DeleteNotify(t) \/ DeleteNotifyFails(t)

ThreadExit(t) == ExitOnly(t) \/ ExitDeletes(t) \/ ExitCrashes(t)

Message(t) ==
    \/ AllocateMessage(t)
    \/ DeallocateMessage(t)
    \/ \E s \in Slots : SendLocal(t, s)
    \/ SendRegion(t)
    \/ ForwardWorld(t)
    \/ ForwardFails(t)
    \/ Receive(t)
    \/ LocateSync(t)
    \/ LocateAsync(t)

Release(t) ==
    \/ ReleaseBegin(t)
    \/ ReleaseTerminateFails(t)
    \/ ReleaseClear(t)
    \/ ReleaseClose(t)

PNext ==
    /\ ~crashed
    /\ \/ \E t \in Threads :
            Create(t) \/ Destroy(t) \/ ThreadExit(t) \/ Release(t)
       \/ \E t \in Talkers : Message(t)
       \/ ServerStep

PSpec == PInit /\ [][PNext]_vars

-----------------------------------------------------------------------------
(* Until a release clears the list, the mailbox a thread works with is in  *)
(* the list under that thread's name: no operation of another thread takes *)
(* it away, and none leaves the thread with a mailbox it has given back.   *)
MineIsMine ==
    life = "up" =>
        \A t \in Threads :
            my[t] # None /\ pc[t] # "notifyDelete" =>
                my[t] \in listed /\ name[my[t]] = t

(* When every operation has returned and itc-server has read everything,   *)
(* it knows every mailbox in the list, except those createMailbox reported *)
(* as failed, and it knows no other mailbox, except those whose deletion   *)
(* was announced under the default id: entries are given back and taken    *)
(* again before itc-server hears of it, yet otherwise the notifications    *)
(* add up.                                                                 *)
DirectoryMatches ==
    life = "up" /\ toServer = <<>> /\ (\A t \in Threads : pc[t] \in {"idle", "gone"}) =>
        LET mailboxes == {<<name[s], s>> : s \in listed \ refused}
        IN  mailboxes \subseteq directory /\ directory \subseteq mailboxes \cup misread

(* A thread that has exited leaves no mailbox in the list, except one that *)
(* createMailbox reported as failed.                                       *)
NothingLeftBehind ==
    life = "up" =>
        \A s \in listed \ refused : pc[name[s]] # "gone"
=============================================================================
