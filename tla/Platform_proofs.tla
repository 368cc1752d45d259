--------------------------- MODULE Platform_proofs ---------------------------
(***************************************************************************)
(* Proofs about Platform for every set of threads, entries and bounds of   *)
(* the queues.                                                             *)
(***************************************************************************)
EXTENDS Platform, SequenceTheorems, TLAPS

PcValues == {"idle", "assignId", "setSpecific", "notifyCreate", "notifyDelete",
             "terminate", "close", "gone"}
Ids == Slots \cup {None}
Notices == [what : {"create", "delete", "forward", "locate"},
            name : Threads, id : Ids]
Notice(what, t, s) == [what |-> what, name |-> t, id |-> s]

(* Every variable has its type, an entry has the id of its index or the    *)
(* default id, and a thread that is creating or deleting its mailbox has   *)
(* one.                                                                    *)
TypeOK ==
    /\ listed \in SUBSET Slots
    /\ name \in [Slots -> Threads \cup {None}]
    /\ id \in [Slots -> Ids]
    /\ \A s \in Slots : id[s] \in {s, None}
    /\ inbox \in [Slots -> Nat]
    /\ my \in [Threads -> Slots \cup {None}]
    /\ key \in [Threads -> Slots \cup {None}]
    /\ pc \in [Threads -> PcValues]
    /\ exiting \in SUBSET Threads
    /\ msg \in [Threads -> {"none", "mine", "freed"}]
    /\ life \in {"up", "cleared", "down"}
    /\ toServer \in Seq(Notices)
    /\ directory \in SUBSET (Threads \X Ids)
    /\ refused \in SUBSET Slots
    /\ misread \in SUBSET (Threads \X Slots)
    /\ crashed \in BOOLEAN
    /\ \A t \in Threads :
        pc[t] \in {"assignId", "setSpecific", "notifyCreate", "notifyDelete"} =>
            my[t] \in Slots

(* The converse of MineIsMine: every entry in the list is the mailbox of   *)
(* the thread it is named after, and that thread is not deleting it.       *)
ListedIsMine ==
    life = "up" => \A s \in listed :
        /\ name[s] \in Threads
        /\ my[name[s]] = s
        /\ pc[name[s]] # "notifyDelete"

(* The mailbox a thread works with has its id, except inside createMailbox *)
(* before the id is written.                                               *)
IdWritten ==
    life = "up" => \A t \in Threads :
        my[t] # None /\ pc[t] \notin {"assignId", "notifyDelete"} =>
            id[my[t]] = my[t]

(* The entries reported as failed are in the list, and are not those of a  *)
(* createMailbox still under way.                                          *)
RefusedAreListed ==
    life = "up" =>
        /\ refused \subseteq listed
        /\ \A t \in Threads :
            pc[t] \in {"assignId", "setSpecific", "notifyCreate"} =>
                my[t] \notin refused

(* A thread that will exit finds its mailbox in its key, unless it was     *)
(* told that it has none.                                                  *)
KeyKept ==
    life = "up" => \A t \in Threads :
        /\ my[t] # None /\ my[t] \notin refused
        /\ pc[t] \notin {"assignId", "setSpecific", "notifyDelete", "gone"}
        => key[t] = my[t]

(* What itc-server will know of mailbox s of thread t when it has read the *)
(* queue q, if it knows d now: the last notification decides.              *)
WillKnow(q, d, t, s) ==
    \/ \E i \in DOMAIN q :
        /\ q[i] = Notice("create", t, s)
        /\ \A j \in DOMAIN q : j > i => q[j] # Notice("delete", t, s)
    \/ /\ <<t, s>> \in d
       /\ \A j \in DOMAIN q : q[j] # Notice("delete", t, s)

\* s is t's mailbox, createMailbox has returned its id, and deleteMailbox
\* has not begun.
Announced(t, s) ==
    /\ s \in listed \ refused
    /\ name[s] = t
    /\ pc[t] \notin {"assignId", "setSpecific", "notifyCreate"}

(* The notifications add up at every moment, not only when all is quiet:   *)
(* the server will know a mailbox that has been announced, and no other    *)
(* but one deleted under the default id, save one whose deletion is about  *)
(* to be notified.                                                         *)
AddsUp ==
    life = "up" => \A t \in Threads, s \in Ids :
        ~(pc[t] = "notifyDelete" /\ my[t] = s) =>
            /\ Announced(t, s) => WillKnow(toServer, directory, t, s)
            /\ WillKnow(toServer, directory, t, s) =>
                    Announced(t, s) \/ <<t, s>> \in misread

(* The inductive invariant.                                                *)
IInv ==
    /\ TypeOK
    /\ MineIsMine
    /\ ListedIsMine
    /\ IdWritten
    /\ RefusedAreListed
    /\ KeyKept
    /\ NothingLeftBehind
    /\ AddsUp

-----------------------------------------------------------------------------
(* The steps of a thread that concern its mailbox, its exit or a release.  *)
LifeStep(t) == Create(t) \/ Destroy(t) \/ ThreadExit(t) \/ Release(t)

(* The steps that move messages change nothing but messages: they leave    *)
(* the mailboxes alone and notify nobody of a creation or a deletion.      *)
Unaffected ==
    /\ UNCHANGED <<listed, name, id, my, key, pc, exiting, life, directory,
                   refused, misread>>
    /\ \/ toServer' = toServer
       \/ \E m \in Notices : /\ toServer' = Append(toServer, m)
                             /\ m.what \in {"forward", "locate"}

LEMMA MessageStep ==
    ASSUME TypeOK, NEW t \in Threads, Message(t)
    PROVE  Unaffected /\ TypeOK'
<1> USE DEF TypeOK, shared, own, server, history
<1>1. CASE AllocateMessage(t)
  BY <1>1 DEF AllocateMessage, Unaffected
<1>2. CASE DeallocateMessage(t)
  BY <1>2 DEF DeallocateMessage, Unaffected
<1>3. ASSUME NEW s \in Slots, SendLocal(t, s) PROVE Unaffected /\ TypeOK'
  BY <1>3 DEF SendLocal, Unaffected
<1>4. CASE SendRegion(t)
  BY <1>4 DEF SendRegion, Unaffected
<1>5. CASE ForwardWorld(t)
  <2>1. Notice("forward", t, id[my[t]]) \in Notices
    BY <1>5 DEF ForwardWorld, MaySend, Notices, Notice, Ids
  <2>2. toServer' = Append(toServer, Notice("forward", t, id[my[t]]))
    BY <1>5 DEF ForwardWorld, Notify, Notice
  <2>3. Notice("forward", t, id[my[t]]).what = "forward"
    BY DEF Notice
  <2> QED
    BY <1>5, <2>1, <2>2, <2>3, AppendProperties DEF ForwardWorld, Unaffected
<1>6. CASE ForwardFails(t)
  BY <1>6 DEF ForwardFails, Unaffected
<1>7. CASE Receive(t)
  BY <1>7 DEF Receive, Unaffected
<1>8. CASE LocateSync(t)
  BY <1>8 DEF LocateSync, Unaffected, vars
<1>9. CASE LocateAsync(t)
  <2>1. Notice("locate", t, id[my[t]]) \in Notices
    BY <1>9 DEF LocateAsync, Notices, Notice, Ids
  <2>2. toServer' = Append(toServer, Notice("locate", t, id[my[t]]))
    BY <1>9 DEF LocateAsync, Notify, Notice
  <2>3. Notice("locate", t, id[my[t]]).what = "locate"
    BY DEF Notice
  <2> QED
    BY <1>9, <2>1, <2>2, <2>3, AppendProperties DEF LocateAsync, Unaffected
<1> QED
  BY <1>1, <1>2, <1>3, <1>4, <1>5, <1>6, <1>7, <1>8, <1>9 DEF Message

(* Every step of a thread's life keeps the types.                          *)
LEMMA TypeStep ==
    ASSUME TypeOK, NEW t \in Threads, LifeStep(t)
    PROVE  TypeOK'
<1> USE PlatformAssumption DEF TypeOK, PcValues, shared, own, server, history, Go
<1>1. ASSUME NEW s \in Slots, Emplace(t, s) PROVE TypeOK'
  BY <1>1 DEF Emplace, Ids
<1>2. CASE SetSpecific(t)
  BY <1>2 DEF SetSpecific
<1>3. CASE SetSpecificFails(t)
  BY <1>3 DEF SetSpecificFails, CreateFails
<1>4. CASE CreateNotify(t)
  <2>1. Notice("create", t, id[my[t]]) \in Notices
    BY <1>4 DEF CreateNotify, Notices, Notice, Ids
  <2>2. toServer' = Append(toServer, Notice("create", t, id[my[t]]))
    BY <1>4 DEF CreateNotify, Notify, Notice
  <2>3. toServer' \in Seq(Notices)
    BY <2>1, <2>2, AppendProperties
  <2> QED
    BY <1>4, <2>3 DEF CreateNotify
<1>5. CASE CreateNotifyFails(t)
  BY <1>5 DEF CreateNotifyFails, CreateFails, CanSend
<1>6. CASE Delete(t)
  BY <1>6 DEF Delete, Remove
<1>7. CASE DeleteNotify(t)
  <2>1. Notice("delete", t, id[my[t]]) \in Notices
    BY <1>7 DEF DeleteNotify, Notices, Notice, Ids
  <2>2. toServer' = Append(toServer, Notice("delete", t, id[my[t]]))
    BY <1>7 DEF DeleteNotify, Notify, Notice
  <2>3. toServer' \in Seq(Notices)
    BY <2>1, <2>2, AppendProperties
  <2> QED
    BY <1>7, <2>3 DEF DeleteNotify, Return
<1>8. CASE DeleteNotifyFails(t)
  BY <1>8 DEF DeleteNotifyFails, CanSend, Return
<1>9. CASE ExitOnly(t)
  BY <1>9 DEF ExitOnly, Exit
<1>10. CASE ExitDeletes(t)
  BY <1>10 DEF ExitDeletes, Remove, IdWritten
<1>11. CASE ExitCrashes(t)
  BY <1>11 DEF ExitCrashes
<1>12. CASE ReleaseBegin(t)
  BY <1>12 DEF ReleaseBegin
<1>13. CASE ReleaseTerminateFails(t)
  BY <1>13 DEF ReleaseTerminateFails
<1>14. CASE ReleaseClear(t)
  BY <1>14 DEF ReleaseClear
<1>15. CASE ReleaseClose(t)
  BY <1>15 DEF ReleaseClose
<1>16. CASE AssignId(t)
  BY <1>16 DEF AssignId, Ids
<1> QED
  BY <1>1, <1>2, <1>3, <1>4, <1>5, <1>6, <1>7, <1>8,
     <1>9, <1>10, <1>11, <1>12, <1>13, <1>14, <1>15, <1>16
  DEF LifeStep, Create, Destroy, ThreadExit, Release

(* No step takes a thread's mailbox from it: a thread only removes its own,*)
(* and only an entry that is not in the list is given a new name.          *)
LEMMA MineStep ==
    ASSUME TypeOK, MineIsMine, IdWritten, NEW t \in Threads, LifeStep(t)
    PROVE  MineIsMine'
<1> USE PlatformAssumption DEF TypeOK, PcValues, shared, own, server, history, Go, MineIsMine
<1>1. ASSUME NEW s \in Slots, Emplace(t, s) PROVE MineIsMine'
  BY <1>1 DEF Emplace
<1>2. CASE SetSpecific(t)
  BY <1>2 DEF SetSpecific
<1>3. CASE SetSpecificFails(t)
  BY <1>3 DEF SetSpecificFails, CreateFails
<1>4. CASE CreateNotify(t)
  BY <1>4 DEF CreateNotify, Notify, CanSend
<1>5. CASE CreateNotifyFails(t)
  BY <1>5 DEF CreateNotifyFails, CreateFails, CanSend
<1>6. CASE Delete(t)
  BY <1>6 DEF Delete, Remove
<1>7. CASE DeleteNotify(t)
  BY <1>7 DEF DeleteNotify, Notify, CanSend, Return
<1>8. CASE DeleteNotifyFails(t)
  BY <1>8 DEF DeleteNotifyFails, CanSend, Return
<1>9. CASE ExitOnly(t)
  BY <1>9 DEF ExitOnly, Exit
<1>10. CASE ExitDeletes(t)
  BY <1>10 DEF ExitDeletes, Remove, IdWritten
<1>11. CASE ExitCrashes(t)
  BY <1>11 DEF ExitCrashes
<1>12. CASE ReleaseBegin(t)
  BY <1>12 DEF ReleaseBegin
<1>13. CASE ReleaseTerminateFails(t)
  BY <1>13 DEF ReleaseTerminateFails
<1>14. CASE ReleaseClear(t)
  BY <1>14 DEF ReleaseClear
<1>15. CASE ReleaseClose(t)
  BY <1>15 DEF ReleaseClose
<1>16. CASE AssignId(t)
  BY <1>16 DEF AssignId
<1> QED
  BY <1>1, <1>2, <1>3, <1>4, <1>5, <1>6, <1>7, <1>8,
     <1>9, <1>10, <1>11, <1>12, <1>13, <1>14, <1>15, <1>16
  DEF LifeStep, Create, Destroy, ThreadExit, Release

(* Every step keeps the entries in the list with their threads.            *)
LEMMA ListedStep ==
    ASSUME TypeOK, MineIsMine, ListedIsMine, IdWritten, NEW t \in Threads, LifeStep(t)
    PROVE  ListedIsMine'
<1> USE PlatformAssumption
    DEF TypeOK, PcValues, shared, own, server, history, Go, MineIsMine, ListedIsMine
<1>1. ASSUME NEW s \in Slots, Emplace(t, s) PROVE ListedIsMine'
  BY <1>1 DEF Emplace
<1>2. CASE SetSpecific(t)
  BY <1>2 DEF SetSpecific
<1>3. CASE SetSpecificFails(t)
  BY <1>3 DEF SetSpecificFails, CreateFails
<1>4. CASE CreateNotify(t)
  BY <1>4 DEF CreateNotify, Notify, CanSend
<1>5. CASE CreateNotifyFails(t)
  BY <1>5 DEF CreateNotifyFails, CreateFails, CanSend
<1>6. CASE Delete(t)
  BY <1>6 DEF Delete, Remove
<1>7. CASE DeleteNotify(t)
  BY <1>7 DEF DeleteNotify, Notify, CanSend, Return
<1>8. CASE DeleteNotifyFails(t)
  BY <1>8 DEF DeleteNotifyFails, CanSend, Return
<1>9. CASE ExitOnly(t)
  BY <1>9 DEF ExitOnly, Exit
<1>10. CASE ExitDeletes(t)
  BY <1>10 DEF ExitDeletes, Remove, IdWritten
<1>11. CASE ExitCrashes(t)
  BY <1>11 DEF ExitCrashes
<1>12. CASE ReleaseBegin(t)
  BY <1>12 DEF ReleaseBegin
<1>13. CASE ReleaseTerminateFails(t)
  BY <1>13 DEF ReleaseTerminateFails
<1>14. CASE ReleaseClear(t)
  BY <1>14 DEF ReleaseClear
<1>15. CASE ReleaseClose(t)
  BY <1>15 DEF ReleaseClose
<1>16. CASE AssignId(t)
  BY <1>16 DEF AssignId
<1> QED
  BY <1>1, <1>2, <1>3, <1>4, <1>5, <1>6, <1>7, <1>8,
     <1>9, <1>10, <1>11, <1>12, <1>13, <1>14, <1>15, <1>16
  DEF LifeStep, Create, Destroy, ThreadExit, Release

(* Every step keeps the ids written: an entry loses its id only when it is *)
(* emplaced, and then it was not in the list.                              *)
LEMMA IdStep ==
    ASSUME TypeOK, MineIsMine, IdWritten, NEW t \in Threads, LifeStep(t)
    PROVE  IdWritten'
<1> USE PlatformAssumption
    DEF TypeOK, PcValues, shared, own, server, history, Go, MineIsMine, IdWritten
<1>1. ASSUME NEW s \in Slots, Emplace(t, s) PROVE IdWritten'
  BY <1>1 DEF Emplace
<1>2. CASE SetSpecific(t)
  BY <1>2 DEF SetSpecific
<1>3. CASE SetSpecificFails(t)
  BY <1>3 DEF SetSpecificFails, CreateFails
<1>4. CASE CreateNotify(t)
  BY <1>4 DEF CreateNotify, Notify, CanSend
<1>5. CASE CreateNotifyFails(t)
  BY <1>5 DEF CreateNotifyFails, CreateFails, CanSend
<1>6. CASE Delete(t)
  BY <1>6 DEF Delete, Remove
<1>7. CASE DeleteNotify(t)
  BY <1>7 DEF DeleteNotify, Notify, CanSend, Return
<1>8. CASE DeleteNotifyFails(t)
  BY <1>8 DEF DeleteNotifyFails, CanSend, Return
<1>9. CASE ExitOnly(t)
  BY <1>9 DEF ExitOnly, Exit
<1>10. CASE ExitDeletes(t)
  BY <1>10 DEF ExitDeletes, Remove, IdWritten
<1>11. CASE ExitCrashes(t)
  BY <1>11 DEF ExitCrashes
<1>12. CASE ReleaseBegin(t)
  BY <1>12 DEF ReleaseBegin
<1>13. CASE ReleaseTerminateFails(t)
  BY <1>13 DEF ReleaseTerminateFails
<1>14. CASE ReleaseClear(t)
  BY <1>14 DEF ReleaseClear
<1>15. CASE ReleaseClose(t)
  BY <1>15 DEF ReleaseClose
<1>16. CASE AssignId(t)
  BY <1>16 DEF AssignId
<1> QED
  BY <1>1, <1>2, <1>3, <1>4, <1>5, <1>6, <1>7, <1>8,
     <1>9, <1>10, <1>11, <1>12, <1>13, <1>14, <1>15, <1>16
  DEF LifeStep, Create, Destroy, ThreadExit, Release

(* Every step keeps the entries reported as failed in the list.            *)
LEMMA RefusedStep ==
    ASSUME TypeOK, MineIsMine, IdWritten, RefusedAreListed, NEW t \in Threads, LifeStep(t)
    PROVE  RefusedAreListed'
<1> USE PlatformAssumption
    DEF TypeOK, PcValues, shared, own, server, history, Go, MineIsMine, RefusedAreListed
<1>1. ASSUME NEW s \in Slots, Emplace(t, s) PROVE RefusedAreListed'
  BY <1>1 DEF Emplace
<1>2. CASE SetSpecific(t)
  BY <1>2 DEF SetSpecific
<1>3. CASE SetSpecificFails(t)
  BY <1>3 DEF SetSpecificFails, CreateFails
<1>4. CASE CreateNotify(t)
  BY <1>4 DEF CreateNotify, Notify, CanSend
<1>5. CASE CreateNotifyFails(t)
  BY <1>5 DEF CreateNotifyFails, CreateFails, CanSend
<1>6. CASE Delete(t)
  BY <1>6 DEF Delete, Remove
<1>7. CASE DeleteNotify(t)
  BY <1>7 DEF DeleteNotify, Notify, CanSend, Return
<1>8. CASE DeleteNotifyFails(t)
  BY <1>8 DEF DeleteNotifyFails, CanSend, Return
<1>9. CASE ExitOnly(t)
  BY <1>9 DEF ExitOnly, Exit
<1>10. CASE ExitDeletes(t)
  BY <1>10 DEF ExitDeletes, Remove, IdWritten
<1>11. CASE ExitCrashes(t)
  BY <1>11 DEF ExitCrashes
<1>12. CASE ReleaseBegin(t)
  BY <1>12 DEF ReleaseBegin
<1>13. CASE ReleaseTerminateFails(t)
  BY <1>13 DEF ReleaseTerminateFails
<1>14. CASE ReleaseClear(t)
  BY <1>14 DEF ReleaseClear
<1>15. CASE ReleaseClose(t)
  BY <1>15 DEF ReleaseClose
<1>16. CASE AssignId(t)
  BY <1>16 DEF AssignId
<1> QED
  BY <1>1, <1>2, <1>3, <1>4, <1>5, <1>6, <1>7, <1>8,
     <1>9, <1>10, <1>11, <1>12, <1>13, <1>14, <1>15, <1>16
  DEF LifeStep, Create, Destroy, ThreadExit, Release

(* Every step keeps the keys.                                              *)
LEMMA KeyStep ==
    ASSUME TypeOK, MineIsMine, IdWritten, RefusedAreListed, KeyKept, NEW t \in Threads, LifeStep(t)
    PROVE  KeyKept'
<1> USE PlatformAssumption
    DEF TypeOK, PcValues, shared, own, server, history, Go, MineIsMine, RefusedAreListed,
        KeyKept
<1>1. ASSUME NEW s \in Slots, Emplace(t, s) PROVE KeyKept'
  BY <1>1 DEF Emplace
<1>2. CASE SetSpecific(t)
  BY <1>2 DEF SetSpecific
<1>3. CASE SetSpecificFails(t)
  BY <1>3 DEF SetSpecificFails, CreateFails
<1>4. CASE CreateNotify(t)
  BY <1>4 DEF CreateNotify, Notify, CanSend
<1>5. CASE CreateNotifyFails(t)
  BY <1>5 DEF CreateNotifyFails, CreateFails, CanSend
<1>6. CASE Delete(t)
  BY <1>6 DEF Delete, Remove
<1>7. CASE DeleteNotify(t)
  BY <1>7 DEF DeleteNotify, Notify, CanSend, Return
<1>8. CASE DeleteNotifyFails(t)
  BY <1>8 DEF DeleteNotifyFails, CanSend, Return
<1>9. CASE ExitOnly(t)
  BY <1>9 DEF ExitOnly, Exit
<1>10. CASE ExitDeletes(t)
  BY <1>10 DEF ExitDeletes, Remove, IdWritten
<1>11. CASE ExitCrashes(t)
  BY <1>11 DEF ExitCrashes
<1>12. CASE ReleaseBegin(t)
  BY <1>12 DEF ReleaseBegin
<1>13. CASE ReleaseTerminateFails(t)
  BY <1>13 DEF ReleaseTerminateFails
<1>14. CASE ReleaseClear(t)
  BY <1>14 DEF ReleaseClear
<1>15. CASE ReleaseClose(t)
  BY <1>15 DEF ReleaseClose
<1>16. CASE AssignId(t)
  BY <1>16 DEF AssignId
<1> QED
  BY <1>1, <1>2, <1>3, <1>4, <1>5, <1>6, <1>7, <1>8,
     <1>9, <1>10, <1>11, <1>12, <1>13, <1>14, <1>15, <1>16
  DEF LifeStep, Create, Destroy, ThreadExit, Release

(* A thread that exits leaves nothing: had it an entry in the list, its key*)
(* would lead to it, and it would delete it first.                         *)
LEMMA BehindStep ==
    ASSUME TypeOK, ListedIsMine, IdWritten, RefusedAreListed, KeyKept,
           NothingLeftBehind, NEW t \in Threads, LifeStep(t)
    PROVE  NothingLeftBehind'
<1> USE PlatformAssumption
    DEF TypeOK, PcValues, shared, own, server, history, Go, Exist, ListedIsMine,
        RefusedAreListed, KeyKept, NothingLeftBehind
<1>1. ASSUME NEW s \in Slots, Emplace(t, s) PROVE NothingLeftBehind'
  BY <1>1 DEF Emplace
<1>2. CASE SetSpecific(t)
  BY <1>2 DEF SetSpecific
<1>3. CASE SetSpecificFails(t)
  BY <1>3 DEF SetSpecificFails, CreateFails
<1>4. CASE CreateNotify(t)
  BY <1>4 DEF CreateNotify, Notify, CanSend
<1>5. CASE CreateNotifyFails(t)
  BY <1>5 DEF CreateNotifyFails, CreateFails, CanSend
<1>6. CASE Delete(t)
  BY <1>6 DEF Delete, Remove
<1>7. CASE DeleteNotify(t)
  BY <1>7 DEF DeleteNotify, Notify, CanSend, Return
<1>8. CASE DeleteNotifyFails(t)
  BY <1>8 DEF DeleteNotifyFails, CanSend, Return
<1>9. CASE ExitOnly(t)
  <2>1. /\ pc[t] = "idle" /\ pc' = [pc EXCEPT ![t] = "gone"]
        /\ UNCHANGED <<listed, name, refused, life>>
    BY <1>9 DEF ExitOnly, Exit
  <2>2. ASSUME life = "up", NEW s \in listed \ refused PROVE name[s] # t
    <3> SUFFICES ASSUME name[s] = t PROVE FALSE
      OBVIOUS
    <3>1. my[t] = s /\ s # None
      BY <2>2
    <3>2. key[t] = s
      BY <2>1, <2>2, <3>1
    <3>3. Exist(name[key[t]])
      BY <2>2, <3>2
    <3> QED
      BY <1>9, <3>1, <3>2, <3>3 DEF ExitOnly
  <2> QED
    BY <2>1, <2>2
<1>10. CASE ExitDeletes(t)
  BY <1>10 DEF ExitDeletes, Remove, IdWritten
<1>11. CASE ExitCrashes(t)
  BY <1>11 DEF ExitCrashes
<1>12. CASE ReleaseBegin(t)
  BY <1>12 DEF ReleaseBegin
<1>13. CASE ReleaseTerminateFails(t)
  BY <1>13 DEF ReleaseTerminateFails
<1>14. CASE ReleaseClear(t)
  BY <1>14 DEF ReleaseClear
<1>15. CASE ReleaseClose(t)
  BY <1>15 DEF ReleaseClose
<1>16. CASE AssignId(t)
  BY <1>16 DEF AssignId
<1> QED
  BY <1>1, <1>2, <1>3, <1>4, <1>5, <1>6, <1>7, <1>8,
     <1>9, <1>10, <1>11, <1>12, <1>13, <1>14, <1>15, <1>16
  DEF LifeStep, Create, Destroy, ThreadExit, Release

-----------------------------------------------------------------------------
(* What the server will know, step by step.  A notification about another  *)
(* mailbox, or about none, changes nothing.                                *)
LEMMA OtherNotice ==
    ASSUME NEW q \in Seq(Notices), NEW d, NEW m \in Notices, NEW t, NEW s,
           m # Notice("create", t, s), m # Notice("delete", t, s)
    PROVE  WillKnow(Append(q, m), d, t, s) <=> WillKnow(q, d, t, s)
<1> DEFINE a == Append(q, m)
<1>1. /\ DOMAIN q = 1 .. Len(q) /\ Len(q) \in Nat
      /\ DOMAIN a = 1 .. Len(q) + 1
      /\ \A i \in 1 .. Len(q) : a[i] = q[i]
      /\ a[Len(q) + 1] = m
  BY AppendProperties, LenProperties
<1> HIDE DEF a
<1>2. (\A j \in DOMAIN a : a[j] # Notice("delete", t, s)) <=>
      (\A j \in DOMAIN q : q[j] # Notice("delete", t, s))
  BY <1>1
<1>3. \A i \in DOMAIN q :
        (\A j \in DOMAIN a : j > i => a[j] # Notice("delete", t, s)) <=>
        (\A j \in DOMAIN q : j > i => q[j] # Notice("delete", t, s))
  BY <1>1
<1>4. \A i \in DOMAIN a : a[i] = Notice("create", t, s) => i \in DOMAIN q
  BY <1>1
<1>5. \A i \in DOMAIN q : i \in DOMAIN a /\ a[i] = q[i]
  BY <1>1
<1>6. WillKnow(a, d, t, s) <=> WillKnow(q, d, t, s)
  BY <1>2, <1>3, <1>4, <1>5 DEF WillKnow
<1> QED
  BY <1>6 DEF a

(* A creation is known in the end, and a deletion ends that.               *)
LEMMA OwnNotice ==
    ASSUME NEW q \in Seq(Notices), NEW d, NEW t \in Threads, NEW s \in Ids
    PROVE  /\ WillKnow(Append(q, Notice("create", t, s)), d, t, s)
           /\ ~WillKnow(Append(q, Notice("delete", t, s)), d, t, s)
<1>1. /\ Notice("create", t, s) \in Notices
      /\ Notice("delete", t, s) \in Notices
      /\ Notice("create", t, s) # Notice("delete", t, s)
  BY DEF Notices, Notice
<1>2. WillKnow(Append(q, Notice("create", t, s)), d, t, s)
  <2> DEFINE a == Append(q, Notice("create", t, s))
  <2>1. Len(q) \in Nat /\ DOMAIN a = 1 .. Len(q) + 1
        /\ a[Len(q) + 1] = Notice("create", t, s)
    BY <1>1, AppendProperties, LenProperties
  <2> HIDE DEF a
  <2>2. WillKnow(a, d, t, s)
    BY <2>1 DEF WillKnow
  <2> QED
    BY <2>2 DEF a
<1>3. ~WillKnow(Append(q, Notice("delete", t, s)), d, t, s)
  <2> DEFINE a == Append(q, Notice("delete", t, s))
  <2>1. Len(q) \in Nat /\ DOMAIN a = 1 .. Len(q) + 1
        /\ a[Len(q) + 1] = Notice("delete", t, s)
    BY <1>1, AppendProperties, LenProperties
  <2> HIDE DEF a
  <2>2. ~WillKnow(a, d, t, s)
    <3>1. \A i \in DOMAIN a : i = Len(q) + 1 \/ Len(q) + 1 > i
      BY <2>1
    <3> QED
      BY <1>1, <2>1, <3>1 DEF WillKnow
  <2> QED
    BY <2>2 DEF a
<1> QED
  BY <1>2, <1>3

(* itc-server reads a notification: what it will know stays the same.      *)
LEMMA ReadNotice ==
    ASSUME NEW q \in Seq(Notices), q # <<>>, NEW d, NEW e,
           NEW t \in Threads, NEW s \in Ids,
           e = CASE Head(q).what = "create" -> d \cup {<<Head(q).name, Head(q).id>>}
                 [] Head(q).what = "delete" -> d \ {<<Head(q).name, Head(q).id>>}
                 [] OTHER -> d
    PROVE  WillKnow(Tail(q), e, t, s) <=> WillKnow(q, d, t, s)
<1> DEFINE r == Tail(q)
           h == Head(q)
<1>1. /\ Len(q) \in Nat \ {0} /\ DOMAIN q = 1 .. Len(q)
      /\ DOMAIN r = 1 .. Len(q) - 1
      /\ \A i \in DOMAIN r : r[i] = q[i + 1]
      /\ q[1] = h /\ h \in Notices
  BY HeadTailProperties, LenProperties, EmptySeq
<1>2. /\ h = Notice("create", t, s) => <<t, s>> \in e
      /\ h = Notice("delete", t, s) => <<t, s>> \notin e
      /\ h # Notice("create", t, s) /\ h # Notice("delete", t, s) =>
            (<<t, s>> \in e <=> <<t, s>> \in d)
  <2>1. h = Notice(h.what, h.name, h.id)
    BY <1>1 DEF Notices, Notice
  <2>2. CASE h.what = "create"
    <3>1. e = d \cup {<<h.name, h.id>>}
      BY <2>2
    <3>2. h = Notice("create", t, s) <=> h.name = t /\ h.id = s
      BY <2>1, <2>2 DEF Notice
    <3>3. h # Notice("delete", t, s)
      BY <2>2 DEF Notice
    <3> QED
      BY <3>1, <3>2, <3>3
  <2>3. CASE h.what = "delete"
    <3>1. e = d \ {<<h.name, h.id>>}
      BY <2>3
    <3>2. h = Notice("delete", t, s) <=> h.name = t /\ h.id = s
      BY <2>1, <2>3 DEF Notice
    <3>3. h # Notice("create", t, s)
      BY <2>3 DEF Notice
    <3> QED
      BY <3>1, <3>2, <3>3
  <2>4. CASE h.what \notin {"create", "delete"}
    <3>1. e = d
      BY <2>4
    <3>2. h # Notice("create", t, s) /\ h # Notice("delete", t, s)
      BY <2>4 DEF Notice
    <3> QED
      BY <3>1, <3>2
  <2> QED
    BY <2>2, <2>3, <2>4
<1> HIDE DEF r, h
<1>3. \A i \in DOMAIN q : i = 1 \/ (i - 1 \in DOMAIN r /\ r[i - 1] = q[i])
  BY <1>1
<1>4. \A i \in DOMAIN r : i + 1 \in DOMAIN q /\ r[i] = q[i + 1] /\ i + 1 > 1
  BY <1>1
<1>5. \A i \in DOMAIN r \cup {0} :
        (\A j \in DOMAIN r : j > i => r[j] # Notice("delete", t, s)) <=>
        (\A j \in DOMAIN q : j > i + 1 => q[j] # Notice("delete", t, s))
  <2> TAKE i \in DOMAIN r \cup {0}
  <2>1. i \in Nat
    BY <1>1
  <2>2. ASSUME \A j \in DOMAIN r : j > i => r[j] # Notice("delete", t, s),
               NEW j \in DOMAIN q, j > i + 1
        PROVE  q[j] # Notice("delete", t, s)
    <3>1. j - 1 \in DOMAIN r /\ j - 1 > i /\ r[j - 1] = q[j]
      BY <1>1, <1>3, <2>1, <2>2
    <3> QED
      BY <2>2, <3>1
  <2>3. ASSUME \A j \in DOMAIN q : j > i + 1 => q[j] # Notice("delete", t, s),
               NEW j \in DOMAIN r, j > i
        PROVE  r[j] # Notice("delete", t, s)
    <3>1. j + 1 \in DOMAIN q /\ j + 1 > i + 1 /\ r[j] = q[j + 1]
      BY <1>1, <1>4, <2>1, <2>3
    <3> QED
      BY <2>3, <3>1
  <2> QED
    BY <2>2, <2>3
<1>6. (\A j \in DOMAIN r : r[j] # Notice("delete", t, s)) <=>
      (\A j \in DOMAIN q : j > 1 => q[j] # Notice("delete", t, s))
  <2>1. \A j \in DOMAIN r : j > 0
    BY <1>1
  <2> QED
    BY <1>5, <2>1
<1>7. Notice("create", t, s) # Notice("delete", t, s)
  BY DEF Notice
<1>8. WillKnow(r, e, t, s) <=> WillKnow(q, d, t, s)
  <2>1. ASSUME WillKnow(r, e, t, s) PROVE WillKnow(q, d, t, s)
    <3>1. CASE \E i \in DOMAIN r :
                  /\ r[i] = Notice("create", t, s)
                  /\ \A j \in DOMAIN r : j > i => r[j] # Notice("delete", t, s)
      BY <3>1, <1>4, <1>5 DEF WillKnow
    <3>2. CASE /\ <<t, s>> \in e
               /\ \A j \in DOMAIN r : r[j] # Notice("delete", t, s)
      <4>1. h # Notice("delete", t, s)
        BY <3>2, <1>2
      <4>2. 1 \in DOMAIN q
        BY <1>1
      <4>3. \A j \in DOMAIN q : q[j] # Notice("delete", t, s)
        BY <3>2, <4>1, <1>1, <1>3
      <4> QED
        BY <3>2, <4>1, <4>2, <4>3, <1>1, <1>2 DEF WillKnow
    <3> QED
      BY <2>1, <3>1, <3>2 DEF WillKnow
  <2>2. ASSUME WillKnow(q, d, t, s) PROVE WillKnow(r, e, t, s)
    <3>1. ASSUME NEW i \in DOMAIN q, q[i] = Notice("create", t, s),
                 \A j \in DOMAIN q : j > i => q[j] # Notice("delete", t, s)
          PROVE  WillKnow(r, e, t, s)
      <4>1. CASE i = 1
        BY <3>1, <4>1, <1>1, <1>2, <1>6 DEF WillKnow
      <4>2. CASE i # 1
        <5>1. i - 1 \in DOMAIN r /\ r[i - 1] = q[i] /\ (i - 1) + 1 = i
          BY <4>2, <1>1, <1>3
        <5> QED
          BY <3>1, <5>1, <1>5 DEF WillKnow
      <4> QED
        BY <4>1, <4>2
    <3>2. CASE /\ <<t, s>> \in d
               /\ \A j \in DOMAIN q : q[j] # Notice("delete", t, s)
      <4>1. 1 \in DOMAIN q /\ h # Notice("delete", t, s)
        BY <3>2, <1>1
      <4>2. <<t, s>> \in e
        BY <3>2, <4>1, <1>2
      <4> QED
        BY <3>2, <4>2, <1>6 DEF WillKnow
    <3> QED
      BY <2>2, <3>1, <3>2 DEF WillKnow
  <2> QED
    BY <2>1, <2>2
<1> QED
  BY <1>8 DEF r

(* Every step of a thread's life keeps the notifications adding up: a      *)
(* thread that starts a mailbox has none announced, one that deletes its   *)
(* own will notify it.                                                     *)
LEMMA AddsUpStep ==
    ASSUME TypeOK, MineIsMine, ListedIsMine, IdWritten, RefusedAreListed, AddsUp,
           NEW t \in Threads, LifeStep(t)
    PROVE  AddsUp'
<1> USE PlatformAssumption
    DEF TypeOK, PcValues, shared, own, server, history, Go, MineIsMine, ListedIsMine,
        RefusedAreListed, AddsUp, Announced
<1>1. ASSUME NEW s \in Slots, Emplace(t, s) PROVE AddsUp'
  BY <1>1 DEF Emplace
<1>2. CASE SetSpecific(t)
  BY <1>2 DEF SetSpecific
<1>3. CASE SetSpecificFails(t)
  BY <1>3 DEF SetSpecificFails, CreateFails
<1>4. CASE CreateNotify(t)
  <2> DEFINE m == Notice("create", t, my[t])
  <2>1. /\ pc[t] = "notifyCreate" /\ pc' = [pc EXCEPT ![t] = "idle"]
        /\ UNCHANGED <<listed, name, refused, misread, life, my, directory>>
    BY <1>4 DEF CreateNotify
  <2> SUFFICES ASSUME life = "up", NEW u \in Threads, NEW s \in Ids,
                      ~(pc'[u] = "notifyDelete" /\ my'[u] = s)
               PROVE  /\ Announced(u, s)' => WillKnow(toServer', directory', u, s)
                      /\ WillKnow(toServer', directory', u, s) =>
                            Announced(u, s)' \/ <<u, s>> \in misread'
    BY <2>1 DEF AddsUp
  <2>2. my[t] \in Slots /\ my[t] # None
    BY <2>1
  <2>3. my[t] \in listed \ refused /\ name[my[t]] = t /\ id[my[t]] = my[t]
    BY <2>1, <2>2 DEF IdWritten
  <2>4. toServer' = Append(toServer, m)
    BY <1>4, <2>3 DEF CreateNotify, Notify, Notice
  <2>5. CASE u = t /\ s = my[t]
    <3>1. WillKnow(toServer', directory', u, s)
      BY <2>2, <2>4, <2>5, OwnNotice DEF Ids
    <3>2. Announced(u, s)'
      BY <2>1, <2>3, <2>5
    <3> QED
      BY <3>1, <3>2
  <2>6. CASE ~(u = t /\ s = my[t])
    <3>1. m \in Notices /\ m # Notice("create", u, s) /\ m # Notice("delete", u, s)
      BY <2>2, <2>6 DEF Notices, Notice, Ids
    <3>2. WillKnow(toServer', directory', u, s) <=> WillKnow(toServer, directory, u, s)
      BY <2>1, <2>4, <3>1, OtherNotice
    <3>3. Announced(u, s)' <=> Announced(u, s)
      BY <2>1, <2>6
    <3> QED
      BY <2>1, <3>2, <3>3
  <2> QED
    BY <2>5, <2>6
<1>5. CASE CreateNotifyFails(t)
  BY <1>5 DEF CreateNotifyFails, CreateFails, CanSend
<1>6. CASE Delete(t)
  BY <1>6 DEF Delete, Remove
<1>7. CASE DeleteNotify(t)
  <2> DEFINE i == id[my[t]]
             m == Notice("delete", t, i)
  <2>1. /\ pc[t] = "notifyDelete" /\ pc' = [pc EXCEPT ![t] = pc'[t]]
        /\ pc'[t] \in {"idle", "gone"}
        /\ UNCHANGED <<listed, name, refused, life, directory>>
        /\ my' = [my EXCEPT ![t] = None]
    BY <1>7 DEF DeleteNotify, Return
  <2>2. toServer' = Append(toServer, m)
    BY <1>7 DEF DeleteNotify, Notify, Notice
  <2>3. my[t] \in Slots /\ i \in {my[t], None}
    BY <2>1
  <2>4. misread' = IF i = None THEN misread \cup {<<t, my[t]>>}
                               ELSE misread \ {<<t, my[t]>>}
    BY <1>7 DEF DeleteNotify
  <2> HIDE DEF i
  <2> SUFFICES ASSUME life = "up", NEW u \in Threads, NEW s \in Ids,
                      ~(pc'[u] = "notifyDelete" /\ my'[u] = s)
               PROVE  /\ Announced(u, s)' => WillKnow(toServer', directory', u, s)
                      /\ WillKnow(toServer', directory', u, s) =>
                            Announced(u, s)' \/ <<u, s>> \in misread'
    BY <2>1 DEF AddsUp
  <2>5. u = t /\ s \in {my[t], None} => ~Announced(u, s)'
    BY <2>1
  <2>6. CASE u = t /\ s = i
    <3>1. ~WillKnow(toServer', directory', u, s)
      BY <2>2, <2>6, OwnNotice
    <3> QED
      BY <2>3, <2>5, <2>6, <3>1
  <2>7. CASE ~(u = t /\ s = i)
    <3>1. m \in Notices /\ m # Notice("create", u, s) /\ m # Notice("delete", u, s)
      BY <2>3, <2>7 DEF Notices, Notice, Ids
    <3>2. WillKnow(toServer', directory', u, s) <=> WillKnow(toServer, directory, u, s)
      BY <2>1, <2>2, <3>1, OtherNotice
    <3>3. CASE u = t /\ s = my[t]
      BY <2>3, <2>4, <2>5, <2>7, <3>3
    <3>4. CASE ~(u = t /\ s = my[t])
      <4>1. <<u, s>> \in misread' <=> <<u, s>> \in misread
        BY <2>4, <3>4
      <4>2. Announced(u, s)' <=> Announced(u, s)
        BY <2>1
      <4>3. ~(pc[u] = "notifyDelete" /\ my[u] = s)
        BY <2>1, <3>4
      <4> QED
        BY <2>1, <3>2, <4>1, <4>2, <4>3
    <3> QED
      BY <3>3, <3>4
  <2> QED
    BY <2>6, <2>7
<1>8. CASE DeleteNotifyFails(t)
  BY <1>8 DEF DeleteNotifyFails, CanSend, Return
<1>9. CASE ExitOnly(t)
  BY <1>9 DEF ExitOnly, Exit
<1>10. CASE ExitDeletes(t)
  BY <1>10 DEF ExitDeletes, Remove, IdWritten
<1>11. CASE ExitCrashes(t)
  BY <1>11 DEF ExitCrashes
<1>12. CASE ReleaseBegin(t)
  BY <1>12 DEF ReleaseBegin
<1>13. CASE ReleaseTerminateFails(t)
  BY <1>13 DEF ReleaseTerminateFails
<1>14. CASE ReleaseClear(t)
  BY <1>14 DEF ReleaseClear
<1>15. CASE ReleaseClose(t)
  BY <1>15 DEF ReleaseClose
<1>16. CASE AssignId(t)
  BY <1>16 DEF AssignId
<1> QED
  BY <1>1, <1>2, <1>3, <1>4, <1>5, <1>6, <1>7, <1>8,
     <1>9, <1>10, <1>11, <1>12, <1>13, <1>14, <1>15, <1>16
  DEF LifeStep, Create, Destroy, ThreadExit, Release

(* Messages leave the notifications as they are.                           *)
LEMMA UnaffectedStep ==
    ASSUME IInv, Unaffected, TypeOK'
    PROVE  IInv'
<1> USE DEF IInv, Unaffected
<1>1. /\ MineIsMine' /\ ListedIsMine' /\ IdWritten' /\ RefusedAreListed'
      /\ KeyKept' /\ NothingLeftBehind'
  BY DEF MineIsMine, ListedIsMine, IdWritten, RefusedAreListed, KeyKept,
         NothingLeftBehind
<1>2. AddsUp'
  <2>1. ASSUME NEW u \in Threads, NEW s \in Ids
        PROVE  WillKnow(toServer', directory', u, s) <=> WillKnow(toServer, directory, u, s)
    <3>1. CASE toServer' = toServer
      BY <3>1
    <3>2. ASSUME NEW m \in Notices, toServer' = Append(toServer, m),
                 m.what \in {"forward", "locate"}
          PROVE  WillKnow(toServer', directory', u, s) <=> WillKnow(toServer, directory, u, s)
      <4>1. m # Notice("create", u, s) /\ m # Notice("delete", u, s)
        BY <3>2 DEF Notice
      <4> QED
        BY <3>2, <4>1, OtherNotice DEF TypeOK
    <3> QED
      BY <3>1, <3>2
  <2> QED
    BY <2>1 DEF AddsUp, Announced
<1> QED
  BY <1>1, <1>2

(* itc-server reads what it is told and changes nothing in the region but  *)
(* the message that answers a location.                                    *)
LEMMA ServerKeeps ==
    ASSUME IInv, ServerStep
    PROVE  IInv'
<1> DEFINE h == Head(toServer)
<1> USE DEF IInv
<1>1. /\ UNCHANGED <<listed, name, id, my, key, pc, exiting, msg, life, refused,
                     misread, crashed>>
      /\ toServer # <<>> /\ toServer' = Tail(toServer)
      /\ directory' = CASE h.what = "create" -> directory \cup {<<h.name, h.id>>}
                        [] h.what = "delete" -> directory \ {<<h.name, h.id>>}
                        [] OTHER -> directory
      /\ inbox' = IF h.what = "locate" /\ h.id # None THEN [inbox EXCEPT ![h.id] = @ + 1] ELSE inbox
  BY DEF ServerStep, own, history
<1>2. h \in Notices /\ toServer' \in Seq(Notices)
  BY <1>1, HeadTailProperties DEF TypeOK
<1>3. TypeOK'
  <2>1. h.name \in Threads /\ h.id \in Ids
    BY <1>2 DEF Notices
  <2>2. directory' \in SUBSET (Threads \X Ids)
    BY <1>1, <2>1 DEF TypeOK
  <2>3. inbox' \in [Slots -> Nat]
    BY <1>1, <2>1 DEF TypeOK, Ids
  <2> QED
    BY <1>1, <1>2, <2>2, <2>3 DEF TypeOK
<1>4. /\ MineIsMine' /\ ListedIsMine' /\ IdWritten' /\ RefusedAreListed'
      /\ KeyKept' /\ NothingLeftBehind'
  BY <1>1 DEF MineIsMine, ListedIsMine, IdWritten, RefusedAreListed, KeyKept,
         NothingLeftBehind
<1>5. AddsUp'
  <2>1. \A u \in Threads, s \in Ids :
          WillKnow(toServer', directory', u, s) <=> WillKnow(toServer, directory, u, s)
    BY <1>1, ReadNotice DEF TypeOK
  <2> QED
    BY <1>1, <2>1 DEF AddsUp, Announced
<1> QED
  BY <1>3, <1>4, <1>5

(* The inductive invariant holds in every reachable state.                 *)
THEOREM InductiveInvariant == PSpec => []IInv
<1>1. PInit => IInv
  <2> SUFFICES ASSUME PInit PROVE IInv
    OBVIOUS
  <2>1. TypeOK
    BY EmptySeq DEF PInit, TypeOK, PcValues, Ids
  <2>2. MineIsMine /\ ListedIsMine /\ IdWritten /\ RefusedAreListed /\ KeyKept /\ NothingLeftBehind
    BY DEF PInit, MineIsMine, ListedIsMine, IdWritten, RefusedAreListed, KeyKept,
           NothingLeftBehind
  <2>3. AddsUp
    BY DEF PInit, AddsUp, Announced, WillKnow
  <2> QED
    BY <2>1, <2>2, <2>3 DEF IInv
<1>2. IInv /\ [PNext]_vars => IInv'
  <2> SUFFICES ASSUME IInv, [PNext]_vars PROVE IInv'
    OBVIOUS
  <2>1. ASSUME NEW t \in Threads, LifeStep(t) PROVE IInv'
    BY <2>1, TypeStep, MineStep, ListedStep, IdStep, RefusedStep, KeyStep, BehindStep,
       AddsUpStep DEF IInv
  <2>2. ASSUME NEW t \in Talkers, Message(t) PROVE IInv'
    BY <2>2, MessageStep, UnaffectedStep, PlatformAssumption DEF IInv
  <2>3. CASE ServerStep
    BY <2>3, ServerKeeps
  <2>4. CASE UNCHANGED vars
    <3>1. TypeOK'
      BY <2>4 DEF vars, IInv, TypeOK
    <3>2. Unaffected
      BY <2>4 DEF vars, Unaffected
    <3> QED
      BY <3>1, <3>2, UnaffectedStep
  <2> QED
    BY <2>1, <2>2, <2>3, <2>4 DEF PNext, LifeStep
<1> QED
  BY <1>1, <1>2, PTL DEF PSpec

(* Until a release, no other thread, exit or failure takes a thread's      *)
(* mailbox out of the list or gives it to somebody else.                   *)
THEOREM MailboxStaysMine == PSpec => []MineIsMine
BY InductiveInvariant, PTL DEF IInv

(* Until a release, an exited thread has no mailbox in the list that it    *)
(* was ever told about.                                                    *)
THEOREM ExitLeavesNothing == PSpec => []NothingLeftBehind
BY InductiveInvariant, PTL DEF IInv

(* Whenever the region is quiet, itc-server knows every mailbox in the     *)
(* list but the failed ones, and nothing else but what was deleted under   *)
(* the default id, whatever was created, deleted and reused before.        *)
THEOREM DirectoryAgrees == PSpec => []DirectoryMatches
<1>1. IInv => DirectoryMatches
  <2> DEFINE mailboxes == {<<name[s], s>> : s \in listed \ refused}
  <2> SUFFICES ASSUME IInv, life = "up", toServer = <<>>,
                      \A t \in Threads : pc[t] \in {"idle", "gone"}
               PROVE  mailboxes \subseteq directory /\ directory \subseteq mailboxes \cup misread
    BY DEF DirectoryMatches
  <2> USE DEF IInv
  <2>1. ASSUME NEW t \in Threads, NEW s \in Ids
        PROVE  /\ Announced(t, s) <=> s \in listed \ refused /\ name[s] = t
               /\ Announced(t, s) => <<t, s>> \in directory
               /\ <<t, s>> \in directory => Announced(t, s) \/ <<t, s>> \in misread
    <3>1. pc[t] \in {"idle", "gone"}
      OBVIOUS
    <3>2. DOMAIN toServer = {}
      OBVIOUS
    <3>3. WillKnow(toServer, directory, t, s) <=> <<t, s>> \in directory
      BY <3>2 DEF WillKnow
    <3> QED
      BY <3>1, <3>3 DEF AddsUp, Announced
  <2>2. directory \in SUBSET (Threads \X Ids) /\ listed \in SUBSET Ids
    BY DEF TypeOK, Ids
  <2>3. \A s \in listed : name[s] \in Threads
    BY DEF ListedIsMine
  <2>4. mailboxes \subseteq directory
    BY <2>1, <2>2, <2>3
  <2>5. directory \subseteq mailboxes \cup misread
    BY <2>1, <2>2
  <2> QED
    BY <2>4, <2>5
<1> QED
  BY <1>1, InductiveInvariant, PTL
=============================================================================
