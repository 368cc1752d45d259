---------------------------- MODULE Threads_proofs ----------------------------
(***************************************************************************)
(* Proofs about ThreadManager for every number of entries and pthreads and *)
(* every reserved capacity, and about ThreadPool, the other component that *)
(* owns threads, for every number of workers, callers and tasks.  The two  *)
(* share no variable and no constant; no proof uses both.                  *)
(***************************************************************************)
EXTENDS ThreadManager, ThreadPool, TLAPS

\* between the creation of a thread and the end of the wait for its signal
Waiting == caller \in {"wait", "asleep", "woken", "timedout"}

CallerStates ==
    {"idle", "start", "create", "wait", "asleep", "woken", "timedout",
     "terminate", "join", "reset", "destroyed"}
ThreadStates == {"none", "starting", "ready", "cancelled", "exited", "joined"}

(* Every variable of the manager has its type.                             *)
TypeOK ==
    /\ size \in Nat /\ size <= Entries
    /\ capacity \in Nat
    /\ running \in [Index -> BOOLEAN]
    /\ tid \in [Index -> Nat]
    /\ owner \in [Index -> BOOLEAN]
    /\ locked \in [Index -> BOOLEAN]
    /\ thread \in [Pthreads -> ThreadStates]
    /\ of \in [Pthreads -> Nat]
    /\ created \in Nat /\ created <= MaxPthreads
    /\ caller \in CallerStates
    /\ cursor \in Nat \ {0}
    /\ policy \in Policies /\ priority \in Policies
    /\ ending \in BOOLEAN /\ quiet \in BOOLEAN
    /\ timedOut \in BOOLEAN /\ spurious \in BOOLEAN /\ leaked \in BOOLEAN

(* The caller works on an entry of the list, which is not recorded as      *)
(* running while it is being started and is while it is being joined.      *)
CursorOK ==
    /\ Waiting \/ caller = "create" => cursor <= size /\ ~running[cursor]
    /\ caller = "join" => cursor <= size /\ running[cursor]
    /\ Waiting => tid[cursor] # 0

(* A tid names a thread that was created for its entry, and an entry       *)
(* recorded as running has one.                                            *)
TidsOK ==
    \A i \in Index :
        /\ tid[i] # 0 => tid[i] <= created /\ of[tid[i]] = i
        /\ running[i] => tid[i] # 0
        /\ tid[i] # 0 => i <= size \/ caller = "destroyed"

(* The threads created so far, and only they, belong to an entry.          *)
CreatedOK ==
    \A p \in Pthreads :
        IF p <= created THEN of[p] \in Index ELSE thread[p] = "none" /\ of[p] = 0

(* From before the creation until the wait the caller holds the mutex.     *)
HoldsMutex == caller \in {"create", "wait"} => locked[cursor]

(* While the caller has not been woken, the thread has not signalled.      *)
NotSignalled ==
    caller \in {"wait", "asleep"} => thread[tid[cursor]] \in {"starting", "exited"}

(* The entries before the cursor of terminateAllThreads are not running,   *)
(* and none is once it has returned OK.                                    *)
SweptOK ==
    /\ caller \in {"terminate", "join"} =>
        \A i \in Index : i < cursor => ~running[i]
    /\ quiet => ~Waiting /\ caller \notin {"start", "create"}
    /\ quiet => \A i \in Index : ~running[i]

(* Unless a start has timed out, the manager knows every live thread: it   *)
(* is the one its entry names, and either that entry is recorded as        *)
(* running or the caller is waiting for it.                                *)
Known ==
    ~timedOut => \A p \in Pthreads : thread[p] \in {"starting", "ready", "cancelled"} =>
        /\ tid[of[p]] = p
        /\ running[of[p]] \/ (Waiting /\ cursor = of[p])

(* A signal wakes the caller only for the thread it has created.           *)
WokenByOwn ==
    caller = "woken" /\ ~spurious /\ ~timedOut => thread[tid[cursor]] # "starting"

(* After the destructor no tid names a live thread.                        *)
DestroyedOK ==
    caller = "destroyed" => \A p \in Alive : tid[of[p]] # p

(* The inductive invariant.  The properties are not inductive by           *)
(* themselves: that an entry gets no second thread needs Known, by which   *)
(* an entry that is not running has no live thread; that a termination is  *)
(* complete needs what it has swept; that a signal is not lost needs the   *)
(* mutex.                                                                  *)
IInv ==
    /\ TypeOK
    /\ CursorOK
    /\ TidsOK
    /\ CreatedOK
    /\ HoldsMutex
    /\ NotSignalled
    /\ SweptOK
    /\ Known
    /\ WokenByOwn
    /\ StartedMeansReady
    /\ DestroyedOK

-----------------------------------------------------------------------------
(* The bounds are numbers; entries and pthreads are counted from one.      *)
LEMMA Numbers ==
    /\ Entries \in Nat /\ MaxPthreads \in Nat
    /\ \A n : n \in Index <=> n \in Nat /\ 1 <= n /\ n <= Entries
    /\ \A n : n \in Pthreads <=> n \in Nat /\ 1 <= n /\ n <= MaxPthreads
BY ThreadManagerAssumption DEF Index, Pthreads

(* An entry of the list that the caller looks at is one.                   *)
LEMMA CurrentEntry == ASSUME TypeOK, cursor <= size PROVE cursor \in Index
BY Numbers DEF TypeOK

(* Every step keeps the types.                                             *)
LEMMA TypeStep ==
    ASSUME TypeOK, CursorOK, TidsOK, Next
    PROVE  TypeOK'
<1> USE Numbers, CurrentEntry, ThreadManagerAssumption
    DEF TypeOK, CallerStates, ThreadStates, Policies, list, sched, history,
        Current
<1>1. CASE AddThread
  BY <1>1 DEF AddThread
<1>2. CASE AddThreadMoves
  BY <1>2 DEF AddThreadMoves, ResetAll
<1>3. ASSUME NEW i \in Index, OwnerGoes(i) PROVE TypeOK'
  BY <1>3 DEF OwnerGoes
<1>4. CASE StartBegin
  <2>1. quiet' \in BOOLEAN
    BY <1>4 DEF StartBegin
  <2> QED
    BY <1>4, <2>1 DEF StartBegin
<1>5. CASE TerminateBegin
  BY <1>5 DEF TerminateBegin
<1>6. CASE Destruct
  BY <1>6 DEF Destruct
<1>7. CASE SetPolicy
  BY <1>7 DEF SetPolicy
<1>8. CASE SetPriorities
  BY <1>8 DEF SetPriorities
<1>9. CASE SpuriousWakeup
  BY <1>9 DEF SpuriousWakeup
<1>10. CASE StartSkip
  BY <1>10 DEF StartSkip
<1>11. CASE StartOwnerGone
  BY <1>11 DEF StartOwnerGone
<1>12. CASE StartLock
  BY <1>12 DEF StartLock
<1>13. CASE StartCreate
  <2>1. cursor \in Index /\ created + 1 \in Pthreads /\ created + 1 <= MaxPthreads
    BY <1>13 DEF StartCreate, CursorOK, Waiting
  <2>2. thread' \in [Pthreads -> ThreadStates] /\ of' \in [Pthreads -> Nat]
    BY <1>13, <2>1 DEF StartCreate
  <2>3. tid' \in [Index -> Nat]
    BY <1>13, <2>1 DEF StartCreate
  <2> QED
    BY <1>13, <2>1, <2>2, <2>3 DEF StartCreate
<1>14. CASE StartCreateFails
  BY <1>14 DEF StartCreateFails
<1>15. CASE StartSleep
  BY <1>15 DEF StartSleep
<1>16. CASE Timeout
  BY <1>16 DEF Timeout
<1>17. CASE StartWoken
  BY <1>17 DEF StartWoken, CursorOK, Waiting
<1>18. CASE StartTimedOut
  BY <1>18 DEF StartTimedOut
<1>19. CASE StartEnd
  BY <1>19 DEF StartEnd
<1>20. CASE TerminateSkip
  BY <1>20 DEF TerminateSkip
<1>21. CASE Cancel
  BY <1>21 DEF Cancel
<1>22. CASE TerminateFails
  BY <1>22 DEF TerminateFails, BackToCaller
<1>23. CASE Join
  BY <1>23 DEF Join, CursorOK, TidsOK
<1>24. CASE TerminateEnd
  BY <1>24 DEF TerminateEnd, BackToCaller
<1>25. CASE Reset
  BY <1>25 DEF Reset, ResetAll
<1>26. ASSUME NEW p \in Pthreads, ThreadReady(p) PROVE TypeOK'
  BY <1>26 DEF ThreadReady
<1>27. ASSUME NEW p \in Pthreads, ThreadEnds(p) PROVE TypeOK'
  BY <1>27 DEF ThreadEnds
<1>28. ASSUME NEW p \in Pthreads, ThreadGivesUp(p) PROVE TypeOK'
  BY <1>28 DEF ThreadGivesUp
<1>29. ASSUME NEW p \in Pthreads, ThreadCancelled(p) PROVE TypeOK'
  BY <1>29 DEF ThreadCancelled
<1> QED
  BY <1>1, <1>2, <1>3, <1>4, <1>5, <1>6, <1>7, <1>8, <1>9, <1>10,
     <1>11, <1>12, <1>13, <1>14, <1>15, <1>16, <1>17, <1>18, <1>19, <1>20,
     <1>21, <1>22, <1>23, <1>24, <1>25, <1>26, <1>27, <1>28, <1>29
  DEF Next, CallerStep

(* Every step keeps the caller at an entry of the list.                    *)
LEMMA CursorStep ==
    ASSUME TypeOK, CursorOK, TidsOK, Next
    PROVE  CursorOK'
<1> USE Numbers, CurrentEntry
    DEF TypeOK, CallerStates, ThreadStates, Policies, CursorOK, Waiting, list,
        sched, history, Current
<1>1. CASE AddThread
  BY <1>1 DEF AddThread
<1>2. CASE AddThreadMoves
  BY <1>2 DEF AddThreadMoves, ResetAll
<1>3. ASSUME NEW i \in Index, OwnerGoes(i) PROVE CursorOK'
  BY <1>3 DEF OwnerGoes
<1>4. CASE StartBegin
  BY <1>4 DEF StartBegin
<1>5. CASE TerminateBegin
  BY <1>5 DEF TerminateBegin
<1>6. CASE Destruct
  BY <1>6 DEF Destruct
<1>7. CASE SetPolicy
  BY <1>7 DEF SetPolicy
<1>8. CASE SetPriorities
  BY <1>8 DEF SetPriorities
<1>9. CASE SpuriousWakeup
  BY <1>9 DEF SpuriousWakeup
<1>10. CASE StartSkip
  BY <1>10 DEF StartSkip
<1>11. CASE StartOwnerGone
  BY <1>11 DEF StartOwnerGone
<1>12. CASE StartLock
  BY <1>12 DEF StartLock
<1>13. CASE StartCreate
  BY <1>13 DEF StartCreate
<1>14. CASE StartCreateFails
  BY <1>14 DEF StartCreateFails
<1>15. CASE StartSleep
  BY <1>15 DEF StartSleep
<1>16. CASE Timeout
  BY <1>16 DEF Timeout
<1>17. CASE StartWoken
  BY <1>17 DEF StartWoken
<1>18. CASE StartTimedOut
  BY <1>18 DEF StartTimedOut
<1>19. CASE StartEnd
  BY <1>19 DEF StartEnd
<1>20. CASE TerminateSkip
  BY <1>20 DEF TerminateSkip
<1>21. CASE Cancel
  BY <1>21 DEF Cancel
<1>22. CASE TerminateFails
  BY <1>22 DEF TerminateFails, BackToCaller
<1>23. CASE Join
  BY <1>23 DEF Join
<1>24. CASE TerminateEnd
  BY <1>24 DEF TerminateEnd, BackToCaller
<1>25. CASE Reset
  BY <1>25 DEF Reset, ResetAll
<1>26. ASSUME NEW p \in Pthreads, ThreadReady(p) PROVE CursorOK'
  BY <1>26 DEF ThreadReady
<1>27. ASSUME NEW p \in Pthreads, ThreadEnds(p) PROVE CursorOK'
  BY <1>27 DEF ThreadEnds
<1>28. ASSUME NEW p \in Pthreads, ThreadGivesUp(p) PROVE CursorOK'
  BY <1>28 DEF ThreadGivesUp
<1>29. ASSUME NEW p \in Pthreads, ThreadCancelled(p) PROVE CursorOK'
  BY <1>29 DEF ThreadCancelled
<1> QED
  BY <1>1, <1>2, <1>3, <1>4, <1>5, <1>6, <1>7, <1>8, <1>9, <1>10,
     <1>11, <1>12, <1>13, <1>14, <1>15, <1>16, <1>17, <1>18, <1>19, <1>20,
     <1>21, <1>22, <1>23, <1>24, <1>25, <1>26, <1>27, <1>28, <1>29
  DEF Next, CallerStep

(* Every step keeps the tids of the entries.                               *)
LEMMA TidsStep ==
    ASSUME TypeOK, CursorOK, TidsOK, CreatedOK, Next
    PROVE  TidsOK'
<1> USE Numbers, CurrentEntry
    DEF TypeOK, CallerStates, TidsOK, CursorOK, Waiting, list, sched, history,
        Current
<1>1. CASE AddThread
  BY <1>1 DEF AddThread
<1>2. CASE AddThreadMoves
  BY <1>2 DEF AddThreadMoves, ResetAll
<1>3. ASSUME NEW i \in Index, OwnerGoes(i) PROVE TidsOK'
  BY <1>3 DEF OwnerGoes
<1>4. CASE StartBegin
  BY <1>4 DEF StartBegin
<1>5. CASE TerminateBegin
  BY <1>5 DEF TerminateBegin
<1>6. CASE Destruct
  BY <1>6 DEF Destruct
<1>7. CASE SetPolicy
  BY <1>7 DEF SetPolicy
<1>8. CASE SetPriorities
  BY <1>8 DEF SetPriorities
<1>9. CASE SpuriousWakeup
  BY <1>9 DEF SpuriousWakeup
<1>10. CASE StartSkip
  BY <1>10 DEF StartSkip
<1>11. CASE StartOwnerGone
  BY <1>11 DEF StartOwnerGone
<1>12. CASE StartLock
  BY <1>12 DEF StartLock
<1>13. CASE StartCreate
  BY <1>13 DEF StartCreate
<1>14. CASE StartCreateFails
  BY <1>14 DEF StartCreateFails
<1>15. CASE StartSleep
  BY <1>15 DEF StartSleep
<1>16. CASE Timeout
  BY <1>16 DEF Timeout
<1>17. CASE StartWoken
  BY <1>17 DEF StartWoken
<1>18. CASE StartTimedOut
  BY <1>18 DEF StartTimedOut
<1>19. CASE StartEnd
  BY <1>19 DEF StartEnd
<1>20. CASE TerminateSkip
  BY <1>20 DEF TerminateSkip
<1>21. CASE Cancel
  BY <1>21 DEF Cancel
<1>22. CASE TerminateFails
  BY <1>22 DEF TerminateFails, BackToCaller
<1>23. CASE Join
  BY <1>23 DEF Join
<1>24. CASE TerminateEnd
  BY <1>24 DEF TerminateEnd, BackToCaller
<1>25. CASE Reset
  BY <1>25 DEF Reset, ResetAll
<1>26. ASSUME NEW p \in Pthreads, ThreadReady(p) PROVE TidsOK'
  BY <1>26 DEF ThreadReady
<1>27. ASSUME NEW p \in Pthreads, ThreadEnds(p) PROVE TidsOK'
  BY <1>27 DEF ThreadEnds
<1>28. ASSUME NEW p \in Pthreads, ThreadGivesUp(p) PROVE TidsOK'
  BY <1>28 DEF ThreadGivesUp
<1>29. ASSUME NEW p \in Pthreads, ThreadCancelled(p) PROVE TidsOK'
  BY <1>29 DEF ThreadCancelled
<1> QED
  BY <1>1, <1>2, <1>3, <1>4, <1>5, <1>6, <1>7, <1>8, <1>9, <1>10,
     <1>11, <1>12, <1>13, <1>14, <1>15, <1>16, <1>17, <1>18, <1>19, <1>20,
     <1>21, <1>22, <1>23, <1>24, <1>25, <1>26, <1>27, <1>28, <1>29
  DEF Next, CallerStep

(* Every step keeps the count of the threads.                              *)
LEMMA CreatedStep ==
    ASSUME TypeOK, CursorOK, TidsOK, CreatedOK, Next
    PROVE  CreatedOK'
<1> USE Numbers, CurrentEntry
    DEF TypeOK, CallerStates, ThreadStates, CreatedOK, TidsOK, CursorOK, Waiting,
        list, sched, history, Current
<1>1. CASE AddThread
  BY <1>1 DEF AddThread
<1>2. CASE AddThreadMoves
  BY <1>2 DEF AddThreadMoves, ResetAll
<1>3. ASSUME NEW i \in Index, OwnerGoes(i) PROVE CreatedOK'
  BY <1>3 DEF OwnerGoes
<1>4. CASE StartBegin
  BY <1>4 DEF StartBegin
<1>5. CASE TerminateBegin
  BY <1>5 DEF TerminateBegin
<1>6. CASE Destruct
  BY <1>6 DEF Destruct
<1>7. CASE SetPolicy
  BY <1>7 DEF SetPolicy
<1>8. CASE SetPriorities
  BY <1>8 DEF SetPriorities
<1>9. CASE SpuriousWakeup
  BY <1>9 DEF SpuriousWakeup
<1>10. CASE StartSkip
  BY <1>10 DEF StartSkip
<1>11. CASE StartOwnerGone
  BY <1>11 DEF StartOwnerGone
<1>12. CASE StartLock
  BY <1>12 DEF StartLock
<1>13. CASE StartCreate
  BY <1>13 DEF StartCreate
<1>14. CASE StartCreateFails
  BY <1>14 DEF StartCreateFails
<1>15. CASE StartSleep
  BY <1>15 DEF StartSleep
<1>16. CASE Timeout
  BY <1>16 DEF Timeout
<1>17. CASE StartWoken
  BY <1>17 DEF StartWoken
<1>18. CASE StartTimedOut
  BY <1>18 DEF StartTimedOut
<1>19. CASE StartEnd
  BY <1>19 DEF StartEnd
<1>20. CASE TerminateSkip
  BY <1>20 DEF TerminateSkip
<1>21. CASE Cancel
  BY <1>21 DEF Cancel
<1>22. CASE TerminateFails
  BY <1>22 DEF TerminateFails, BackToCaller
<1>23. CASE Join
  BY <1>23 DEF Join
<1>24. CASE TerminateEnd
  BY <1>24 DEF TerminateEnd, BackToCaller
<1>25. CASE Reset
  BY <1>25 DEF Reset, ResetAll
<1>26. ASSUME NEW p \in Pthreads, ThreadReady(p) PROVE CreatedOK'
  BY <1>26 DEF ThreadReady
<1>27. ASSUME NEW p \in Pthreads, ThreadEnds(p) PROVE CreatedOK'
  BY <1>27 DEF ThreadEnds
<1>28. ASSUME NEW p \in Pthreads, ThreadGivesUp(p) PROVE CreatedOK'
  BY <1>28 DEF ThreadGivesUp
<1>29. ASSUME NEW p \in Pthreads, ThreadCancelled(p) PROVE CreatedOK'
  BY <1>29 DEF ThreadCancelled
<1> QED
  BY <1>1, <1>2, <1>3, <1>4, <1>5, <1>6, <1>7, <1>8, <1>9, <1>10,
     <1>11, <1>12, <1>13, <1>14, <1>15, <1>16, <1>17, <1>18, <1>19, <1>20,
     <1>21, <1>22, <1>23, <1>24, <1>25, <1>26, <1>27, <1>28, <1>29
  DEF Next, CallerStep

(* Every step keeps the mutex with the caller that creates a thread.       *)
LEMMA MutexStep ==
    ASSUME TypeOK, CursorOK, HoldsMutex, Next
    PROVE  HoldsMutex'
<1> USE Numbers, CurrentEntry
    DEF TypeOK, CallerStates, HoldsMutex, CursorOK, Waiting, list, sched,
        history, Current
<1>1. CASE AddThread
  BY <1>1 DEF AddThread
<1>2. CASE AddThreadMoves
  BY <1>2 DEF AddThreadMoves, ResetAll
<1>3. ASSUME NEW i \in Index, OwnerGoes(i) PROVE HoldsMutex'
  BY <1>3 DEF OwnerGoes
<1>4. CASE StartBegin
  BY <1>4 DEF StartBegin
<1>5. CASE TerminateBegin
  BY <1>5 DEF TerminateBegin
<1>6. CASE Destruct
  BY <1>6 DEF Destruct
<1>7. CASE SetPolicy
  BY <1>7 DEF SetPolicy
<1>8. CASE SetPriorities
  BY <1>8 DEF SetPriorities
<1>9. CASE SpuriousWakeup
  BY <1>9 DEF SpuriousWakeup
<1>10. CASE StartSkip
  BY <1>10 DEF StartSkip
<1>11. CASE StartOwnerGone
  BY <1>11 DEF StartOwnerGone
<1>12. CASE StartLock
  BY <1>12 DEF StartLock
<1>13. CASE StartCreate
  BY <1>13 DEF StartCreate
<1>14. CASE StartCreateFails
  BY <1>14 DEF StartCreateFails
<1>15. CASE StartSleep
  BY <1>15 DEF StartSleep
<1>16. CASE Timeout
  BY <1>16 DEF Timeout
<1>17. CASE StartWoken
  BY <1>17 DEF StartWoken
<1>18. CASE StartTimedOut
  BY <1>18 DEF StartTimedOut
<1>19. CASE StartEnd
  BY <1>19 DEF StartEnd
<1>20. CASE TerminateSkip
  BY <1>20 DEF TerminateSkip
<1>21. CASE Cancel
  BY <1>21 DEF Cancel
<1>22. CASE TerminateFails
  BY <1>22 DEF TerminateFails, BackToCaller
<1>23. CASE Join
  BY <1>23 DEF Join
<1>24. CASE TerminateEnd
  BY <1>24 DEF TerminateEnd, BackToCaller
<1>25. CASE Reset
  BY <1>25 DEF Reset, ResetAll
<1>26. ASSUME NEW p \in Pthreads, ThreadReady(p) PROVE HoldsMutex'
  BY <1>26 DEF ThreadReady
<1>27. ASSUME NEW p \in Pthreads, ThreadEnds(p) PROVE HoldsMutex'
  BY <1>27 DEF ThreadEnds
<1>28. ASSUME NEW p \in Pthreads, ThreadGivesUp(p) PROVE HoldsMutex'
  BY <1>28 DEF ThreadGivesUp
<1>29. ASSUME NEW p \in Pthreads, ThreadCancelled(p) PROVE HoldsMutex'
  BY <1>29 DEF ThreadCancelled
<1> QED
  BY <1>1, <1>2, <1>3, <1>4, <1>5, <1>6, <1>7, <1>8, <1>9, <1>10,
     <1>11, <1>12, <1>13, <1>14, <1>15, <1>16, <1>17, <1>18, <1>19, <1>20,
     <1>21, <1>22, <1>23, <1>24, <1>25, <1>26, <1>27, <1>28, <1>29
  DEF Next, CallerStep

(* No thread signals before the caller waits, and the signal wakes it.     *)
LEMMA SignalStep ==
    ASSUME TypeOK, CursorOK, TidsOK, CreatedOK, HoldsMutex, NotSignalled, Next
    PROVE  NotSignalled'
<1> USE Numbers, CurrentEntry
    DEF TypeOK, CallerStates, ThreadStates, NotSignalled, HoldsMutex, CreatedOK,
        TidsOK, CursorOK, Waiting, list, sched, history, Current
<1>1. CASE AddThread
  BY <1>1 DEF AddThread
<1>2. CASE AddThreadMoves
  BY <1>2 DEF AddThreadMoves, ResetAll
<1>3. ASSUME NEW i \in Index, OwnerGoes(i) PROVE NotSignalled'
  BY <1>3 DEF OwnerGoes
<1>4. CASE StartBegin
  BY <1>4 DEF StartBegin
<1>5. CASE TerminateBegin
  BY <1>5 DEF TerminateBegin
<1>6. CASE Destruct
  BY <1>6 DEF Destruct
<1>7. CASE SetPolicy
  BY <1>7 DEF SetPolicy
<1>8. CASE SetPriorities
  BY <1>8 DEF SetPriorities
<1>9. CASE SpuriousWakeup
  BY <1>9 DEF SpuriousWakeup
<1>10. CASE StartSkip
  BY <1>10 DEF StartSkip
<1>11. CASE StartOwnerGone
  BY <1>11 DEF StartOwnerGone
<1>12. CASE StartLock
  BY <1>12 DEF StartLock
<1>13. CASE StartCreate
  BY <1>13 DEF StartCreate
<1>14. CASE StartCreateFails
  BY <1>14 DEF StartCreateFails
<1>15. CASE StartSleep
  BY <1>15 DEF StartSleep
<1>16. CASE Timeout
  BY <1>16 DEF Timeout
<1>17. CASE StartWoken
  BY <1>17 DEF StartWoken
<1>18. CASE StartTimedOut
  BY <1>18 DEF StartTimedOut
<1>19. CASE StartEnd
  BY <1>19 DEF StartEnd
<1>20. CASE TerminateSkip
  BY <1>20 DEF TerminateSkip
<1>21. CASE Cancel
  BY <1>21 DEF Cancel
<1>22. CASE TerminateFails
  BY <1>22 DEF TerminateFails, BackToCaller
<1>23. CASE Join
  BY <1>23 DEF Join
<1>24. CASE TerminateEnd
  BY <1>24 DEF TerminateEnd, BackToCaller
<1>25. CASE Reset
  BY <1>25 DEF Reset, ResetAll
<1>26. ASSUME NEW p \in Pthreads, ThreadReady(p) PROVE NotSignalled'
  BY <1>26 DEF ThreadReady
<1>27. ASSUME NEW p \in Pthreads, ThreadEnds(p) PROVE NotSignalled'
  BY <1>27 DEF ThreadEnds
<1>28. ASSUME NEW p \in Pthreads, ThreadGivesUp(p) PROVE NotSignalled'
  BY <1>28 DEF ThreadGivesUp
<1>29. ASSUME NEW p \in Pthreads, ThreadCancelled(p) PROVE NotSignalled'
  BY <1>29 DEF ThreadCancelled
<1> QED
  BY <1>1, <1>2, <1>3, <1>4, <1>5, <1>6, <1>7, <1>8, <1>9, <1>10,
     <1>11, <1>12, <1>13, <1>14, <1>15, <1>16, <1>17, <1>18, <1>19, <1>20,
     <1>21, <1>22, <1>23, <1>24, <1>25, <1>26, <1>27, <1>28, <1>29
  DEF Next, CallerStep

(* Every step keeps what terminateAllThreads has achieved.                 *)
LEMMA SweptStep ==
    ASSUME TypeOK, CursorOK, TidsOK, SweptOK, Next
    PROVE  SweptOK'
<1> USE Numbers, CurrentEntry
    DEF TypeOK, CallerStates, SweptOK, TidsOK, CursorOK, Waiting, list, sched,
        history, Current
<1>1. CASE AddThread
  BY <1>1 DEF AddThread
<1>2. CASE AddThreadMoves
  BY <1>2 DEF AddThreadMoves, ResetAll
<1>3. ASSUME NEW i \in Index, OwnerGoes(i) PROVE SweptOK'
  BY <1>3 DEF OwnerGoes
<1>4. CASE StartBegin
  BY <1>4 DEF StartBegin
<1>5. CASE TerminateBegin
  BY <1>5 DEF TerminateBegin
<1>6. CASE Destruct
  BY <1>6 DEF Destruct
<1>7. CASE SetPolicy
  BY <1>7 DEF SetPolicy
<1>8. CASE SetPriorities
  BY <1>8 DEF SetPriorities
<1>9. CASE SpuriousWakeup
  BY <1>9 DEF SpuriousWakeup
<1>10. CASE StartSkip
  BY <1>10 DEF StartSkip
<1>11. CASE StartOwnerGone
  BY <1>11 DEF StartOwnerGone
<1>12. CASE StartLock
  BY <1>12 DEF StartLock
<1>13. CASE StartCreate
  BY <1>13 DEF StartCreate
<1>14. CASE StartCreateFails
  BY <1>14 DEF StartCreateFails
<1>15. CASE StartSleep
  BY <1>15 DEF StartSleep
<1>16. CASE Timeout
  BY <1>16 DEF Timeout
<1>17. CASE StartWoken
  BY <1>17 DEF StartWoken
<1>18. CASE StartTimedOut
  BY <1>18 DEF StartTimedOut
<1>19. CASE StartEnd
  BY <1>19 DEF StartEnd
<1>20. CASE TerminateSkip
  BY <1>20 DEF TerminateSkip
<1>21. CASE Cancel
  BY <1>21 DEF Cancel
<1>22. CASE TerminateFails
  BY <1>22 DEF TerminateFails, BackToCaller
<1>23. CASE Join
  BY <1>23 DEF Join
<1>24. CASE TerminateEnd
  BY <1>24 DEF TerminateEnd, BackToCaller
<1>25. CASE Reset
  BY <1>25 DEF Reset, ResetAll
<1>26. ASSUME NEW p \in Pthreads, ThreadReady(p) PROVE SweptOK'
  BY <1>26 DEF ThreadReady
<1>27. ASSUME NEW p \in Pthreads, ThreadEnds(p) PROVE SweptOK'
  BY <1>27 DEF ThreadEnds
<1>28. ASSUME NEW p \in Pthreads, ThreadGivesUp(p) PROVE SweptOK'
  BY <1>28 DEF ThreadGivesUp
<1>29. ASSUME NEW p \in Pthreads, ThreadCancelled(p) PROVE SweptOK'
  BY <1>29 DEF ThreadCancelled
<1> QED
  BY <1>1, <1>2, <1>3, <1>4, <1>5, <1>6, <1>7, <1>8, <1>9, <1>10,
     <1>11, <1>12, <1>13, <1>14, <1>15, <1>16, <1>17, <1>18, <1>19, <1>20,
     <1>21, <1>22, <1>23, <1>24, <1>25, <1>26, <1>27, <1>28, <1>29
  DEF Next, CallerStep

(* Every step keeps the live threads known.                                *)
LEMMA KnownStep ==
    ASSUME TypeOK, CursorOK, TidsOK, CreatedOK, Known, Next
    PROVE  Known'
<1> USE Numbers, CurrentEntry
    DEF TypeOK, CallerStates, ThreadStates, Known, CreatedOK, TidsOK, CursorOK,
        Waiting, list, sched, history, Current
<1>1. CASE AddThread
  BY <1>1 DEF AddThread
<1>2. CASE AddThreadMoves
  BY <1>2 DEF AddThreadMoves, ResetAll
<1>3. ASSUME NEW i \in Index, OwnerGoes(i) PROVE Known'
  BY <1>3 DEF OwnerGoes
<1>4. CASE StartBegin
  BY <1>4 DEF StartBegin
<1>5. CASE TerminateBegin
  BY <1>5 DEF TerminateBegin
<1>6. CASE Destruct
  BY <1>6 DEF Destruct
<1>7. CASE SetPolicy
  BY <1>7 DEF SetPolicy
<1>8. CASE SetPriorities
  BY <1>8 DEF SetPriorities
<1>9. CASE SpuriousWakeup
  BY <1>9 DEF SpuriousWakeup
<1>10. CASE StartSkip
  BY <1>10 DEF StartSkip
<1>11. CASE StartOwnerGone
  BY <1>11 DEF StartOwnerGone
<1>12. CASE StartLock
  BY <1>12 DEF StartLock
<1>13. CASE StartCreate
  BY <1>13 DEF StartCreate
<1>14. CASE StartCreateFails
  BY <1>14 DEF StartCreateFails
<1>15. CASE StartSleep
  BY <1>15 DEF StartSleep
<1>16. CASE Timeout
  BY <1>16 DEF Timeout
<1>17. CASE StartWoken
  BY <1>17 DEF StartWoken
<1>18. CASE StartTimedOut
  BY <1>18 DEF StartTimedOut
<1>19. CASE StartEnd
  BY <1>19 DEF StartEnd
<1>20. CASE TerminateSkip
  BY <1>20 DEF TerminateSkip
<1>21. CASE Cancel
  BY <1>21 DEF Cancel
<1>22. CASE TerminateFails
  BY <1>22 DEF TerminateFails, BackToCaller
<1>23. CASE Join
  BY <1>23 DEF Join
<1>24. CASE TerminateEnd
  BY <1>24 DEF TerminateEnd, BackToCaller
<1>25. CASE Reset
  BY <1>25 DEF Reset, ResetAll
<1>26. ASSUME NEW p \in Pthreads, ThreadReady(p) PROVE Known'
  BY <1>26 DEF ThreadReady
<1>27. ASSUME NEW p \in Pthreads, ThreadEnds(p) PROVE Known'
  BY <1>27 DEF ThreadEnds
<1>28. ASSUME NEW p \in Pthreads, ThreadGivesUp(p) PROVE Known'
  BY <1>28 DEF ThreadGivesUp
<1>29. ASSUME NEW p \in Pthreads, ThreadCancelled(p) PROVE Known'
  BY <1>29 DEF ThreadCancelled
<1> QED
  BY <1>1, <1>2, <1>3, <1>4, <1>5, <1>6, <1>7, <1>8, <1>9, <1>10,
     <1>11, <1>12, <1>13, <1>14, <1>15, <1>16, <1>17, <1>18, <1>19, <1>20,
     <1>21, <1>22, <1>23, <1>24, <1>25, <1>26, <1>27, <1>28, <1>29
  DEF Next, CallerStep

(* Only the thread that the caller has created wakes it.                   *)
LEMMA WokenStep ==
    ASSUME TypeOK, CursorOK, TidsOK, CreatedOK, Known, WokenByOwn, Next
    PROVE  WokenByOwn'
<1> USE Numbers, CurrentEntry
    DEF TypeOK, CallerStates, ThreadStates, Known, WokenByOwn, CreatedOK, TidsOK,
        CursorOK, Waiting, list, sched, history, Current
<1>1. CASE AddThread
  BY <1>1 DEF AddThread
<1>2. CASE AddThreadMoves
  BY <1>2 DEF AddThreadMoves, ResetAll
<1>3. ASSUME NEW i \in Index, OwnerGoes(i) PROVE WokenByOwn'
  BY <1>3 DEF OwnerGoes
<1>4. CASE StartBegin
  BY <1>4 DEF StartBegin
<1>5. CASE TerminateBegin
  BY <1>5 DEF TerminateBegin
<1>6. CASE Destruct
  BY <1>6 DEF Destruct
<1>7. CASE SetPolicy
  BY <1>7 DEF SetPolicy
<1>8. CASE SetPriorities
  BY <1>8 DEF SetPriorities
<1>9. CASE SpuriousWakeup
  BY <1>9 DEF SpuriousWakeup
<1>10. CASE StartSkip
  BY <1>10 DEF StartSkip
<1>11. CASE StartOwnerGone
  BY <1>11 DEF StartOwnerGone
<1>12. CASE StartLock
  BY <1>12 DEF StartLock
<1>13. CASE StartCreate
  BY <1>13 DEF StartCreate
<1>14. CASE StartCreateFails
  BY <1>14 DEF StartCreateFails
<1>15. CASE StartSleep
  BY <1>15 DEF StartSleep
<1>16. CASE Timeout
  BY <1>16 DEF Timeout
<1>17. CASE StartWoken
  BY <1>17 DEF StartWoken
<1>18. CASE StartTimedOut
  BY <1>18 DEF StartTimedOut
<1>19. CASE StartEnd
  BY <1>19 DEF StartEnd
<1>20. CASE TerminateSkip
  BY <1>20 DEF TerminateSkip
<1>21. CASE Cancel
  BY <1>21 DEF Cancel
<1>22. CASE TerminateFails
  BY <1>22 DEF TerminateFails, BackToCaller
<1>23. CASE Join
  BY <1>23 DEF Join
<1>24. CASE TerminateEnd
  BY <1>24 DEF TerminateEnd, BackToCaller
<1>25. CASE Reset
  BY <1>25 DEF Reset, ResetAll
<1>26. ASSUME NEW p \in Pthreads, ThreadReady(p) PROVE WokenByOwn'
  BY <1>26 DEF ThreadReady
<1>27. ASSUME NEW p \in Pthreads, ThreadEnds(p) PROVE WokenByOwn'
  BY <1>27 DEF ThreadEnds
<1>28. ASSUME NEW p \in Pthreads, ThreadGivesUp(p) PROVE WokenByOwn'
  BY <1>28 DEF ThreadGivesUp
<1>29. ASSUME NEW p \in Pthreads, ThreadCancelled(p) PROVE WokenByOwn'
  BY <1>29 DEF ThreadCancelled
<1> QED
  BY <1>1, <1>2, <1>3, <1>4, <1>5, <1>6, <1>7, <1>8, <1>9, <1>10,
     <1>11, <1>12, <1>13, <1>14, <1>15, <1>16, <1>17, <1>18, <1>19, <1>20,
     <1>21, <1>22, <1>23, <1>24, <1>25, <1>26, <1>27, <1>28, <1>29
  DEF Next, CallerStep

(* A running entry's thread has completed its initialisation.              *)
LEMMA StartedStep ==
    ASSUME TypeOK, CursorOK, TidsOK, CreatedOK, WokenByOwn, StartedMeansReady, Next
    PROVE  StartedMeansReady'
<1> USE Numbers, CurrentEntry
    DEF TypeOK, CallerStates, ThreadStates, StartedMeansReady, WokenByOwn,
        CreatedOK, TidsOK, CursorOK, Waiting, list, sched, history, Current
<1>1. CASE AddThread
  BY <1>1 DEF AddThread
<1>2. CASE AddThreadMoves
  BY <1>2 DEF AddThreadMoves, ResetAll
<1>3. ASSUME NEW i \in Index, OwnerGoes(i) PROVE StartedMeansReady'
  BY <1>3 DEF OwnerGoes
<1>4. CASE StartBegin
  BY <1>4 DEF StartBegin
<1>5. CASE TerminateBegin
  BY <1>5 DEF TerminateBegin
<1>6. CASE Destruct
  BY <1>6 DEF Destruct
<1>7. CASE SetPolicy
  BY <1>7 DEF SetPolicy
<1>8. CASE SetPriorities
  BY <1>8 DEF SetPriorities
<1>9. CASE SpuriousWakeup
  BY <1>9 DEF SpuriousWakeup
<1>10. CASE StartSkip
  BY <1>10 DEF StartSkip
<1>11. CASE StartOwnerGone
  BY <1>11 DEF StartOwnerGone
<1>12. CASE StartLock
  BY <1>12 DEF StartLock
<1>13. CASE StartCreate
  BY <1>13 DEF StartCreate
<1>14. CASE StartCreateFails
  BY <1>14 DEF StartCreateFails
<1>15. CASE StartSleep
  BY <1>15 DEF StartSleep
<1>16. CASE Timeout
  BY <1>16 DEF Timeout
<1>17. CASE StartWoken
  BY <1>17 DEF StartWoken
<1>18. CASE StartTimedOut
  BY <1>18 DEF StartTimedOut
<1>19. CASE StartEnd
  BY <1>19 DEF StartEnd
<1>20. CASE TerminateSkip
  BY <1>20 DEF TerminateSkip
<1>21. CASE Cancel
  BY <1>21 DEF Cancel
<1>22. CASE TerminateFails
  BY <1>22 DEF TerminateFails, BackToCaller
<1>23. CASE Join
  BY <1>23 DEF Join
<1>24. CASE TerminateEnd
  BY <1>24 DEF TerminateEnd, BackToCaller
<1>25. CASE Reset
  BY <1>25 DEF Reset, ResetAll
<1>26. ASSUME NEW p \in Pthreads, ThreadReady(p) PROVE StartedMeansReady'
  BY <1>26 DEF ThreadReady
<1>27. ASSUME NEW p \in Pthreads, ThreadEnds(p) PROVE StartedMeansReady'
  BY <1>27 DEF ThreadEnds
<1>28. ASSUME NEW p \in Pthreads, ThreadGivesUp(p) PROVE StartedMeansReady'
  BY <1>28 DEF ThreadGivesUp
<1>29. ASSUME NEW p \in Pthreads, ThreadCancelled(p) PROVE StartedMeansReady'
  BY <1>29 DEF ThreadCancelled
<1> QED
  BY <1>1, <1>2, <1>3, <1>4, <1>5, <1>6, <1>7, <1>8, <1>9, <1>10,
     <1>11, <1>12, <1>13, <1>14, <1>15, <1>16, <1>17, <1>18, <1>19, <1>20,
     <1>21, <1>22, <1>23, <1>24, <1>25, <1>26, <1>27, <1>28, <1>29
  DEF Next, CallerStep

(* The destructor ends every thread that a tid names.                      *)
LEMMA DestroyedStep ==
    ASSUME TypeOK, CursorOK, TidsOK, CreatedOK, DestroyedOK, Next
    PROVE  DestroyedOK'
<1> USE Numbers, CurrentEntry
    DEF TypeOK, CallerStates, ThreadStates, DestroyedOK, Alive, CreatedOK,
        TidsOK, CursorOK, Waiting, list, sched, history, Current
<1>1. CASE AddThread
  BY <1>1 DEF AddThread
<1>2. CASE AddThreadMoves
  BY <1>2 DEF AddThreadMoves, ResetAll
<1>3. ASSUME NEW i \in Index, OwnerGoes(i) PROVE DestroyedOK'
  BY <1>3 DEF OwnerGoes
<1>4. CASE StartBegin
  BY <1>4 DEF StartBegin
<1>5. CASE TerminateBegin
  BY <1>5 DEF TerminateBegin
<1>6. CASE Destruct
  BY <1>6 DEF Destruct
<1>7. CASE SetPolicy
  BY <1>7 DEF SetPolicy
<1>8. CASE SetPriorities
  BY <1>8 DEF SetPriorities
<1>9. CASE SpuriousWakeup
  BY <1>9 DEF SpuriousWakeup
<1>10. CASE StartSkip
  BY <1>10 DEF StartSkip
<1>11. CASE StartOwnerGone
  BY <1>11 DEF StartOwnerGone
<1>12. CASE StartLock
  BY <1>12 DEF StartLock
<1>13. CASE StartCreate
  BY <1>13 DEF StartCreate
<1>14. CASE StartCreateFails
  BY <1>14 DEF StartCreateFails
<1>15. CASE StartSleep
  BY <1>15 DEF StartSleep
<1>16. CASE Timeout
  BY <1>16 DEF Timeout
<1>17. CASE StartWoken
  BY <1>17 DEF StartWoken
<1>18. CASE StartTimedOut
  BY <1>18 DEF StartTimedOut
<1>19. CASE StartEnd
  BY <1>19 DEF StartEnd
<1>20. CASE TerminateSkip
  BY <1>20 DEF TerminateSkip
<1>21. CASE Cancel
  BY <1>21 DEF Cancel
<1>22. CASE TerminateFails
  BY <1>22 DEF TerminateFails, BackToCaller
<1>23. CASE Join
  BY <1>23 DEF Join
<1>24. CASE TerminateEnd
  BY <1>24 DEF TerminateEnd, BackToCaller
<1>25. CASE Reset
  BY <1>25 DEF Reset, ResetAll
<1>26. ASSUME NEW p \in Pthreads, ThreadReady(p) PROVE DestroyedOK'
  BY <1>26 DEF ThreadReady
<1>27. ASSUME NEW p \in Pthreads, ThreadEnds(p) PROVE DestroyedOK'
  BY <1>27 DEF ThreadEnds
<1>28. ASSUME NEW p \in Pthreads, ThreadGivesUp(p) PROVE DestroyedOK'
  BY <1>28 DEF ThreadGivesUp
<1>29. ASSUME NEW p \in Pthreads, ThreadCancelled(p) PROVE DestroyedOK'
  BY <1>29 DEF ThreadCancelled
<1> QED
  BY <1>1, <1>2, <1>3, <1>4, <1>5, <1>6, <1>7, <1>8, <1>9, <1>10,
     <1>11, <1>12, <1>13, <1>14, <1>15, <1>16, <1>17, <1>18, <1>19, <1>20,
     <1>21, <1>22, <1>23, <1>24, <1>25, <1>26, <1>27, <1>28, <1>29
  DEF Next, CallerStep

-----------------------------------------------------------------------------
(* The invariant holds in every behaviour of the manager.                  *)
THEOREM InductiveInvariant == Spec => []IInv
<1>1. Init => IInv
  <2> SUFFICES ASSUME Init PROVE IInv
    OBVIOUS
  <2> USE Numbers, ThreadManagerAssumption DEF Init
  <2>1. TypeOK
    <3>1. running \in [Index -> BOOLEAN] /\ owner \in [Index -> BOOLEAN]
          /\ locked \in [Index -> BOOLEAN]
      OBVIOUS
    <3>2. tid \in [Index -> Nat] /\ of \in [Pthreads -> Nat]
      OBVIOUS
    <3>3. thread \in [Pthreads -> ThreadStates]
      BY DEF ThreadStates
    <3>4. /\ size \in Nat /\ size <= Entries /\ capacity \in Nat
          /\ created \in Nat /\ created <= MaxPthreads /\ cursor \in Nat \ {0}
      OBVIOUS
    <3>5. caller \in CallerStates /\ policy \in Policies /\ priority \in Policies
      BY DEF CallerStates, Policies
    <3>6. /\ ending \in BOOLEAN /\ quiet \in BOOLEAN /\ timedOut \in BOOLEAN
          /\ spurious \in BOOLEAN /\ leaked \in BOOLEAN
      OBVIOUS
    <3> QED
      BY <3>1, <3>2, <3>3, <3>4, <3>5, <3>6 DEF TypeOK
  <2>2. CursorOK /\ TidsOK /\ CreatedOK /\ HoldsMutex /\ NotSignalled
    BY DEF CursorOK, TidsOK, CreatedOK, HoldsMutex, NotSignalled, Waiting
  <2>3. SweptOK /\ Known /\ WokenByOwn /\ StartedMeansReady /\ DestroyedOK
    BY DEF SweptOK, Known, WokenByOwn, StartedMeansReady, DestroyedOK, Waiting
  <2> QED
    BY <2>1, <2>2, <2>3 DEF IInv
<1>2. IInv /\ [Next]_tvars => IInv'
  <2> SUFFICES ASSUME IInv, [Next]_tvars PROVE IInv'
    OBVIOUS
  <2> USE DEF IInv
  <2>1. CASE Next
    BY <2>1, TypeStep, CursorStep, TidsStep, CreatedStep, MutexStep, SignalStep,
       SweptStep, KnownStep, WokenStep, StartedStep, DestroyedStep
  <2>2. CASE UNCHANGED tvars
    BY <2>2 DEF tvars, list, sched, history, TypeOK, CursorOK, TidsOK, CreatedOK,
                HoldsMutex, NotSignalled, SweptOK, Known, WokenByOwn,
                StartedMeansReady, DestroyedOK, Alive, Waiting
  <2> QED
    BY <2>1, <2>2
<1> QED
  BY <1>1, <1>2, PTL DEF Spec

(* The handshake of startAllThreads loses no signal: the caller is never   *)
(* asleep on a thread that has signalled already.                          *)
THEOREM SignalIsNotLost == Spec => []NeverWaitsForReadyThread
<1>1. IInv => NeverWaitsForReadyThread
  BY DEF IInv, NotSignalled, NeverWaitsForReadyThread
<1> QED
  BY <1>1, InductiveInvariant, PTL

(* Unless a start has timed out, no entry has two live threads.            *)
THEOREM NoSecondThread == Spec => []OneThreadPerEntry
<1>1. IInv => OneThreadPerEntry
  BY DEF IInv, Known, OneThreadPerEntry, Alive
<1> QED
  BY <1>1, InductiveInvariant, PTL

(* Unless a start has timed out, terminateAllThreads leaves no live thread *)
(* when it returns OK, and the destructor leaves none that a tid names.    *)
THEOREM TerminationIsComplete == Spec => []TerminateLeavesNone
<1>1. IInv => TerminateLeavesNone
  <2> SUFFICES ASSUME IInv PROVE TerminateLeavesNone
    OBVIOUS
  <2>1. ASSUME quiet, ~timedOut PROVE Alive = {}
    <3> SUFFICES ASSUME NEW p \in Alive PROVE FALSE
      OBVIOUS
    <3>1. p \in Pthreads /\ thread[p] \in {"starting", "ready", "cancelled"}
      BY DEF Alive
    <3>2. tid[of[p]] = p /\ (running[of[p]] \/ Waiting)
      BY <2>1, <3>1 DEF IInv, Known
    <3>3. of[p] \in Index
      BY <3>1 DEF IInv, CreatedOK
    <3> QED
      BY <2>1, <3>2, <3>3 DEF IInv, SweptOK
  <2> QED
    BY <2>1 DEF IInv, DestroyedOK, TerminateLeavesNone
<1> QED
  BY <1>1, InductiveInvariant, PTL

(* Unless a wait has ended spuriously or a start has timed out, an entry   *)
(* recorded as running has a thread that has completed its initialisation. *)
THEOREM RunningMeansReady == Spec => []StartedMeansReady
BY InductiveInvariant, PTL DEF IInv

-----------------------------------------------------------------------------
(* ThreadPool: what its workers and clients do.                            *)

WorkerStates == {"ready", "waiting", "running", "exited"}

(* Every variable of the pool has its type.                                *)
PoolTypeOK ==
    /\ terminated \in BOOLEAN
    /\ tasks \in Seq(Tasks)
    /\ worker \in [Workers -> WorkerStates]
    /\ job \in [Workers -> Tasks \cup {None}]
    /\ client \in [Callers -> {"idle", "notify"}]
    /\ closer \in {"idle", "notify", "join", "returned"}
    /\ joined \in 0 .. WorkerCount
    /\ refused \in SUBSET Tasks
    /\ finished \in SUBSET Tasks

(* A worker leaves its loop only when nothing can be queued any more.      *)
ExitedMeansDone ==
    (\E w \in Workers : worker[w] = "exited") => terminated /\ tasks = <<>>

(* A worker holds a task exactly while it runs it.                         *)
JobWhileRunning ==
    \A w \in Workers : job[w] # None <=> worker[w] = "running"

(* The workers joined so far have left their loops, and terminate returns  *)
(* only after it has joined all of them.                                   *)
JoinedHaveExited ==
    /\ \A w \in Workers : w <= joined => worker[w] = "exited"
    /\ closer = "returned" => joined = WorkerCount

(* The inductive invariant.  WorkIsNoticed is not inductive by itself: a   *)
(* notification that finds nobody asleep would be lost on a pool whose     *)
(* workers have all exited, which ExitedMeansDone excludes.                *)
PoolInv ==
    /\ PoolTypeOK
    /\ ExitedMeansDone
    /\ JobWhileRunning
    /\ JoinedHaveExited
    /\ WorkIsNoticed

-----------------------------------------------------------------------------
(* The pool has a worker.                                                  *)
LEMMA FirstWorker == 1 \in Workers
BY ThreadPoolAssumption DEF Workers

(* Every step keeps the types.                                             *)
LEMMA PoolTypeStep == PoolTypeOK /\ JobWhileRunning /\ PNext => PoolTypeOK'
<1> SUFFICES ASSUME PoolTypeOK, JobWhileRunning, PNext PROVE PoolTypeOK'
  OBVIOUS
<1> USE DEF PoolTypeOK, WorkerStates
<1>1. ASSUME NEW w \in Workers, Sleep(w) PROVE PoolTypeOK'
  BY <1>1 DEF Sleep
<1>2. ASSUME NEW w \in Workers, WorkerWakes(w) PROVE PoolTypeOK'
  BY <1>2 DEF WorkerWakes
<1>3. ASSUME NEW w \in Workers, Take(w) PROVE PoolTypeOK'
  BY <1>3 DEF Take
<1>4. ASSUME NEW w \in Workers, Exit(w) PROVE PoolTypeOK'
  BY <1>4 DEF Exit
<1>5. ASSUME NEW w \in Workers, Run(w) PROVE PoolTypeOK'
  BY <1>5, ThreadPoolAssumption DEF Run, JobWhileRunning
<1>6. ASSUME NEW c \in Callers, NEW task \in Tasks, Enqueue(c, task) PROVE PoolTypeOK'
  BY <1>6 DEF Enqueue
<1>7. ASSUME NEW c \in Callers, NEW task \in Tasks, EnqueueRefused(c, task)
      PROVE  PoolTypeOK'
  BY <1>7 DEF EnqueueRefused
<1>8. ASSUME NEW c \in Callers, NotifyOne(c) PROVE PoolTypeOK'
  BY <1>8 DEF NotifyOne, Asleep
<1>9. CASE TerminateFlag
  BY <1>9 DEF TerminateFlag
<1>10. CASE NotifyAll
  BY <1>10 DEF NotifyAll, Asleep
<1>11. CASE JoinWorker
  BY <1>11, ThreadPoolAssumption DEF JoinWorker
<1>12. CASE TerminateReturn
  BY <1>12 DEF TerminateReturn
<1> QED
  BY <1>1, <1>2, <1>3, <1>4, <1>5, <1>6, <1>7, <1>8, <1>9, <1>10, <1>11, <1>12
  DEF PNext, WorkerRuns, Terminate

(* Every step keeps what is known of exited, running and joined workers.   *)
LEMMA WorkerStep ==
    ASSUME PoolTypeOK, ExitedMeansDone, JobWhileRunning, JoinedHaveExited, PNext
    PROVE  ExitedMeansDone' /\ JobWhileRunning' /\ JoinedHaveExited'
<1> DEFINE Goal == ExitedMeansDone' /\ JobWhileRunning' /\ JoinedHaveExited'
<1> USE DEF PoolTypeOK, WorkerStates, ExitedMeansDone, JobWhileRunning, JoinedHaveExited
<1>1. ASSUME NEW w \in Workers, Sleep(w) PROVE Goal
  BY <1>1 DEF Sleep
<1>2. ASSUME NEW w \in Workers, WorkerWakes(w) PROVE Goal
  BY <1>2 DEF WorkerWakes
<1>3. ASSUME NEW w \in Workers, Take(w) PROVE Goal
  <2>1. Head(tasks) \in Tasks
    BY <1>3 DEF Take
  <2> QED
    BY <1>3, <2>1, ThreadPoolAssumption DEF Take
<1>4. ASSUME NEW w \in Workers, Exit(w) PROVE Goal
  BY <1>4 DEF Exit
<1>5. ASSUME NEW w \in Workers, Run(w) PROVE Goal
  BY <1>5 DEF Run
<1>6. ASSUME NEW c \in Callers, NEW task \in Tasks, Enqueue(c, task) PROVE Goal
  BY <1>6 DEF Enqueue
<1>7. ASSUME NEW c \in Callers, NEW task \in Tasks, EnqueueRefused(c, task)
      PROVE  Goal
  BY <1>7 DEF EnqueueRefused
<1>8. ASSUME NEW c \in Callers, NotifyOne(c) PROVE Goal
  BY <1>8 DEF NotifyOne, Asleep
<1>9. CASE TerminateFlag
  BY <1>9 DEF TerminateFlag
<1>10. CASE NotifyAll
  BY <1>10 DEF NotifyAll, Asleep
<1>11. CASE JoinWorker
  BY <1>11, ThreadPoolAssumption DEF JoinWorker, Workers
<1>12. CASE TerminateReturn
  BY <1>12 DEF TerminateReturn
<1> QED
  BY <1>1, <1>2, <1>3, <1>4, <1>5, <1>6, <1>7, <1>8, <1>9, <1>10, <1>11, <1>12
  DEF PNext, WorkerRuns, Terminate

(* Every step keeps queued work noticed.  The interesting one is NotifyOne *)
(* with nobody asleep: as tasks are queued no worker has exited, so every  *)
(* worker is awake, and there is one.                                      *)
LEMMA NoticedStep ==
    ASSUME PoolTypeOK, ExitedMeansDone, WorkIsNoticed, PNext
    PROVE  WorkIsNoticed'
<1> USE DEF PoolTypeOK, WorkerStates, WorkIsNoticed
<1>1. ASSUME NEW w \in Workers, Sleep(w) PROVE WorkIsNoticed'
  BY <1>1 DEF Sleep
<1>2. ASSUME NEW w \in Workers, WorkerWakes(w) PROVE WorkIsNoticed'
  BY <1>2 DEF WorkerWakes
<1>3. ASSUME NEW w \in Workers, Take(w) PROVE WorkIsNoticed'
  BY <1>3 DEF Take
<1>4. ASSUME NEW w \in Workers, Exit(w) PROVE WorkIsNoticed'
  BY <1>4 DEF Exit
<1>5. ASSUME NEW w \in Workers, Run(w) PROVE WorkIsNoticed'
  BY <1>5 DEF Run
<1>6. ASSUME NEW c \in Callers, NEW task \in Tasks, Enqueue(c, task)
      PROVE  WorkIsNoticed'
  BY <1>6 DEF Enqueue
<1>7. ASSUME NEW c \in Callers, NEW task \in Tasks, EnqueueRefused(c, task)
      PROVE  WorkIsNoticed'
  BY <1>7 DEF EnqueueRefused
<1>8. ASSUME NEW c \in Callers, NotifyOne(c) PROVE WorkIsNoticed'
  <2>1. CASE Asleep = {}
    <3>1. tasks # <<>> => worker[1] \in {"ready", "running"}
      BY <2>1, FirstWorker DEF Asleep, ExitedMeansDone
    <3> QED
      BY <1>8, <2>1, <3>1, FirstWorker DEF NotifyOne
  <2>2. CASE Asleep # {}
    BY <1>8, <2>2 DEF NotifyOne, Asleep
  <2> QED
    BY <2>1, <2>2
<1>9. CASE TerminateFlag
  BY <1>9 DEF TerminateFlag
<1>10. CASE NotifyAll
  BY <1>10 DEF NotifyAll, Asleep
<1>11. CASE JoinWorker
  BY <1>11 DEF JoinWorker
<1>12. CASE TerminateReturn
  BY <1>12 DEF TerminateReturn
<1> QED
  BY <1>1, <1>2, <1>3, <1>4, <1>5, <1>6, <1>7, <1>8, <1>9, <1>10, <1>11, <1>12
  DEF PNext, WorkerRuns, Terminate

(* The inductive invariant holds in every reachable state.                 *)
THEOREM PoolInvariant == PSpec => []PoolInv
<1>1. PInit => PoolInv
  <2> SUFFICES ASSUME PInit PROVE PoolInv
    OBVIOUS
  <2>1. PoolTypeOK
    <3>1. tasks \in Seq(Tasks)
      BY DEF PInit
    <3>2. terminated \in BOOLEAN
      BY DEF PInit
    <3>3. joined \in 0 .. WorkerCount
      BY ThreadPoolAssumption DEF PInit
    <3>4. worker \in [Workers -> WorkerStates]
      BY DEF PInit, WorkerStates
    <3>5. job \in [Workers -> Tasks \cup {None}]
      BY DEF PInit
    <3> QED
      BY <3>1, <3>2, <3>3, <3>4, <3>5 DEF PInit, PoolTypeOK
  <2>2. ExitedMeansDone /\ JobWhileRunning /\ WorkIsNoticed
    BY DEF PInit, ExitedMeansDone, JobWhileRunning, WorkIsNoticed
  <2>3. JoinedHaveExited
    BY ThreadPoolAssumption DEF PInit, JoinedHaveExited, Workers
  <2> QED
    BY <2>1, <2>2, <2>3 DEF PoolInv
<1>2. PoolInv /\ [PNext]_pvars => PoolInv'
  <2> SUFFICES ASSUME PoolInv, [PNext]_pvars PROVE PoolInv'
    OBVIOUS
  <2>1. CASE UNCHANGED pvars
    BY <2>1 DEF pvars, PoolInv, PoolTypeOK, ExitedMeansDone, JobWhileRunning,
                JoinedHaveExited, WorkIsNoticed
  <2>2. CASE PNext
    BY <2>2, PoolTypeStep, WorkerStep, NoticedStep DEF PoolInv
  <2> QED
    BY <2>1, <2>2
<1> QED
  BY <1>1, <1>2, PTL DEF PSpec

(* However many workers, callers and tasks there are, and whichever worker *)
(* a notification reaches, queued work is never left to sleeping workers.  *)
THEOREM QueuedWorkIsNoticed == PSpec => []WorkIsNoticed
BY PoolInvariant, PTL DEF PoolInv

(* terminate returns to its caller only after the queue has been emptied   *)
(* and the last task has been run.                                         *)
THEOREM TerminationDrains == PSpec => []TerminateDrains
<1>1. PoolInv => TerminateDrains
  <2> SUFFICES ASSUME PoolInv, closer = "returned" PROVE tasks = <<>> /\ Busy = {}
    BY DEF TerminateDrains
  <2>1. \A w \in Workers : worker[w] = "exited"
    BY ThreadPoolAssumption DEF PoolInv, JoinedHaveExited, Workers
  <2>2. tasks = <<>>
    BY <2>1, FirstWorker DEF PoolInv, ExitedMeansDone
  <2>3. Busy = {}
    BY <2>1 DEF PoolInv, JobWhileRunning, Busy
  <2> QED
    BY <2>2, <2>3
<1> QED
  BY <1>1, PoolInvariant, PTL
==============================================================================
