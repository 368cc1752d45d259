---------------------------- MODULE ThreadManager ----------------------------
(***************************************************************************)
(* ThreadManager and the SyncObject handshake with the threads it starts   *)
(* (itcThreadManager.cc, itcThreadManagerIf.h, and the first and last      *)
(* steps of the transports' rx threads).  m_threadListMutex serialises the *)
(* callers, so there is one calling thread.  It holds the mutex of an      *)
(* entry's SyncObject while it creates the thread and gives it up in       *)
(* pthread_cond_timedwait; the new thread signals under the same mutex.    *)
(***************************************************************************)
EXTENDS Naturals

CONSTANTS
    Entries,     \* bound: how many threads are added
    Reserve,     \* m_threadList.reserve(8)
    MaxPthreads  \* bound: how many pthreads are created

ASSUME ThreadManagerAssumption ==
    Entries \in Nat /\ Reserve \in Nat \ {0} /\ MaxPthreads \in Nat

VARIABLES
    size,      \* m_threadList.size()
    capacity,  \* m_threadList.capacity()
    running,   \* isRunning of each entry
    tid,       \* tid of each entry, 0 when none was created
    owner,     \* the owner of the entry's SyncObject still exists
    locked,    \* the caller holds the mutex of the entry's SyncObject
    thread,    \* where each pthread is
    of,        \* the entry each pthread was created for, 0 before
    created,   \* how many pthreads have been created
    caller,    \* where the calling thread is
    cursor,    \* its position in m_threadList
    policy,    \* m_policy
    priority,  \* the policy m_selfLimitPrio and m_priority are valid for
    ending,    \* the call is the destructor's
    quiet,     \* terminateAllThreads has returned OK and nothing was started since
    timedOut,  \* some start has ended in INITIALISATION_TIMEOUT
    spurious,  \* some wait has ended without a signal
    leaked     \* a failed pthread_create has left a mutex locked

list == <<size, capacity, running, tid, owner>>
sched == <<policy, priority>>
history == <<quiet, timedOut, spurious, leaked>>
tvars == <<list, locked, thread, of, created, caller, cursor, sched, ending, history>>

Policies == {"SCHED_OTHER", "SCHED_FIFO"}
Index == 1 .. Entries
Pthreads == 1 .. MaxPthreads
Alive == {p \in Pthreads : thread[p] \in {"starting", "ready", "cancelled"}}
Current == cursor <= size

Init ==
    /\ size = 0 /\ capacity = Reserve
    /\ running = [i \in Index |-> FALSE]
    /\ tid = [i \in Index |-> 0]
    /\ owner = [i \in Index |-> TRUE]
    /\ locked = [i \in Index |-> FALSE]
    /\ thread = [p \in Pthreads |-> "none"]
    /\ of = [p \in Pthreads |-> 0]
    /\ created = 0
    /\ caller = "idle" /\ cursor = 1 /\ ending = FALSE
    /\ policy = "SCHED_OTHER" /\ priority = "SCHED_OTHER"
    /\ quiet = FALSE /\ timedOut = FALSE /\ spurious = FALSE /\ leaked = FALSE

-----------------------------------------------------------------------------
(* Faulty variants of the operations below, for testing the properties.    *)

\* the mutex is taken after the thread has been created
StartLockLate ==
    /\ caller = "start" /\ Current
    /\ ~running[cursor] /\ owner[cursor] /\ ~locked[cursor]
    /\ caller' = "create"
    /\ UNCHANGED <<list, locked, thread, of, created, cursor, sched, ending, history>>

\* isRunning is not recorded
StartWokenForgets ==
    /\ caller = "woken"
    /\ cursor' = cursor + 1
    /\ caller' = "start"
    /\ UNCHANGED <<list, locked, thread, of, created, sched, ending, history>>

\* the mutex that the wait has taken again is not released
StartWokenKeepsMutex ==
    /\ caller = "woken"
    /\ running' = [running EXCEPT ![cursor] = TRUE]
    /\ locked' = [locked EXCEPT ![cursor] = TRUE]
    /\ cursor' = cursor + 1
    /\ caller' = "start"
    /\ UNCHANGED <<size, capacity, tid, owner, thread, of, created, sched, ending, history>>

\* pthread_cancel without pthread_join
JoinSkipped ==
    /\ caller = "join"
    /\ running' = [running EXCEPT ![cursor] = FALSE]
    /\ cursor' = cursor + 1
    /\ caller' = "terminate"
    /\ UNCHANGED <<size, capacity, tid, owner, locked, thread, of, created, sched, ending, history>>

\* a timeout is taken for success
StartTimedOutIgnored ==
    /\ caller = "timedout"
    /\ running' = [running EXCEPT ![cursor] = TRUE]
    /\ cursor' = cursor + 1
    /\ caller' = "start"
    /\ UNCHANGED <<size, capacity, tid, owner, locked, thread, of, created, sched, ending, history>>

-----------------------------------------------------------------------------
(* addThread, and the owner of an entry going away.                        *)

AddThread ==
    /\ caller = "idle"
    /\ size < Entries /\ size < capacity
    /\ size' = size + 1
    /\ UNCHANGED <<capacity, running, tid, owner, locked, thread, of, created, caller, cursor, sched, ending, history>>

\* Thread::reset of every element: cancel and join the thread its tid names,
\* joined before or not.  A thread that waits for a mutex nobody unlocks
\* cannot be joined.
ResetAll ==
    /\ \A i \in 1 .. size :
        tid[i] # 0 /\ thread[tid[i]] = "starting" => ~locked[i]
    /\ thread' = [p \in Pthreads |->
                    IF \E i \in 1 .. size : tid[i] = p THEN "joined" ELSE thread[p]]

\* The vector grows: Thread's move constructor resets the old elements, which
\* still have their tid.
AddThreadMoves ==
    /\ caller = "idle"
    /\ size < Entries /\ size = capacity
    /\ size' = size + 1
    /\ capacity' = 2 * capacity
    /\ ResetAll
    /\ UNCHANGED <<running, tid, owner, locked, of, created, caller, cursor, sched, ending, history>>

\* Before its thread is ever started, as in startAllThreadsTest2.
OwnerGoes(i) ==
    /\ caller = "idle"
    /\ owner[i]
    /\ tid[i] = 0
    /\ owner' = [owner EXCEPT ![i] = FALSE]
    /\ UNCHANGED <<size, capacity, running, tid, locked, thread, of, created, caller, cursor, sched, ending, history>>

(* setThreadAttributes, by a thread that does not take m_threadListMutex:  *)
(* the policy is written first, then both priorities.  Attributes that     *)
(* checkSchedulingParams refuses, or that keep the policy, change nothing  *)
(* here.                                                                   *)

SetPolicy ==
    /\ ~ending
    /\ policy = priority
    /\ policy' \in Policies \ {policy}
    /\ UNCHANGED <<list, locked, thread, of, created, caller, cursor, priority, ending, history>>

SetPriorities ==
    /\ policy # priority
    /\ priority' = policy
    /\ UNCHANGED <<list, locked, thread, of, created, caller, cursor, policy, ending, history>>

-----------------------------------------------------------------------------
(* startAllThreads                                                         *)

StartBegin ==
    /\ caller = "idle"
    /\ caller' = "start" /\ cursor' = 1
    /\ quiet' = FALSE
    /\ UNCHANGED <<list, locked, thread, of, created, sched, ending, timedOut, spurious, leaked>>

StartSkip ==
    /\ caller = "start" /\ Current
    /\ running[cursor]
    /\ cursor' = cursor + 1
    /\ UNCHANGED <<list, locked, thread, of, created, caller, sched, ending, history>>

StartOwnerGone ==
    /\ caller = "start" /\ Current
    /\ ~running[cursor] /\ ~owner[cursor]
    /\ caller' = "idle"
    /\ UNCHANGED <<list, locked, thread, of, created, cursor, sched, ending, history>>

StartLock ==
    /\ caller = "start" /\ Current
    /\ ~running[cursor] /\ owner[cursor] /\ ~locked[cursor]
    /\ locked' = [locked EXCEPT ![cursor] = TRUE]
    /\ caller' = "create"
    /\ UNCHANGED <<list, thread, of, created, cursor, sched, ending, history>>

StartCreate ==
    /\ caller = "create"
    /\ policy = priority
    /\ created < MaxPthreads
    /\ created' = created + 1
    /\ thread' = [thread EXCEPT ![created'] = "starting"]
    /\ of' = [of EXCEPT ![created'] = cursor]
    /\ tid' = [tid EXCEPT ![cursor] = created']
    /\ caller' = "wait"
    /\ UNCHANGED <<size, capacity, running, owner, locked, cursor, sched, ending, history>>

\* configureAndStartThread fails, always so when the priority does not suit
\* the policy: break, with the mutex still locked
StartCreateFails ==
    /\ caller = "create"
    /\ leaked' = TRUE
    /\ caller' = "idle"
    /\ UNCHANGED <<list, locked, thread, of, created, cursor, sched, ending, quiet, timedOut, spurious>>

StartSleep ==
    /\ caller = "wait"
    /\ locked' = [locked EXCEPT ![cursor] = FALSE]
    /\ caller' = "asleep"
    /\ UNCHANGED <<list, thread, of, created, cursor, sched, ending, history>>

\* A wait without a predicate: a wakeup without a signal is taken for one.
SpuriousWakeup ==
    /\ caller = "asleep"
    /\ caller' = "woken"
    /\ spurious' = TRUE
    /\ UNCHANGED <<list, locked, thread, of, created, cursor, sched, ending, quiet, timedOut, leaked>>

Timeout ==
    /\ caller = "asleep"
    /\ caller' = "timedout"
    /\ UNCHANGED <<list, locked, thread, of, created, cursor, sched, ending, history>>

StartWoken ==
    /\ caller = "woken"
    /\ running' = [running EXCEPT ![cursor] = TRUE]
    /\ cursor' = cursor + 1
    /\ caller' = "start"
    /\ UNCHANGED <<size, capacity, tid, owner, locked, thread, of, created, sched, ending, history>>

\* The thread lives on, and nothing records that it does.
StartTimedOut ==
    /\ caller = "timedout"
    /\ timedOut' = TRUE
    /\ caller' = "idle"
    /\ UNCHANGED <<list, locked, thread, of, created, cursor, sched, ending, quiet, spurious, leaked>>

StartEnd ==
    /\ caller = "start" /\ ~Current
    /\ caller' = "idle"
    /\ UNCHANGED <<list, locked, thread, of, created, cursor, sched, ending, history>>

-----------------------------------------------------------------------------
(* A started thread: set up, then signal under the SyncObject's mutex, or  *)
(* give up before it; later be cancelled.                                  *)

ThreadReady(p) ==
    /\ thread[p] = "starting"
    /\ ~locked[of[p]]
    /\ thread' = [thread EXCEPT ![p] = "ready"]
    /\ caller' = IF caller = "asleep" /\ of[p] = cursor
                 THEN "woken" ELSE caller
    /\ UNCHANGED <<list, locked, of, created, cursor, sched, ending, history>>

\* The task function returns.
ThreadEnds(p) ==
    /\ thread[p] = "ready"
    /\ thread' = [thread EXCEPT ![p] = "exited"]
    /\ UNCHANGED <<list, locked, of, created, caller, cursor, sched, ending, history>>

ThreadGivesUp(p) ==
    /\ thread[p] = "starting"
    /\ thread' = [thread EXCEPT ![p] = "exited"]
    /\ UNCHANGED <<list, locked, of, created, caller, cursor, sched, ending, history>>

ThreadCancelled(p) ==
    /\ thread[p] = "cancelled"
    /\ thread' = [thread EXCEPT ![p] = "exited"]
    /\ UNCHANGED <<list, locked, of, created, caller, cursor, sched, ending, history>>

-----------------------------------------------------------------------------
(* terminateAllThreads                                                     *)

BackToCaller == caller' = IF ending THEN "reset" ELSE "idle"

TerminateBegin ==
    /\ caller = "idle"
    /\ caller' = "terminate" /\ cursor' = 1
    /\ UNCHANGED <<list, locked, thread, of, created, sched, ending, history>>

TerminateSkip ==
    /\ caller = "terminate" /\ Current
    /\ ~running[cursor]
    /\ cursor' = cursor + 1
    /\ UNCHANGED <<list, locked, thread, of, created, caller, sched, ending, history>>

Cancel ==
    /\ caller = "terminate" /\ Current
    /\ running[cursor]
    /\ thread' = [thread EXCEPT ![tid[cursor]] =
                    IF @ \in {"starting", "ready"} THEN "cancelled" ELSE @]
    /\ caller' = "join"
    /\ UNCHANGED <<list, locked, of, created, cursor, sched, ending, history>>

\* pthread_cancel or pthread_join reports an error for a thread that is gone
TerminateFails ==
    /\ \/ caller = "terminate" /\ Current /\ running[cursor]
          /\ thread[tid[cursor]] \in {"exited", "joined"}
       \/ caller = "join" /\ thread[tid[cursor]] = "joined"
    /\ BackToCaller
    /\ UNCHANGED <<list, locked, thread, of, created, cursor, sched, ending, history>>

Join ==
    /\ caller = "join"
    /\ thread[tid[cursor]] = "exited"
    /\ thread' = [thread EXCEPT ![tid[cursor]] = "joined"]
    /\ running' = [running EXCEPT ![cursor] = FALSE]
    /\ cursor' = cursor + 1
    /\ caller' = "terminate"
    /\ UNCHANGED <<size, capacity, tid, owner, locked, of, created, sched, ending, history>>

TerminateEnd ==
    /\ caller = "terminate" /\ ~Current
    /\ BackToCaller
    /\ quiet' = TRUE
    /\ UNCHANGED <<list, locked, thread, of, created, cursor, sched, ending, timedOut, spurious, leaked>>

(* The destructor: terminateAllThreads, whatever it returns, and reset.     *)

Destruct ==
    /\ caller = "idle"
    /\ caller' = "terminate" /\ cursor' = 1
    /\ ending' = TRUE
    /\ UNCHANGED <<list, locked, thread, of, created, sched, history>>

Reset ==
    /\ caller = "reset"
    /\ ResetAll
    /\ size' = 0
    /\ policy' = "SCHED_OTHER" /\ priority' = "SCHED_OTHER"
    /\ caller' = "destroyed"
    /\ UNCHANGED <<capacity, running, tid, owner, locked, of, created, cursor, ending, history>>

-----------------------------------------------------------------------------
CallerStep ==
    \/ StartSkip
    \/ StartOwnerGone
    \/ StartLock
    \/ StartCreate
    \/ StartCreateFails
    \/ StartSleep
    \/ Timeout
    \/ StartWoken
    \/ StartTimedOut
    \/ StartEnd
    \/ TerminateSkip
    \/ Cancel
    \/ TerminateFails
    \/ Join
    \/ TerminateEnd
    \/ Reset

Next ==
    \/ AddThread
    \/ AddThreadMoves
    \/ \E i \in Index : OwnerGoes(i)
    \/ StartBegin
    \/ TerminateBegin
    \/ Destruct
    \/ SetPolicy
    \/ SetPriorities
    \/ SpuriousWakeup
    \/ CallerStep
    \/ \E p \in Pthreads :
        ThreadReady(p) \/ ThreadEnds(p) \/ ThreadGivesUp(p) \/ ThreadCancelled(p)

Spec == Init /\ [][Next]_tvars

(***************************************************************************)
(* A call that has begun runs on, its wait ends at the latest with the     *)
(* timeout, and a cancelled thread reaches a cancellation point.           *)
(***************************************************************************)
FairSpec ==
    /\ Spec
    /\ WF_tvars(CallerStep)
    /\ \A p \in Pthreads : WF_tvars(ThreadCancelled(p))

-----------------------------------------------------------------------------
(* The handshake loses no signal: the caller never sleeps on a thread that *)
(* has signalled already, because it holds the mutex from before the       *)
(* creation until the wait.                                                *)
NeverWaitsForReadyThread ==
    caller = "asleep" => thread[tid[cursor]] \in {"starting", "exited"}

(* No entry has two live threads, however often the threads are started    *)
(* and terminated, unless a start has timed out before.                    *)
OneThreadPerEntry ==
    ~timedOut => \A p, q \in Alive : of[p] = of[q] => p = q

(* After a successful terminateAllThreads no thread is left, unless a      *)
(* start has timed out before.  After the destructor even a thread whose   *)
(* start has timed out is gone, unless a retry has overwritten its tid.    *)
TerminateLeavesNone ==
    /\ quiet /\ ~timedOut => Alive = {}
    /\ caller = "destroyed" => \A p \in Alive : tid[of[p]] # p

(* startAllThreads, terminateAllThreads and the destructor return, unless  *)
(* a failed pthread_create has left the mutex of a SyncObject locked.      *)
CallsReturn ==
    caller # "idle" ~> caller \in {"idle", "destroyed"} \/ leaked

(* An entry is recorded as running only after its thread has completed its *)
(* initialisation, unless a wait has ended spuriously or a start has timed *)
(* out before: the late signal of the thread that one left behind is then  *)
(* taken for the signal of the next.                                       *)
StartedMeansReady ==
    ~spurious /\ ~timedOut =>
        \A i \in Index : running[i] => thread[tid[i]] # "starting"
=============================================================================
