----------------------------- MODULE ThreadPool ------------------------------
(***************************************************************************)
(* ThreadPool (itcThreadPool.h): workers that sleep on one condition       *)
(* variable, callers that enqueue tasks, and one thread that terminates    *)
(* the pool.  m_tasks and m_isTerminated are only touched under            *)
(* m_taskQueueMutex, so each critical section is one step; the             *)
(* notifications come after the unlock and are steps of their own.  A wait *)
(* may end without a notification.                                         *)
(***************************************************************************)
EXTENDS Naturals, Sequences, SequencesExt

CONSTANTS WorkerCount, Callers, Tasks, None

\* m_workers
Workers == 1 .. WorkerCount

ASSUME ThreadPoolAssumption ==
    /\ WorkerCount \in Nat \ {0}
    /\ None \notin Tasks

VARIABLES
    terminated,  \* m_isTerminated
    tasks,       \* m_tasks
    worker,      \* where each worker is
    job,         \* the task a worker has taken from m_tasks
    client,      \* where each enqueueing thread is
    closer,      \* where the terminating thread is
    joined,      \* how many workers have been joined
    refused,     \* tasks whose enqueue returned an invalid future
    finished     \* tasks that have been run to their end

pvars == <<terminated, tasks, worker, job, client, closer, joined,
           refused, finished>>

Asleep == {w \in Workers : worker[w] = "waiting"}
Busy == {w \in Workers : job[w] # None}
Given == ToSet(tasks) \cup {job[w] : w \in Busy} \cup refused \cup finished

PInit ==
    /\ terminated = FALSE
    /\ tasks = <<>>
    /\ worker = [w \in Workers |-> "ready"]
    /\ job = [w \in Workers |-> None]
    /\ client = [c \in Callers |-> "idle"]
    /\ closer = "idle"
    /\ joined = 0
    /\ refused = {}
    /\ finished = {}

-----------------------------------------------------------------------------
(* Faulty variants of the operations below, for testing the properties.    *)

\* if(m_isTerminated) return, whatever is still queued
ExitAtOnce(w) ==
    /\ worker[w] = "ready"
    /\ terminated
    /\ worker' = [worker EXCEPT ![w] = "exited"]
    /\ UNCHANGED <<terminated, tasks, job, client, closer, joined, refused, finished>>

\* an enqueue that forgets notify_one
EnqueueSilent(c, task) ==
    /\ client[c] = "idle"
    /\ ~terminated
    /\ task \in Tasks \ Given
    /\ tasks' = Append(tasks, task)
    /\ UNCHANGED <<terminated, worker, job, client, closer, joined, refused, finished>>

\* notify_one where terminate needs notify_all
NotifyAllWakesOne ==
    /\ closer = "notify"
    /\ \/ \E w \in Asleep : worker' = [worker EXCEPT ![w] = "ready"]
       \/ Asleep = {} /\ UNCHANGED worker
    /\ closer' = "join"
    /\ UNCHANGED <<terminated, tasks, job, client, joined, refused, finished>>

\* enqueue without the test of m_isTerminated
EnqueueUnchecked(c, task) ==
    /\ client[c] = "idle"
    /\ task \in Tasks \ Given
    /\ tasks' = Append(tasks, task)
    /\ client' = [client EXCEPT ![c] = "notify"]
    /\ UNCHANGED <<terminated, worker, job, closer, joined, refused, finished>>

-----------------------------------------------------------------------------
(* A worker: wait for the predicate under the mutex, then take a task or   *)
(* leave the loop; run the task outside the mutex.                         *)

Sleep(w) ==
    /\ worker[w] = "ready"
    /\ ~terminated /\ tasks = <<>>
    /\ worker' = [worker EXCEPT ![w] = "waiting"]
    /\ UNCHANGED <<terminated, tasks, job, client, closer, joined, refused, finished>>

WorkerWakes(w) ==
    /\ worker[w] = "waiting"
    /\ worker' = [worker EXCEPT ![w] = "ready"]
    /\ UNCHANGED <<terminated, tasks, job, client, closer, joined, refused, finished>>

Take(w) ==
    /\ worker[w] = "ready"
    /\ tasks # <<>>
    /\ job' = [job EXCEPT ![w] = Head(tasks)]
    /\ tasks' = Tail(tasks)
    /\ worker' = [worker EXCEPT ![w] = "running"]
    /\ UNCHANGED <<terminated, client, closer, joined, refused, finished>>

Exit(w) ==
    /\ worker[w] = "ready"
    /\ terminated /\ tasks = <<>>
    /\ worker' = [worker EXCEPT ![w] = "exited"]
    /\ UNCHANGED <<terminated, tasks, job, client, closer, joined, refused, finished>>

Run(w) ==
    /\ worker[w] = "running"
    /\ finished' = finished \cup {job[w]}
    /\ job' = [job EXCEPT ![w] = None]
    /\ worker' = [worker EXCEPT ![w] = "ready"]
    /\ UNCHANGED <<terminated, tasks, client, closer, joined, refused>>

-----------------------------------------------------------------------------
(* enqueue                                                                 *)

Enqueue(c, task) ==
    /\ client[c] = "idle"
    /\ ~terminated
    /\ task \in Tasks \ Given
    /\ tasks' = Append(tasks, task)
    /\ client' = [client EXCEPT ![c] = "notify"]
    /\ UNCHANGED <<terminated, worker, job, closer, joined, refused, finished>>

EnqueueRefused(c, task) ==
    /\ client[c] = "idle"
    /\ terminated
    /\ task \in Tasks \ Given
    /\ refused' = refused \cup {task}
    /\ UNCHANGED <<terminated, tasks, worker, job, client, closer, joined, finished>>

NotifyOne(c) ==
    /\ client[c] = "notify"
    /\ \/ \E w \in Asleep : worker' = [worker EXCEPT ![w] = "ready"]
       \/ Asleep = {} /\ UNCHANGED worker
    /\ client' = [client EXCEPT ![c] = "idle"]
    /\ UNCHANGED <<terminated, tasks, job, closer, joined, refused, finished>>

-----------------------------------------------------------------------------
(* terminate, which the destructor calls: raise the flag, wake everybody,  *)
(* join the workers one after the other.                                   *)

TerminateFlag ==
    /\ closer = "idle"
    /\ terminated' = TRUE
    /\ closer' = "notify"
    /\ UNCHANGED <<tasks, worker, job, client, joined, refused, finished>>

NotifyAll ==
    /\ closer = "notify"
    /\ worker' = [w \in Workers |-> IF w \in Asleep THEN "ready" ELSE worker[w]]
    /\ closer' = "join"
    /\ UNCHANGED <<terminated, tasks, job, client, joined, refused, finished>>

JoinWorker ==
    /\ closer = "join"
    /\ joined < WorkerCount
    /\ worker[joined + 1] = "exited"
    /\ joined' = joined + 1
    /\ UNCHANGED <<terminated, tasks, worker, job, client, closer, refused, finished>>

TerminateReturn ==
    /\ closer = "join"
    /\ joined = WorkerCount
    /\ closer' = "returned"
    /\ UNCHANGED <<terminated, tasks, worker, job, client, joined, refused, finished>>

-----------------------------------------------------------------------------
WorkerRuns(w) == Sleep(w) \/ Take(w) \/ Exit(w) \/ Run(w)

Terminate == NotifyAll \/ JoinWorker \/ TerminateReturn

PNext ==
    \/ \E w \in Workers : WorkerRuns(w) \/ WorkerWakes(w)
    \/ \E c \in Callers : \/ \E task \in Tasks :
                                Enqueue(c, task) \/ EnqueueRefused(c, task)
                          \/ NotifyOne(c)
    \/ TerminateFlag
    \/ Terminate

PSpec == PInit /\ [][PNext]_pvars

(***************************************************************************)
(* A thread that can run does run: workers, an enqueue that still has to   *)
(* notify, and terminate once it has begun.  Tasks return.  Nobody has to  *)
(* enqueue or terminate, and no wakeup is spurious by right.               *)
(***************************************************************************)
Fairness ==
    /\ \A w \in Workers : WF_pvars(WorkerRuns(w))
    /\ \A c \in Callers : WF_pvars(NotifyOne(c))
    /\ WF_pvars(Terminate)

PFairSpec == PSpec /\ Fairness

-----------------------------------------------------------------------------
(* Queued work is never forgotten: as long as a task is queued, a worker   *)
(* is awake or a notification is still to be sent, although notify_one may *)
(* reach a worker that finds the queue already emptied by another.         *)
WorkIsNoticed ==
    tasks # <<>> =>
        \/ \E w \in Workers : worker[w] \in {"ready", "running"}
        \/ \E c \in Callers : client[c] = "notify"

(* When terminate returns, every task whose enqueue was accepted has run:  *)
(* termination drains the queue and loses no accepted future.              *)
TerminateDrains ==
    closer = "returned" => tasks = <<>> /\ Busy = {}

(* Every accepted task is run, whether or not the pool is terminated.      *)
EveryTaskRuns == \A t \in Tasks : t \in ToSet(tasks) ~> t \in finished

(* terminate returns: no worker sleeps through the termination.            *)
TerminateReturns == terminated ~> closer = "returned"
=============================================================================
