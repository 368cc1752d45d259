# Verification of itc-platform

itc-platform is a C++ library for inter-thread and inter-process communication.
A *region* is a process; its threads own *mailboxes* and send each other
messages, inside the region through a lock-free queue, between regions over
System V message queues, and (planned by the code, not written) between hosts.
This directory holds TLA+ models of the parts of it that exist in this revision,
the TLC runs that check them and the TLAPS proofs of their safety properties
for every value of the constants.

`PROJECT.json` holds, in machine-readable form, the components, the runs, the
mapping of every definition to source lines, the hazards and the theorems.

## 1. Inventory

| component | state | operations | interacts with | what is hard | what makes it correct |
|---|---|---|---|---|---|
| `LockFreeQueue` (`itcLockFreeQueue.h`) | `m_head`, `m_tail` (`uint32_t`), the slots of `m_queue` | `push`, `tryPush`, `pop`, `tryPop`, `size` and its relatives; an MPMC and an SPSC form | holds the messages of a mailbox and the free entries of a container | every access is a separate relaxed atomic step; tickets are taken before slots; the indexes overflow; `compare_exchange_weak` may fail | no element lost, invented or repeated; `head - tail` counts the elements; every pushed element is popped; FIFO as far as promised |
| index arithmetic (same file) | none | `roundUpToPowerOf2`, `GetIndexShuffleBits`, `remapIndex`, `map` | decides which slot a ticket names | masks, thresholds, overflow | a permutation of the slots that puts neighbours on different cache lines and has no seam at 2^32 |
| `ItcMailbox`, `ItcTransportLocal`, `ItcAdminMessageHelper` | `m_isActive`, the queue, who owns a message | `push`, `pop`, `setState`, `send`, `receive`, `allocate`, `deallocate` | senders in any thread, one owner | `m_isActive` is checked before the push; `setState(false)` drains while senders are in flight; mailboxes are reused | a message is in one place; the drain ends; nothing piles up |
| `ConcurrentContainer` | the free queue, `m_activeEntries` under a mutex | take, name, unname, give back, `size` | the region's mailboxes | the blocking pop lets `m_tail` run past `m_head`; names may be shared | no entry lost or owned twice; no name for a free entry |
| `ThreadPool` | `m_tasks`, `m_isTerminated`, the workers | `enqueue`, `terminate`, the worker loop | callers, one condition variable | notifications outside the mutex, termination races with `enqueue` | accepted tasks run once, `terminate` drains and returns |
| `ThreadManager`, `SyncObject` | `m_threadList`, per thread `tid`, `isRunning`, and a `SyncObject` | `addThread`, `startAllThreads`, `terminateAllThreads` | the rx threads of the transports | a handshake without a predicate, a timeout, a failing creation, a vector that moves running threads | no signal lost, one thread per entry, none left behind |
| `ItcTransportSysvMsgQueue` | `m_contactList`, `m_msgQueueId`, `m_isInitialised`, a kernel queue that outlives the process | `initialise`, `release`, `send`, the rx thread | another process, the kernel, `ThreadManager`, `ItcTransportLocal` | stale identifiers, a shared contact without a lock, crash and restart | at most once, nothing from a former life, senders recover |
| `ItcTransportLSocket`, `FileSystem` | `m_sockFd`, `m_isItcServerRunning`, `m_isLSockPathCreated`; directories on the disk | `locateItcServer`, `initialise`, `release`; `exists`, `createPath`, `removePath` | `itc-server`, the host's file system, which all regions share | early returns after `socket()`, a folder another region removes, a server that dies before it answers | no descriptor lost on success, flags that are true, calls that return |
| `ItcPlatform` (`itc-api`) | `m_mboxList`, each thread's `m_myMailbox` and its value of `m_destructKey` | `initialise` (with `checkAndStartItcServer`, `startDaemon`), `createMailbox`, `deleteMailbox`, the deletion at thread exit, `send`, `receive`, `locateMailbox*`, `release` | everything above, `itc-server` | several transports, one of which fails; two regions that start at once; an entry is given back before `itc-server` hears of it; a key value that outlives its mailbox | success means that everything is ready; a thread's mailbox is its own; the server's directory follows the list |
| `MemoryManager` (`itcMemoryManager.h`) | the attributes of each allocation; kernel objects and names that outlive processes | `allocate`, `append`, `deallocate` in four modes, two classes around the same calls | other processes, the kernel | create-or-open in two calls, `ftruncate` by everyone, failures half-way, death of the owner | mapped pages stay backed unless a call makes the object smaller; a name is taken away only by its creator, who can give the object back |
| `CWrapper`, `itcMutex`, wire formats, `itc-server` | | | | | forwards to libc; declarations; empty files |

## 2. Modules

    Channel            abstract: a bounded channel without order
    FifoChannel        abstract: a bounded FIFO
    LockFreeQueue      the MPMC ring                      refines Channel (proved)
    QueueOrder         LockFreeQueue with history variables: order and delivery
    SpscQueue          extends LockFreeQueue: its SPSC form, refines FifoChannel
                       (proved)
    RingIndex          the index arithmetic
    Mailbox            extends LockFreeQueue: mailbox, local transport, messages
    MailboxTest        extends Mailbox: the scenario of the mailbox's test4
    Container          extends LockFreeQueue: container of entries
    ThreadPool
    ThreadManager      with SyncObject and the life of the started threads
    SysvTransport      senders, kernel queue, receiving process
    RegionSetup        composes ItcPlatform::initialise, LSocket, FileSystem, the
                       set-up of the Sysv transport and of SyncObject, of two
                       regions on one host with an itc-server
    Platform           the mailbox operations of ItcPlatform, their threads and
                       itc-server's directory
    SharedMemory       MemoryAllocator and the shared memory classes, processes
                       and kernel objects
    MC*                constants for TLC
    *_proofs           theorems about LockFreeQueue (with QueueOrder and
                       SpscQueue), Mailbox, Container, SysvTransport,
                       RegionSetup, Platform and SharedMemory;
                       Threads_proofs about ThreadPool and ThreadManager

`Mailbox` and `Container` are compositions: their steps conjoin the actions of
`LockFreeQueue`, so the interleavings of the ring happen inside theirs.
`MailboxTest` drives the actions of `Mailbox` as the test drives the class.

The operators headed "Faulty variants" in each module are wrong versions of one
operation each (a dropped guard, a store for a compare-exchange, a forgotten
notification). They take no part in the specifications; substituted for the
right operation they must make TLC report the property named in `PROJECT.json`.

### LockFreeQueue

`head`, `tail`, `slot` are `m_head`, `m_tail`, `m_queue`; `pc`, `ticket`, `held`
are the place, the local index and the argument of each thread's operation;
`outside` are the elements the callers own. Every atomic access is one action:
`PushReserve` is the `fetch_add` of `push`, `PushStore` the successful
`compare_exchange` from `NIL` in `doPushAtomic`, and so on. The spinning loads
change nothing and are the stuttering of a thread whose next action is not yet
enabled. A weak compare-exchange that fails, for a reason or spuriously, is
`TryPushRetry` / `TryPopRetry`. `size` is two loads in either order, because the
expression `m_head.load() - m_tail.load()` orders nothing.

Indexes are numbers modulo `Wrap` and compared by `SignedDiff`, which is
`static_cast<int32_t>` of the difference. A behaviour begins at index `Start`, so
that a run can place the overflow at its first step; a queue reaches every index
by pushing and popping.

`SpscQueue` is the `IS_SPSC` branch: the same indexes, slots and local variables, but
loads and stores are separate steps on both sides; `seen` is the element that a
consumer's load of a slot has returned. `Contents`, the stored elements from the oldest ticket not
delivered to the oldest not stored, is what refines the FIFO. `RingIndex` uses the bit operations of the code on 8-bit indexes.

### Mailbox

`active` is `m_isActive`, `stage` the mailbox operation of each thread, `arg` a
message between the check of `m_isActive` and the push; `freed`, `inbox` and
`leaked` follow the memory. `Owner` is the one thread that receives,
activates and deactivates. The drain of `setState(false)` is modelled
call by call: `empty()` (two loads), `tryPop` (its own steps), `deallocate`. The
result of `push` is ignored by `ItcTransportLocal::send`, so a refused message is
reported as sent and goes to `leaked`. The endpoint test in `deallocate` is
abstracted to success.

### Container

Every thread is producer and consumer of the free queue, and calls the
operations in the order of the container's test: take, name, unname, give back.
`tryPopFromQueue` is a blocking `pop` in the code and in the model. Two threads may
use one name; `addEntryToHashMap` then refuses the second and
`removeEntryFromHashMap` erases whatever the name leads to. `MaxTickets` bounds a
behaviour to fewer tickets than half the index range. Beyond that the code's own
arithmetic stops being meaningful: a `tryPush` stalled while 2^31 entries are
taken sees a difference of the wrong sign.

### ThreadPool, ThreadManager

In `ThreadPool` each critical section of `m_taskQueueMutex` is one step and each
notification one of its own; waits wake up spuriously.

In `ThreadManager` the callers of `addThread`, `startAllThreads`,
`terminateAllThreads` and the destructor are serialised by `m_threadListMutex`, so
there is one. `setThreadAttributes` does not take that mutex: its writes (`SetPolicy`, then
`SetPriorities`) happen between any two steps, and a start that meets a policy with the
priorities of another fails to create its thread. Priorities are abstracted to the
policy they are valid for. `locked` says that the caller holds an entry's `SyncObject` mutex. The model
contains what the code does when things go wrong: a timeout leaves the thread
alive and unrecorded, a failed `pthread_create` leaves the mutex locked, a
growing vector cancels and joins threads whose entries still say that they run, a
signal is not checked against a predicate. The properties therefore say "unless a
start has timed out" or "unless a creation has failed" where the code promises
no more; the history variables `timedOut`, `spurious`, `leaked` record that. The
destructor goes on to `reset` whatever `terminateAllThreads` returned, and `Thread::reset`
cancels and joins every thread an entry still names.

### SysvTransport

One receiving region and the sending threads of one other. The kernel
(`msgget`, `msgsnd`, `msgrcv`, `msgctl`) is external and modelled by what the code
relies on: a queue has an identifier that is never reused, belongs to a key,
survives a crash, and `msgsnd` on a removed one fails. `contact` is the entry of
`m_contactList` all the senders share; its two fields are written as one.
`RxCrash` ends the process at any point and keeps the queue; `RxExit` ends the
thread with its destructor, which removes it. `m_maxMsgSize` starts with a value the
tests give it, 0 meaning that `getMaxMessageSize` asks the kernel: its initial value of
`SIZE_MAX` makes the allocation of the rx buffer throw, and the process then ends as in
`RxCrash`. A message that `msgsnd` accepts but the rx buffer does not hold (`Fits`) stays
at the head of the queue for ever, and one of at most 12 bytes is dropped as too
small; the run has the second kind, not the first.

Without a receiver `send` never returns: its loop is left on failure only when the
contact's `regionId` is 0, but a removed contact has `ITC_MAILBOX_ID_DEFAULT`. In the model
this is a cycle of `MsgsndInvalid`, `removeContactInfoAtIndex`, `getMsgQueueId` and
`addContactInfoAtIndex`; `SendRecovers` speaks of senders whose receiver comes back.

### RegionSetup

`region[r]` holds what the platform and the transports of one process remember,
`open[r]` its open descriptors; `disk` is the part of the file system all regions
share, `lsock` the region sockets with a listener, `server` the `itc-server`. A call
of `initialise` goes through its labels in the order of the code: look for the
server's socket file, fork the daemon, locate it, then the transports. Each
early return is an action or a disjunct: `SocketLost` is a `connect` that fails with
the socket left open, `LocateFails` a short, interrupted or missing answer, `AckMissing` a
server that closed. `SysvBegin` is the early return of a transport that is
initialised already; `startAllThreads` is summarised by the outcomes it can have:
an entry whose `SyncObject` is gone stops it (`Reached`), the new thread signals, or the wait
times out (`StartTimesOut`); its steps are the subject of `ThreadManager`. `rx` is the rx thread
that a later `destructRxThread` belongs to. `itc-server` is external:
it comes up, opens region sockets, answers or dies.

`ItcPlatform::m_isInitialised` is never set. So `initialise` never takes its shortcut, and
`release` returns at once; the transports' `release` functions are called here by the
user. What follows from the code and is visible in the model: a region that
finds a server running gives up (`ServerExists`), two regions that look at the same
time both start one, an `initialise` that failed after the Sysv transport
was ready cannot be repeated with success (released or not: the thread entry of
its former `SyncObject` stops `startAllThreads`), and on a host without the file of the message
queues `initialise` fails, because `createPath` creates no files. When `removePath` fails,
`release` has forgotten the socket and cannot be repeated. And `m_isRxThreadTerminated`, set by `release`,
is never reset: a second `initialise` reports `ITC_OK`, but the new rx thread, having signalled,
leaves its loop at once, removes its queue and clears `m_isInitialised` (`RxThreadEnds`).
`OkMeansReady` therefore ties `m_isInitialised` to the presence of the thread, and asks for both only
as long as no release, and no thread that failed, has set the flag.

### Platform

`listed`, `name` and `id` are the entries of `m_mboxList`, `my` and `key` each thread's `m_myMailbox` and
its value of `m_destructKey`, `toServer` and `directory` the queue and the knowledge of
`itc-server`. `m_isInitialised` is taken as set (only the tests can set it): the model is about the
code behind it. The operations call `emplace`, `remove`, `exist` and `clear` of a former
`ConcurrentContainer`; these are external and atomic, and `remove` leaves the bytes of
the entry, which the code goes on to read. `createMailbox` is four steps (take an
entry, which has the default id until the second step writes its own; set the key; notify),
`deleteMailbox` two (give the entry back, notify), `release` three. What the code does wrong is in the model: `CreateFails` leaves the entry and
`m_myMailbox`, so the next call returns the id it refused (history variable `refused`);
`deleteMailbox` does not clear the key, so the destructor at thread exit reads an entry
that may belong to another thread and then dereferences a null `m_myMailbox`
(`ExitCrashes`); `deleteMailbox` reads the id for its notification from the entry it has given back, and
when another thread is just taking that entry announces the deletion of the default id, so that
`itc-server` keeps the mailbox (history variable `misread`); `locateMailboxAsync` frees what it has sent and a failed forward frees what
the caller will free (`crashed`); `release` clears the list under the feet of a thread that has
just created a mailbox (`life`). `locateMailboxSync` never looks anywhere: `ITC_MASK_LOCATE` is
`0x1110` where the modes are `0b0010` to `0b1000`.

### SharedMemory

`named`, `pages`, `creator` are the kernel's: the object a name (or key) leads to, the size of
each object, who made it. `attrs` is `Mode3Attributes` / `Mode4Attributes` of each process, an address being the
mapping it was meant for; `maps` are its mappings. `api` is chosen once: the allocator in mode 3, mode 4
or a private mode (1 and 2), or one of the two classes. Creating, opening,
truncating and mapping are separate steps, so processes interleave between
them; each may fail as the code handles it, and a process may die at any point
(`Die`). A failing `mmap` is recorded like a successful one, because the code does not
look. Size is counted in pages, and `fchmod` is part of the `ftruncate` step, whose failure has the same
consequences. Mappings of the same pages by one process count as one; of the descriptors only
whether the recorded one is closed (`closed`) matters to what follows.

Every call asks for a size of its own (`Sizes`), and a process may allocate again what it has
allocated. What the code does then is in the model, and the properties name it as their exceptions:

* `allocate` truncates the object to the size of this call, also when it only opens it, and `append`
  counts from the size this process has asked for. Either can cut off pages that others have
  mapped (`cut`); `PagesAreBacked` says that nothing else does.
* A creator that allocates a second time, which in mode 4 `append` does, becomes one that has only
  opened the object, and `deallocate` does nothing for it (`reopened`). Identifier 0 of a System V segment, with
  which a behaviour may or may not begin, counts as none. `CreatorCanGiveBack` says that
  nothing else makes a living creator lose its object.
* After a failed `append` the name has been unlinked and will be once more (`hurt`).
  `NameTakenByCreator` holds until then.

## 3. Runs

| run | bounds | what it shows |
|---|---|---|
| `queue` | 2 producers, 1 consumer, 4 elements sent once, 2 slots, 4-bit indexes that overflow | types, conservation, index balance, no element missed, FIFO as long as at most `m_size` elements were under way, refinement of `Channel`, every element with a ticket is received |
| `ring_index` | 8-bit indexes, 6 requested sizes, 4 line sizes, a whole period | distinct slots per lap, no seam at the overflow |
| `spsc` | 3 elements, 2 slots, 3-bit indexes from 7 | refinement of `FifoChannel`, a push completes |
| `mailbox` | 2 senders, 3 messages, 2 slots, repeated reuse | exclusive ownership, bounded remainder after deactivation, drain and non-blocking receive and caught sends end |
| `mailbox_stranded` | 2 senders with 2 messages each, the receiver stops after 1 | **violation**: a deactivated mailbox is not empty (the finding) |
| `container` | 3 threads, 2 entries, 2 names, 9 takings | every entry free or with one owner, names only for owned entries |
| `thread_pool` | 2 workers, 2 callers, 3 tasks | no lost wakeup, accepted tasks run, termination drains and returns |
| `thread_manager` | 2 entries, reserve 1, 4 pthreads, 2 policies | no lost signal, one thread per entry, none left by a termination or the destructor, calls return |
| `sysv` | 2 senders, 3 messages, queue of 1, 2 lives | at most once, nothing from a former life, stale senders recover |
| `region_setup` | 2 regions, 2 and 1 calls of `initialise`, 2 descriptors each, 1 death of the server | a reported success is one, unless a release came before, a first start loses no descriptor, a stale folder flag is another region's doing, every call returns |
| `platform` | 2 threads and 2 entries, one thread also sends and receives, a server queue of 1 | a thread's mailbox is its own, the directory follows the list but for misread deletions, an exited thread leaves no mailbox |
| `shared_memory` | 2 processes that ask for 1 and 2 pages, 2 kernel objects (3 if identifier 0 is one), 5 interfaces | pages stay backed unless cut, a name is taken only by its creator, who can give the object back |

Why the bounds are enough for the cases that matter. Two slots and three
elements are the least with which a push laps the ring, finds its slot taken and
waits; two producers are the least that compete for a ticket; three threads on
two entries make a pop wait while two others take and release, so that `m_tail`
passes `m_head`. `Start` is the last or one of the last indexes, so that both
indexes overflow early in every behaviour, at different moments. In `ThreadManager` a reserve of 1 makes
the vector grow at the second `addThread`. Two lives are one crash and one
recovery; a kernel queue of one message makes `msgsnd` block. In `region_setup` two
descriptors are just what a successful start needs, so that one lost descriptor shows;
the second call of one region meets whatever its first call, its releases, the
other region and the death of the server have left. The disk holds the folder and
the file of an earlier run: that the file may be missing adds nothing, for `SysvFails` is always
possible, and the folder goes and comes with releases and starts. In `platform` two threads are the least with which an entry
changes hands between a deletion and its notification. The queue of `itc-server` holds one message:
those of two threads concern different names, and one thread's own come in their order anyway; the
theorems hold for any capacity. In `shared_memory`
a second object lets a name be created, taken away and created again while a mapping of
the first survives, and two processes with different requests are a creator and one that cuts, or
extends, what it has opened. That one process changes its own request is left to the theorems.
System V identifiers begin at 0, which the code treats specially, or at 1. Deadlock is checked
where something can always happen (`container`, `ring_index`, `spsc`);
elsewhere the system may come to rest (all messages leaked, all tasks done).

Symmetry is used in `container` and `platform`, whose properties are invariants and treat
threads, or entries, alike.

### Fairness

Weak fairness of the steps of a thread that is inside an operation: the operating
system runs it, and the code's loops do not stop by themselves. Nobody has to
begin an operation, terminate, crash or restart. Beyond that,

* strong fairness of a successful `compare_exchange_weak` of `tryPop`: it may
  fail spuriously, but not for ever;
* strong fairness of a successful `msgsnd`: two senders that renew the shared
  contact in perfect lock step undo each other's renewal, which weak fairness
  admits for ever. `SendRecovers` holds because no preemptive scheduler keeps them in
  that step; without the assumption it does not hold, and this is a listed hazard;
* in `RegionSetup`, weak fairness of a region's steps includes the end of its `recv`:
  the server answers or dies. A server that lives and stays silent would block
  the caller, for the code sets no timeout;
* in `ThreadManager`, weak fairness of the cancellation of a thread: the rx threads
  block in `msgrcv`, a cancellation point; the timeout ends a wait.

### Finding

`mailbox_stranded`: `ItcMailbox::push` reads `m_isActive` and pushes later. A
sender that read `true` before `setState(false)` pushes after the drain has
ended; the message stays and is received by the mailbox's next user. The test's
scenario is modelled as it stands (senders push until one push is refused, the receiver
stops after some messages, deactivates, joins), and its last assertion, that the
queue is empty, is violated. `StrandedBound` is what does hold: at most one message
for each sender.

## 4. Proofs

Every theorem holds for all values of the constants that satisfy the assumptions
stated in the component's module; those are typing facts (a set without `None`, a number
that is not 0) except where noted. Each proof has the same shape: an inductive invariant `IInv`,
one lemma per part of it with one step per action, and the theorem by temporal logic.
Each `IInv` was first checked by TLC on the instance of the component's run.

| module | theorem | property |
|---|---|---|
| `LockFreeQueue_proofs` | `TypeCorrect` | `TypeOK` |
| | `ConservationHolds` | `Conservation` |
| | `ChannelRefinement` | `ImplementsChannel` |
| | `IndexesBalance` | `IndexBalance` |
| | `NothingMissed` | `NoElementMissed` |
| | `DeliveredInTicketOrder` | `FifoWithinCapacity`, for one consumer |
| | `WatchedQueueIsQueue` | `QueueOrder`'s queue takes steps of the queue only |
| | `SpscImplementsFifo` | `ImplementsFifo`, for one producer and one consumer |
| `Container_proofs` | `EntriesInOnePlace` | `EntryInOnePlace` |
| | `NamesLeadToOwned` | `NamedEntriesOwned` |
| | `GiveBackNeverRefused` | `tryPush` never finds the free queue full |
| `Mailbox_proofs` | `MessagesHaveOneOwner` | `OwnershipExclusive` |
| | `StrandedIsBounded` | `StrandedBound` |
| | `DrainFindsMessage` | the drain's `tryPop` never fails |
| `Threads_proofs` | `QueuedWorkIsNoticed` | `WorkIsNoticed` |
| | `TerminationDrains` | `TerminateDrains` |
| | `SignalIsNotLost` | `NeverWaitsForReadyThread` |
| | `NoSecondThread` | `OneThreadPerEntry` |
| | `TerminationIsComplete` | `TerminateLeavesNone` |
| | `RunningMeansReady` | `StartedMeansReady` |
| `SysvTransport_proofs` | `NeverSentTwice` | `SentAtMostOnce` |
| | `OnlyThisLife` | `NothingFromFormerLife` |
| | `FreedWasSent` | what `send` freed was sent |
| `RegionSetup_proofs` | `OkIsReady` | `OkMeansReady` |
| | `FirstStartLeaksNothing` | `FirstStartIsClean` |
| | `OthersMakeStale` | `StaleOnlyThroughOthers` |
| `Platform_proofs` | `MailboxStaysMine` | `MineIsMine` |
| | `ExitLeavesNothing` | `NothingLeftBehind` |
| | `DirectoryAgrees` | `DirectoryMatches` |
| `SharedMemory_proofs` | `MappedPagesAreBacked` | `PagesAreBacked` |
| | `CreatorsCanGiveBack` | `CreatorCanGiveBack` |
| | `NamesTakenByCreators` | `NameTakenByCreator` (an action property) |

### The queue

`Conservation` (every element is with the callers, in one hand or in one slot, and
in one of these only) is not inductive by itself. `TryPushFull` hands `held[t]` back
to the callers and `PushStore` puts it into a slot: the step preserves
conservation only if `held[t]` is an element, and taking a new element must not
overwrite one in hand. Hence `IInv == TypeOK /\ HeldWhilePushing /\ Conservation`, where
`HeldWhilePushing` ties the hand to the program counter. For the refinement,
`StoreContent` and `TakeContent` compute the new content, and `RoomInContent` shows that while
a slot is `NIL` the content is smaller than `Size`, the guard of the channel's `Accept`.
This much needs only `QueueAssumption` (`NIL` is no element, `Size` and `Wrap` are positive,
`Start` is an index, `Remap` maps slots to slots).

That elements *arrive* needs more. `IndexBalance` and `NoElementMissed` rest on

* `WidthAssumption`: `Size` and the number of producers together, and the number of consumers,
  fit in half of the index range. Without it `static_cast<int32_t>` changes the sign, and
  `IndexBalance` is false; with 32-bit indexes it is 2^31 threads and slots;
* `RingAssumption`: `Size` divides `Wrap` and `Remap` is injective. The queue sizes are
  powers of 2, and `LapUsesDistinctSlots` of the run `ring_index` checks that the code's
  index permutation has these properties.

The inductive invariant is `BInv == Roles /\ IndexBalance /\ SlotBalance`. `SlotBalance` says of every
slot what `IndexBalance` says of the ring: the element in it and the pushes at work on
it, less the pops at work on it, are as many as the turns that the indexes between
`tail` and `head` give to that slot. The number of turns (`Turns`) is a quotient, so the
argument is arithmetic: moving an index by one, over the border of its range or not,
gives one turn to the slot it names and none to the others (`TurnsStep`). Of the sixteen actions only four matter, the two
that claim a ticket and the two that use it up (`TicketStep`). `NoElementMissed` follows: with no
push at work and `head` not past `tail`, a slot that is full has a number of turns that is not
positive, so some pop is at work on it.

`FifoWithinCapacity` is about the history that `QueueOrder` keeps. `OInv` says that the k-th element that got a
ticket got ticket `Start + k - 1` modulo `Wrap` (`OIndexes`), and, while `exceeded` is false, that every full
slot and every push at work has the element of its own ticket, a ticket after those
delivered (`OUnderWay`). So the slot that the consumer looks at holds the element of the consumer's
ticket or one whole laps later, and the latter means more than `Size` under way (`TicketSlots`). That
no push still has the ticket just served is conservation: its element would be in two
places. The theorem assumes one consumer (`OneReceiver`); with two, each takes its
element in its own time, and the property does not hold. `WatchedQueueIsQueue` carries the theorems about `Spec` over to
the specification of the run `queue`.

`SpscImplementsFifo` assumes one producer and one consumer (`OneEach`), which is what the form is for. `SInv`
says that an index a side has loaded is still the one in memory when the side stores
it (`STickets`), that what a load of a slot has returned is still there at the store that
relies on it (`SSeen`), and that the full slots are the first `Length` ones from the oldest ticket
not delivered (`SRing`). `StoreHead` and `StoreTail` move `m_head` and `m_tail` and leave both ends of the content where
they are; `StoreElement` appends (`StoreInWindow`) and `StoreNil` takes the head (`TakeFromWindow`), at any place of
the ring and over the border of the index range.

### The mailbox

`Mailbox_proofs` extends the proofs of the queue: a step of the mailbox is a step of the
queue or leaves it alone (`TwoKinds`, `AroundIsRoleStep`), so `IInv` and `BInv` hold in it. On
top of them, `MInv` ties the stages of the callers to the program counters of the queue (`SenderOK`,
`OwnerOK`), splits the queue's `outside` into the states of the memory (`Apart`), and says what the
loads of `empty()` mean (`DrainOK`).

`StrandedBound` is the deep one. The drain ends when `empty()` has read equal indexes, in either order, at
different moments. `Coming` counts what the queue holds and what senders that have seen the
mailbox active will still push; after the deactivation it does not grow, since
nobody else sets out. A `head` that was read first is too small by at most the
senders who have taken a ticket since, and `tail` stays, because the owner is the only
consumer. So when the loads agree, at most one message for each sender is left.
`DrainFindsMessage` is the converse: `empty()` said false, so the following `tryPop` finds an
element, and the model rightly has no step for its failure.

### The container

`Container_proofs` uses the queue's invariants in the same way. `CInv` adds where each thread's entry is at each
stage (`StageOK`), that an entry out of the free queue has one owner (`OneOwner`), and `HeadAhead`. An entry
would be lost if `tryPush` found the queue full, since nobody looks at its result. The
`m_head` it compares may be old and `m_tail` may have passed it, so the comparison
is not about one moment. `HeadAhead` bounds it from both sides: an `m_head` loaded earlier is
not ahead of the present one, and it is at least `Size - Taken` ahead of `m_tail`, where
`Taken`, the number of entries taken so far, is at most `MaxTickets`; so the signed difference does not
change its sign. `RoomForEntry` bounds the present distance: by the balance it is at most
the entries in slots and in the hands of pushes, and these are others than the one being given
back, of `Size` in all. `ContainerAssumption` therefore asks for `MaxTickets + Size` in half of the index range,
and for as many entries as slots, which is how the constructor fills the queue.

### The other components

* **ThreadPool**: `TypeOK`, `ExitedMeansDone`, `JobWhileRunning`, `JoinedHaveExited`, `WorkIsNoticed`. A
  notification that finds nobody asleep is lost; this does no harm because a worker leaves its loop only
  after termination with nothing queued, which `ExitedMeansDone` records.
* **ThreadManager**: `TypeOK`, `CursorOK`, `TidsOK`, `CreatedOK`, `HoldsMutex`, `NotSignalled`, `SweptOK`,
  `Known`, `WokenByOwn`, `StartedMeansReady`, `DestroyedOK`. No signal is lost because the mutex is held
  from before `pthread_create` to the wait (`HoldsMutex`, `NotSignalled`). One thread per entry needs
  `Known`: an entry not recorded as running has no live thread, unless a start timed
  out. A complete termination needs what the loop has swept so far (`SweptOK`).
* **SysvTransport**: `TypeOK`, `OwnMessage`, `SeenIsDone`, `QueuedOnce`, `DeliveredOnce`,
  `QueuedOrDelivered`, `QueueOK`, `QueuedInThisLife`, `NothingFromFormerLife`, `DoneMeansSent`. A
  retry repeats nothing because what a queue has held is done with, and a sender
  works on a message that is not. A former life's messages are not read because a
  receiver serves only a queue that it has emptied or created.
* **RegionSetup**: `TypeOK`, for every region `StateOK` (`KnownAreOpen`, `StageOK`, `FirstCallOK`), and
  `StaleOnlyThroughOthers`. `StageOK` says what has been achieved at each label of `initialise`,
  `FirstCallOK` which descriptors are open at each label of a first call. The number of regions,
  calls, descriptors and deaths of the server is arbitrary. That the transport is initialised exactly as long
  as its rx thread is there holds because both are set and taken away by the same steps.
* **Platform**: `TypeOK`, `MineIsMine`, `ListedIsMine`, `IdWritten`, `RefusedAreListed`, `KeyKept`, `NothingLeftBehind`,
  `AddsUp`. `DirectoryMatches` speaks of quiet moments. `AddsUp` is its form for all moments:
  what the server will know once it has read its queue is what has been announced,
  save a mailbox whose deletion is about to be notified or was announced under the default id.
* **SharedMemory**: `TypeOK`, `ControlOK`, `Fresh`, `Backed`, `OwnersCreated`, `OwnersNamed`,
  `WorksOnItsOwn`, `CreatorCanGiveBack`. `Backed` carries the size of an object through the steps
  between `ftruncate` and `mmap`: a change of size keeps every page, or cuts the object (`ResizeKeeps`).
  The other four tie `isOwner` to the kernel's creator, through
  names that are taken away and created again. The sizes of the calls are arbitrary.

### Model-checked only

* Liveness: outside the logic of the prover's backends. These are the leads-to and
  fairness properties of the runs.
* `LapUsesDistinctSlots` and `NoSeamAtOverflow` of `RingIndex`: they are about the code's bit
  operations, which the prover cannot reason about. The theorems take what they need of them as
  `RingAssumption`.
* `EmptyAfterDeactivation` of `mailbox_stranded`, which does not hold.

## 5. What is not modelled

* Memory orders: the models are sequentially consistent. The queue uses relaxed
  and acquire/release accesses; what weaker orders could add is out of scope.
* `ItcPlatform`: the getters, which only read, and what follows line 330 of
  `locateMailboxSync`, which the mask makes unreachable. The container under its mailbox
  operations is one the repository no longer has, so they are not composed with
  `Container` and `Mailbox`.
* `FileSystem::isAccessible`, which only reads and has no caller; a failing `IPC_INFO`.
* `MemoryPool`, which does not compile (a `void` `deallocate` returns pointers), never
  sets `m_mode` and computes addresses outside its region; `ThreadSharedMemory`, whose own
  `m_size` of 0 hides the one its constructor sets.
* What keeps the rest of `itcMemoryManager.h` from being used as it stands, and nothing uses it:
  `POSIXSharedMemory` and `ThreadSharedMemory` are abstract, since they do not override
  `SharedMemoryIf::append`, and `MemoryAllocatorParams` has a union with `std::string` in its members, which
  has no constructor. `SharedMemory` models the functions as they are written.
* The queue without `MINIMIZE_CONTENTION` (`itcLockFreeQueue.h:107`, `397`), where `m_size` is not rounded up and
  indexes are not permuted: every queue of the repository uses it.
* A failing `ftok` of a sender, which `getMsgQueueId` of the model does not tell from a missing queue: both
  return -1.
* `itc-server`: empty files. `CWrapper`, `itcMutex`: forwards to libc, contained in the
  actions that call them.
* Copying and moving queues and mailboxes, which the code calls not thread-safe.
* `lookUpFromHashMap`: no caller, and its inverted condition makes it undefined.
* A second `ThreadPool::terminate`, which joins threads that cannot be joined.

## 6. Plan

Done in this order: the queue and its proof, its order and delivery, the index
arithmetic, the SPSC form, the mailbox, the container, the thread pool, the
thread manager, the System V transport, the start of regions, the platform's mailbox
operations, shared memory, the mailbox test; then the proofs of the thread pool, shared memory,
the platform, the thread manager, the System V transport, the start of regions,
the balance of the queue's indexes, the mailbox, the container, the order of delivery and the
SPSC form. No component with code of its own is left out, and every safety property of the runs
is proved except the two about bit operations. What could follow: the queue under weaker memory
orders, for which the actions would have to be split further.
