---------------------------- MODULE SharedMemory ----------------------------
(***************************************************************************)
(* Shared memory between processes (itcMemoryManager.h): the allocator in  *)
(* its POSIX (mode 3), System V (mode 4) and private (modes 1 and 2)       *)
(* forms, and the classes that wrap the same calls.  All processes use one *)
(* name, through one of the five interfaces.  The kernel's objects outlive *)
(* processes and names.                                                    *)
(*                                                                         *)
(* fchmod changes nothing the model sees; its failure and that of          *)
(* ftruncate have the same consequences.  Sizes are counted in pages, and  *)
(* every call may ask for another one.                                     *)
(***************************************************************************)
EXTENDS Naturals, FiniteSets

CONSTANTS
    Procs,     \* processes
    None,      \* no object, no process, a null pointer
    MaxId,     \* the largest identifier of a kernel object (a bound)
    Sizes      \* the numbers of pages the calls of each process may ask for

ASSUME MemoryAssumption ==
    /\ MaxId \in Nat \ {0} /\ Sizes \in [Procs -> SUBSET (Nat \ {0})]
    /\ None \notin Procs \cup Nat

Allocators == {"posix", "sysv"}
Classes == {"POSIXSharedMemory", "SYSVSharedMemory"}
Posix == {"posix", "POSIXSharedMemory"}

\* new[] and anonymous mmap differ in nothing the model sees.
Private == "private"

VARIABLES
    api,       \* the interface in use
    named,     \* the object the name, or the key, leads to
    pages,     \* the size of each object
    creator,   \* who created each object; None once that process is gone
    next,      \* the identifier of the next object
    pc,        \* where each process is
    fd,        \* shmId of the allocation under way
    own,       \* isOwner of the allocation under way
    want,      \* the size it asks for
    attrs,     \* the attributes each process keeps
    closed,    \* processes whose recorded descriptor is closed
    maps,      \* the mappings of each: object, first page, number of pages
    cut,       \* history: the objects a call has made smaller
    reopened,  \* history: the creator has opened the named object again
    hurt       \* history: an append has failed

kernel == <<named, pages, cut, creator, next>>
local == <<fd, own, want>>
vars == <<api, named, pages, creator, next, pc, fd, own, want, attrs, closed,
          maps, cut, reopened, hurt>>

\* Mode3Attributes and Mode4Attributes after reset().  The base and the
\* appended address with their sizes are the mappings they were meant for.
Reset == [base |-> None, shmId |-> None, appended |-> None, isOwner |-> FALSE]

Go(p, l) == pc' = [pc EXCEPT ![p] = l]

\* allocate or a constructor returns, with its local variables.
Return(p) ==
    /\ fd' = [fd EXCEPT ![p] = None]
    /\ own' = [own EXCEPT ![p] = FALSE]
    /\ want' = [want EXCEPT ![p] = 0]
    /\ Go(p, IF api \in Classes THEN "made" ELSE "idle")

\* shm_unlink by name; IPC_RMID by identifier, which the code takes for
\* missing when it is 0.
Unlink == named' = None
Removed(o) == named' = IF o # 0 /\ named = o THEN None ELSE named

\* ftruncate to n pages, more or fewer than before
Resize(o, n) ==
    /\ pages' = [pages EXCEPT ![o] = n]
    /\ cut' = IF n < pages[o] THEN cut \cup {o} ELSE cut

MInit ==
    /\ api \in Allocators \cup Classes \cup {Private}
    /\ named = None
    /\ pages = [o \in 0 .. MaxId |-> 0]
    /\ creator = [o \in 0 .. MaxId |-> None]
    /\ next \in IF api \in {"sysv", "SYSVSharedMemory"} THEN {0, 1} ELSE {1}
    /\ pc = [p \in Procs |-> "idle"]
    /\ fd = [p \in Procs |-> None]
    /\ own = [p \in Procs |-> FALSE]
    /\ want = [p \in Procs |-> 0]
    /\ attrs = [p \in Procs |-> Reset]
    /\ closed = {}
    /\ maps = [p \in Procs |-> {}]
    /\ cut = {}
    /\ reopened = FALSE
    /\ hurt = FALSE

-----------------------------------------------------------------------------
(* Faulty variants of the operations below, for testing the properties.    *)

\* only the owner sets the size
TruncateByOwner(p) ==
    /\ pc[p] = "truncate"
    /\ IF own[p] THEN Resize(fd[p], want[p]) ELSE UNCHANGED <<pages, cut>>
    /\ Go(p, "map")
    /\ UNCHANGED <<api, reopened, hurt, named, creator, next, local, attrs, closed, maps>>

\* a failed allocation unlinks whoever owns the object
TruncateFailsUnlinks(p) ==
    /\ pc[p] = "truncate"
    /\ Unlink
    /\ Return(p)
    /\ UNCHANGED <<api, reopened, hurt, pages, cut, creator, next, attrs, closed, maps>>

\* a failed allocation leaves the object it has created
TruncateFailsLeaves(p) ==
    /\ pc[p] = "truncate"
    /\ Return(p)
    /\ UNCHANGED <<api, reopened, hurt, kernel, attrs, closed, maps>>

-----------------------------------------------------------------------------
(* allocate, and the constructors: create the object, or else open it.     *)

\* shm_open or shmget, exclusively.
Create(p) ==
    /\ pc[p] = "create"
    /\ named = None
    /\ next <= MaxId
    /\ named' = next
    /\ creator' = [creator EXCEPT ![next] = p]
    /\ IF api \in Posix THEN UNCHANGED <<pages, cut>> ELSE Resize(next, want[p])
    /\ next' = next + 1
    /\ fd' = [fd EXCEPT ![p] = next]
    /\ own' = [own EXCEPT ![p] = TRUE]
    /\ want' = want
    /\ reopened' = FALSE
    /\ Go(p, IF api \in Posix THEN "truncate" ELSE "map")
    /\ UNCHANGED <<api, hurt, attrs, closed, maps>>

\* Any other error: the object is neither created nor looked for.
CreateFails(p) ==
    /\ pc[p] = "create"
    /\ Return(p)
    /\ UNCHANGED <<api, reopened, hurt, kernel, attrs, closed, maps>>

\* EEXIST: the allocator opens the object in a second call.
Exists(p) ==
    /\ pc[p] = "create"
    /\ api \in Allocators
    /\ named # None
    /\ Go(p, "open")
    /\ UNCHANGED <<api, reopened, hurt, kernel, local, attrs, closed, maps>>

\* EEXIST: the POSIX class goes on with descriptor -1, so fchmod fails and
\* the name is unlinked.  The System V class gives up.
ClassExists(p) ==
    /\ pc[p] = "create"
    /\ api \in Classes
    /\ named # None
    /\ IF api \in Posix THEN Unlink ELSE UNCHANGED named
    /\ Return(p)
    /\ UNCHANGED <<api, reopened, hurt, pages, cut, creator, next, attrs, closed, maps>>

\* shmget refuses a size above that of the segment.
Open(p) ==
    /\ pc[p] = "open"
    /\ named # None
    /\ api = "sysv" => want[p] <= pages[named]
    /\ fd' = [fd EXCEPT ![p] = named]
    /\ own' = [own EXCEPT ![p] = FALSE]
    /\ want' = want
    /\ Go(p, IF api \in Posix THEN "truncate" ELSE "map")
    /\ UNCHANGED <<api, reopened, hurt, kernel, attrs, closed, maps>>

\* The object went away between the two calls, or any other error.
OpenFails(p) ==
    /\ pc[p] = "open"
    /\ Return(p)
    /\ UNCHANGED <<api, reopened, hurt, kernel, attrs, closed, maps>>

\* Whoever opens the object gives it the size it wants itself.
Truncate(p) ==
    /\ pc[p] = "truncate"
    /\ Resize(fd[p], want[p])
    /\ Go(p, "map")
    /\ UNCHANGED <<api, reopened, hurt, named, creator, next, local, attrs, closed, maps>>

\* The owner unlinks.
TruncateFails(p) ==
    /\ pc[p] = "truncate"
    /\ IF own[p] THEN Unlink ELSE UNCHANGED named
    /\ Return(p)
    /\ UNCHANGED <<api, reopened, hurt, pages, cut, creator, next, attrs, closed, maps>>

\* mmap or shmat of n pages of object o from page f.  Nothing checks for
\* MAP_FAILED: an attempt that fails is recorded like one that succeeds.
TryMap(p, o, f, n) == maps' \in {maps, [maps EXCEPT ![p] = @ \cup {<<o, f, n>>}]}

\* The POSIX class does not keep the descriptor.
Map(p) ==
    /\ pc[p] = "map"
    /\ TryMap(p, fd[p], 0, want[p])
    /\ attrs' = [attrs EXCEPT ![p] =
            [base |-> <<fd[p], 0, want[p]>>, appended |-> @.appended, isOwner |-> own[p],
             shmId |-> IF api = "POSIXSharedMemory" THEN None ELSE fd[p]]]
    /\ closed' = closed \ {p}
    /\ reopened' = IF fd[p] = named /\ creator[fd[p]] = p THEN ~own[p] ELSE reopened
    /\ Return(p)
    /\ UNCHANGED <<api, hurt, kernel>>

\* Also by a process that has allocated before, which then finds its own
\* object and records that it is not the owner.  append does this in mode 4.
Allocate(p) ==
    /\ pc[p] = "idle"
    /\ api # Private
    /\ \E n \in Sizes[p] : want' = [want EXCEPT ![p] = n]
    /\ Go(p, "create")
    /\ UNCHANGED <<api, reopened, hurt, kernel, fd, own, attrs, closed, maps>>

\* Modes 1 and 2, and append in them: the former block is forgotten.
AllocatePrivate(p) ==
    /\ pc[p] = "idle"
    /\ api = Private
    /\ next <= MaxId
    /\ \E n \in Sizes[p] :
        /\ Resize(next, n)
        /\ maps' = [maps EXCEPT ![p] = @ \cup {<<next, 0, n>>}]
        /\ attrs' = [attrs EXCEPT ![p].base = <<next, 0, n>>]
    /\ creator' = [creator EXCEPT ![next] = p]
    /\ next' = next + 1
    /\ UNCHANGED <<api, reopened, hurt, named, pc, local, closed>>

-----------------------------------------------------------------------------
(* append: more pages for a POSIX object, behind those this process has.   *)

MayAppend(p) ==
    /\ pc[p] = "idle"
    /\ api = "posix"
    /\ attrs[p].base # None
    /\ attrs[p].appended = None

Append(p, n) ==
    /\ MayAppend(p)
    /\ p \notin closed
    /\ LET o == attrs[p].shmId
           size == attrs[p].base[3]
       IN  /\ Resize(o, size + n)
           /\ TryMap(p, o, size, n)
           /\ attrs' = [attrs EXCEPT ![p].appended = <<o, size, n>>]
    /\ UNCHANGED <<api, reopened, hurt, named, creator, next, pc, local, closed>>

\* The owner closes and unlinks, and keeps its attributes.
AppendFails(p) ==
    /\ MayAppend(p)
    /\ attrs[p].isOwner
    /\ Unlink
    /\ closed' = closed \cup {p}
    /\ hurt' = TRUE
    /\ UNCHANGED <<api, reopened, pages, cut, creator, next, pc, local, attrs, maps>>

-----------------------------------------------------------------------------
(* deallocate, which does nothing for a process that is not the owner, and *)
(* the destructors.                                                        *)

Unmapped(p) == maps[p] \ {attrs[p].base, attrs[p].appended}

Release(p) ==
    /\ maps' = [maps EXCEPT ![p] = Unmapped(p)]
    /\ closed' = closed \ {p}
    /\ attrs' = [attrs EXCEPT ![p] = Reset]
    /\ Go(p, "idle")
    /\ UNCHANGED <<api, reopened, hurt, pages, cut, creator, next, local>>

Deallocate(p) ==
    /\ pc[p] = "idle"
    /\ attrs[p].isOwner
    /\ IF api = "posix" THEN Unlink ELSE Removed(attrs[p].shmId)
    /\ Release(p)

DeallocatePrivate(p) ==
    /\ pc[p] = "idle"
    /\ api = Private
    /\ attrs[p].base # None
    /\ Release(p)
    /\ UNCHANGED named

\* The POSIX class unlinks the name even if it created nothing.
Destruct(p) ==
    /\ pc[p] = "made"
    /\ IF api \in Posix THEN Unlink ELSE Removed(attrs[p].shmId)
    /\ Release(p)

\* A process dies, or ends without deallocate.
Die(p) ==
    /\ creator' = [o \in 0 .. MaxId |-> IF creator[o] = p THEN None ELSE creator[o]]
    /\ attrs' = [attrs EXCEPT ![p] = Reset]
    /\ closed' = closed \ {p}
    /\ maps' = [maps EXCEPT ![p] = {}]
    /\ fd' = [fd EXCEPT ![p] = None]
    /\ own' = [own EXCEPT ![p] = FALSE]
    /\ want' = [want EXCEPT ![p] = 0]
    /\ Go(p, "idle")
    /\ UNCHANGED <<api, reopened, hurt, named, pages, cut, next>>

-----------------------------------------------------------------------------
MNext ==
    \E p \in Procs :
        \/ Allocate(p)
        \/ Create(p)
        \/ CreateFails(p)
        \/ Exists(p)
        \/ ClassExists(p)
        \/ Open(p)
        \/ OpenFails(p)
        \/ Truncate(p)
        \/ TruncateFails(p)
        \/ Map(p)
        \/ AllocatePrivate(p)
        \/ \E n \in Sizes[p] : Append(p, n)
        \/ AppendFails(p)
        \/ Deallocate(p)
        \/ DeallocatePrivate(p)
        \/ Destruct(p)
        \/ Die(p)

MSpec == MInit /\ [][MNext]_vars

-----------------------------------------------------------------------------
(* The pages allocate and append have mapped are backed by the object,     *)
(* whoever creates, opens, unlinks, fails or dies at the same time, as     *)
(* long as no call makes the object smaller.  Such calls exist: allocate   *)
(* gives the object the size it wants itself even if it only opens it, and *)
(* append counts from the size this process has asked for, not from the    *)
(* size of the object.  Either cuts pages off that others have mapped.     *)
PagesAreBacked ==
    \A p \in Procs : \A m \in maps[p] :
        m[2] + m[3] <= pages[m[1]] \/ m[1] \in cut

\* Nobody but p moves.
StepOf(p) ==
    \A q \in Procs \ {p} :
        pc'[q] = pc[q] /\ attrs'[q] = attrs[q] /\ maps'[q] = maps[q]

(* With the allocator, a name is taken from an object only by the process  *)
(* that created it, in whatever order processes create, open, fail and     *)
(* give back.  An append that failed ends this: its owner has unlinked the *)
(* name and will unlink it once more, whoever has taken it by then.        *)
NameTakenByCreator ==
    [][named # None /\ named' # named /\ api \in Allocators /\ ~hurt =>
        creator[named] # None /\ StepOf(creator[named])]_vars

(* With the allocator, a living process that has created the object under  *)
(* the name is its owner and can give it back: failures on the way leave   *)
(* no object behind.  Two cases are different.  A creator that allocates a *)
(* second time, as append does in mode 4, counts as one that only opened   *)
(* the object, and nobody can give it back any more.  And a System V       *)
(* segment with identifier 0 is forgotten by deallocate but not removed.   *)
CreatorCanGiveBack ==
    api \in Allocators /\ named # None /\ creator[named] # None /\ ~reopened =>
        LET p == creator[named]
        IN  \/ attrs[p].shmId = named /\ attrs[p].isOwner
            \/ fd[p] = named /\ own[p] /\ pc[p] \in {"truncate", "map"}
            \/ api = "sysv" /\ named = 0
=============================================================================
