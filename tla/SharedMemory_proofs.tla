------------------------- MODULE SharedMemory_proofs -------------------------
(***************************************************************************)
(* Proofs about SharedMemory for every set of processes, every number of   *)
(* kernel objects and every size, over all five interfaces.                *)
(***************************************************************************)
EXTENDS SharedMemory, TLAPS

Ids == 0 .. MaxId
Mappings == Ids \X Nat \X Nat
Attributes == [base : Mappings \cup {None}, shmId : Ids \cup {None},
               appended : Mappings \cup {None}, isOwner : BOOLEAN]

\* p is between the call that gave it a descriptor and the return.
Working(p) == pc[p] \in {"truncate", "map"}

(* Every variable has its type.                                            *)
TypeOK ==
    /\ api \in Allocators \cup Classes \cup {Private}
    /\ named \in Ids \cup {None}
    /\ pages \in [Ids -> Nat]
    /\ creator \in [Ids -> Procs \cup {None}]
    /\ next \in Nat
    /\ pc \in [Procs -> {"idle", "create", "open", "truncate", "map", "made"}]
    /\ fd \in [Procs -> Ids \cup {None}]
    /\ own \in [Procs -> BOOLEAN]
    /\ want \in [Procs -> Nat]
    /\ attrs \in [Procs -> Attributes]
    /\ closed \subseteq Procs
    /\ maps \in [Procs -> SUBSET Mappings]
    /\ cut \subseteq Ids
    /\ reopened \in BOOLEAN
    /\ hurt \in BOOLEAN

(* Where a process can be with which interface, and that it has an object  *)
(* in hand while it works on one, or has something to append to.           *)
ControlOK ==
    \A p \in Procs :
        /\ Working(p) => fd[p] \in Ids
        /\ pc[p] = "open" => api \in Allocators
        /\ pc[p] = "truncate" => api \in Posix
        /\ pc[p] = "made" => api \in Classes
        /\ pc[p] # "idle" => api # Private
        /\ api = "posix" /\ attrs[p].base # None => attrs[p].shmId \in Ids

(* Identifiers are not reused: one that is known to anybody is below next. *)
Fresh ==
    /\ named # None => named < next
    /\ \A p \in Procs : fd[p] # None => fd[p] < next
    /\ \A p \in Procs : attrs[p].shmId # None => attrs[p].shmId < next

(* Object o has n pages, or has been made smaller.                         *)
Has(o, n) == n <= pages[o] \/ o \in cut
WillHave(o, n) == n <= pages'[o] \/ o \in cut'

(* An object that is mapped, or is about to be, has the pages.             *)
Backed ==
    /\ \A p \in Procs : \A m \in maps[p] : Has(m[1], m[2] + m[3])
    /\ \A p \in Procs : pc[p] = "map" => Has(fd[p], want[p])

(* isOwner, in the attributes or in an allocation under way, says who      *)
(* created the object.                                                     *)
OwnersCreated ==
    api \in Allocators => \A p \in Procs :
        /\ Working(p) /\ own[p] => creator[fd[p]] = p
        /\ attrs[p].isOwner => attrs[p].shmId \in Ids /\ creator[attrs[p].shmId] = p

(* With the POSIX allocator the name leads to what its owner created, as   *)
(* long as no append has failed: a process that creates an object owns no  *)
(* other.                                                                  *)
OwnersNamed ==
    api = "posix" /\ ~hurt => \A p \in Procs :
        /\ Working(p) /\ own[p] => named = fd[p] /\ ~attrs[p].isOwner
        /\ attrs[p].isOwner => named = attrs[p].shmId

(* A process that works on an object while the name leads to one it has    *)
(* created works on that one.                                              *)
WorksOnItsOwn ==
    api \in Allocators /\ named # None => \A p \in Procs :
        Working(p) /\ creator[named] = p => fd[p] = named

(* The inductive invariant.                                                *)
IInv ==
    /\ TypeOK
    /\ ControlOK
    /\ Fresh
    /\ Backed
    /\ OwnersCreated
    /\ OwnersNamed
    /\ WorksOnItsOwn
    /\ CreatorCanGiveBack

-----------------------------------------------------------------------------
(* A step of one process.                                                  *)
Step(p) ==
    \/ Allocate(p)
    \/ Create(p)
    \/ CreateFails(p)
    \/ Exists(p)
    \/ ClassExists(p)
    \/ Open(p)
    \/ OpenFails(p)
    \/ Truncate(p)
    \/ TruncateFails(p)
    \/ Map(p)
    \/ AllocatePrivate(p)
    \/ \E n \in Sizes[p] : Append(p, n)
    \/ AppendFails(p)
    \/ Deallocate(p)
    \/ DeallocatePrivate(p)
    \/ Destruct(p)
    \/ Die(p)

(* The bounds are numbers, and None is not one.                            *)
LEMMA Numbers == /\ MaxId \in Nat /\ Ids \subseteq Nat /\ None \notin Ids
                 /\ \A p \in Procs : Sizes[p] \subseteq Nat
BY MemoryAssumption DEF Ids

(* An identifier that Create may use is one.                               *)
LEMMA NextId == \A n \in Nat : n <= MaxId <=> n \in Ids
BY MemoryAssumption DEF Ids

(* A new mapping keeps the set of mappings a set of mappings.              *)
LEMMA MapsGrow ==
    ASSUME TypeOK, NEW p \in Procs, NEW m \in Mappings
    PROVE  [maps EXCEPT ![p] = @ \cup {m}] \in [Procs -> SUBSET Mappings]
BY DEF TypeOK

(* Recording a base or appended pages keeps attributes attributes.         *)
LEMMA AttrsTyped ==
    ASSUME TypeOK, NEW p \in Procs, NEW m \in Mappings
    PROVE  /\ [attrs EXCEPT ![p].base = m] \in [Procs -> Attributes]
           /\ [attrs EXCEPT ![p].appended = m] \in [Procs -> Attributes]
<1>1. attrs \in [Procs -> Attributes] /\ attrs[p] \in Attributes
  BY DEF TypeOK
<1>2. [attrs[p] EXCEPT !.base = m] \in Attributes
  BY <1>1 DEF Attributes
<1>3. [attrs[p] EXCEPT !.appended = m] \in Attributes
  BY <1>1 DEF Attributes
<1>4. [attrs EXCEPT ![p] = [attrs[p] EXCEPT !.base = m]] \in [Procs -> Attributes]
  BY <1>1, <1>2
<1>5. [attrs EXCEPT ![p] = [attrs[p] EXCEPT !.appended = m]] \in [Procs -> Attributes]
  BY <1>1, <1>3
<1> QED
  BY <1>4, <1>5

(* Changing a size keeps sizes sizes.                                      *)
LEMMA ResizeTyped ==
    ASSUME TypeOK, NEW o \in Ids, NEW n \in Nat, Resize(o, n)
    PROVE  pages' \in [Ids -> Nat] /\ cut' \subseteq Ids
BY DEF TypeOK, Resize

(* Changing a size gives the object that size, and takes pages away only   *)
(* from an object that counts as cut from then on.                         *)
LEMMA ResizeKeeps ==
    ASSUME TypeOK, NEW o \in Ids, NEW n \in Nat, Resize(o, n)
    PROVE  /\ WillHave(o, n)
           /\ \A i \in Ids : \A k \in Nat : Has(i, k) => WillHave(i, k)
<1>1. \A i \in Ids : pages'[i] = IF i = o THEN n ELSE pages[i]
  BY DEF TypeOK, Resize
<1>2. cut \subseteq cut' /\ (n < pages[o] => o \in cut')
  BY DEF Resize
<1>3. pages \in [Ids -> Nat]
  BY DEF TypeOK
<1> QED
  BY <1>1, <1>2, <1>3 DEF Has, WillHave

(* Every step keeps the types.                                             *)
LEMMA TypeStep ==
    ASSUME TypeOK, ControlOK,
           NEW p \in Procs, Step(p)
    PROVE  TypeOK'
<1> USE Numbers, NextId
    DEF TypeOK, ControlOK, Working, Attributes, Reset, Go, kernel, local
<1>1. CASE Allocate(p)
  BY <1>1 DEF Allocate
<1>2. CASE Create(p)
  <2>1. next \in Ids /\ want[p] \in Nat
    BY <1>2 DEF Create
  <2>2. pages' \in [Ids -> Nat] /\ cut' \subseteq Ids
    <3>1. CASE UNCHANGED <<pages, cut>>
      BY <3>1
    <3>2. CASE Resize(next, want[p])
      BY <2>1, <3>2, ResizeTyped
    <3> QED
      BY <1>2, <3>1, <3>2 DEF Create
  <2>3. /\ named' = next /\ next' = next + 1 /\ reopened' = FALSE
        /\ creator' = [creator EXCEPT ![next] = p]
        /\ fd' = [fd EXCEPT ![p] = next]
        /\ own' = [own EXCEPT ![p] = TRUE]
        /\ pc' = [pc EXCEPT ![p] = IF api \in Posix THEN "truncate" ELSE "map"]
        /\ UNCHANGED <<api, hurt, want, attrs, closed, maps>>
    BY <1>2 DEF Create
  <2>4. /\ named' \in Ids \cup {None} /\ next' \in Nat
        /\ creator' \in [Ids -> Procs \cup {None}]
        /\ fd' \in [Procs -> Ids \cup {None}] /\ own' \in [Procs -> BOOLEAN]
        /\ pc' \in [Procs -> {"idle", "create", "open", "truncate", "map", "made"}]
    BY <2>1, <2>3
  <2> QED
    BY <2>2, <2>3, <2>4
<1>3. CASE CreateFails(p)
  BY <1>3 DEF CreateFails, Return
<1>4. CASE Exists(p)
  BY <1>4 DEF Exists
<1>5. CASE ClassExists(p)
  BY <1>5 DEF ClassExists, Return, Unlink
<1>6. CASE Open(p)
  BY <1>6 DEF Open
<1>7. CASE OpenFails(p)
  BY <1>7 DEF OpenFails, Return
<1>8. CASE Truncate(p)
  BY <1>8 DEF Truncate, Resize
<1>9. CASE TruncateFails(p)
  <2>1. CASE own[p]
    BY <1>9, <2>1 DEF TruncateFails, Return, Unlink
  <2>2. CASE ~own[p]
    BY <1>9, <2>2 DEF TruncateFails, Return
  <2> QED
    BY <2>1, <2>2
<1>10. CASE Map(p)
  <2>1. <<fd[p], 0, want[p]>> \in Mappings
    BY <1>10 DEF Map, Mappings
  <2>2. maps' \in [Procs -> SUBSET Mappings]
    <3>1. maps' = maps \/ maps' = [maps EXCEPT ![p] = @ \cup {<<fd[p], 0, want[p]>>}]
      BY <1>10 DEF Map, TryMap
    <3>2. [maps EXCEPT ![p] = @ \cup {<<fd[p], 0, want[p]>>}] \in [Procs -> SUBSET Mappings]
      BY <2>1, MapsGrow
    <3> QED
      BY <3>1, <3>2
  <2>3. attrs' \in [Procs -> Attributes]
    BY <1>10, <2>1 DEF Map
  <2>4. reopened' \in BOOLEAN
    BY <1>10 DEF Map
  <2> QED
    BY <1>10, <2>2, <2>3, <2>4 DEF Map, Return
<1>11. CASE AllocatePrivate(p)
  <2>1. next \in Ids
    BY <1>11, NextId DEF AllocatePrivate
  <2>2. PICK n \in Sizes[p] :
          /\ Resize(next, n)
          /\ maps' = [maps EXCEPT ![p] = @ \cup {<<next, 0, n>>}]
          /\ attrs' = [attrs EXCEPT ![p].base = <<next, 0, n>>]
    BY <1>11 DEF AllocatePrivate
  <2>3. n \in Nat /\ <<next, 0, n>> \in Mappings
    BY <2>1 DEF Mappings
  <2>4. maps' \in [Procs -> SUBSET Mappings]
    BY <2>2, <2>3, MapsGrow
  <2>5. attrs' \in [Procs -> Attributes]
    <3> HIDE DEF TypeOK, ControlOK, Attributes
    <3> QED
      BY <2>2, <2>3, AttrsTyped, Zenon
  <2>6. pages' \in [Ids -> Nat] /\ cut' \subseteq Ids
    BY <2>1, <2>2, <2>3, ResizeTyped
  <2>7. /\ next' = next + 1
        /\ creator' = [creator EXCEPT ![next] = p]
        /\ UNCHANGED <<api, reopened, hurt, named, pc, fd, own, want, closed>>
    BY <1>11 DEF AllocatePrivate
  <2> QED
    BY <2>1, <2>4, <2>5, <2>6, <2>7
<1>12. CASE \E n \in Sizes[p] : Append(p, n)
  <2>1. PICK n \in Sizes[p] : Append(p, n)
    BY <1>12
  <2> DEFINE o == attrs[p].shmId
             size == attrs[p].base[3]
  <2>2. o \in Ids /\ attrs[p].base \in Mappings
    BY <2>1 DEF Append, MayAppend
  <2>3. n \in Nat /\ size \in Nat /\ <<o, size, n>> \in Mappings
    BY <2>2 DEF Mappings
  <2>4. maps' \in [Procs -> SUBSET Mappings]
    <3>1. maps' = maps \/ maps' = [maps EXCEPT ![p] = @ \cup {<<o, size, n>>}]
      BY <2>1 DEF Append, TryMap
    <3> HIDE DEF TypeOK, ControlOK, Attributes, o, size
    <3>2. [maps EXCEPT ![p] = @ \cup {<<o, size, n>>}] \in [Procs -> SUBSET Mappings]
      BY <2>3, MapsGrow
    <3>3. maps \in [Procs -> SUBSET Mappings]
      BY DEF TypeOK
    <3> QED
      BY <3>1, <3>2, <3>3
  <2>5. attrs' \in [Procs -> Attributes]
    <3>1. attrs' = [attrs EXCEPT ![p].appended = <<o, size, n>>]
      BY <2>1 DEF Append
    <3> HIDE DEF TypeOK, ControlOK, Attributes, o, size
    <3> QED
      BY <2>3, <3>1, AttrsTyped, Zenon
  <2>6. pages' \in [Ids -> Nat] /\ cut' \subseteq Ids
    <3>1. Resize(o, size + n) /\ size + n \in Nat
      BY <2>1, <2>3 DEF Append
    <3> HIDE DEF TypeOK, ControlOK, Attributes, o, size
    <3> QED
      BY <2>2, <3>1, ResizeTyped
  <2> QED
    BY <2>1, <2>4, <2>5, <2>6 DEF Append
<1>13. CASE AppendFails(p)
  BY <1>13 DEF AppendFails, MayAppend, Unlink
<1>14. CASE Deallocate(p)
  BY <1>14 DEF Deallocate, Unlink, Removed, Release, Unmapped
<1>15. CASE DeallocatePrivate(p)
  BY <1>15 DEF DeallocatePrivate, Release, Unmapped
<1>16. CASE Destruct(p)
  BY <1>16 DEF Destruct, Unlink, Removed, Release, Unmapped
<1>17. CASE Die(p)
  BY <1>17 DEF Die, Ids
<1> QED
  BY <1>1, <1>2, <1>3, <1>4, <1>5, <1>6, <1>7, <1>8, <1>9,
     <1>10, <1>11, <1>12, <1>13, <1>14, <1>15, <1>16, <1>17
  DEF Step

(* Every step keeps each process where its interface allows it to be.      *)
LEMMA ControlStep ==
    ASSUME TypeOK, ControlOK,
           NEW p \in Procs, Step(p)
    PROVE  ControlOK'
<1> USE Numbers, NextId
    DEF TypeOK, ControlOK, Working, Attributes, Reset, Go, kernel, local,
        Allocators, Classes, Posix, Private
<1>1. CASE Allocate(p)
  BY <1>1 DEF Allocate
<1>2. CASE Create(p)
  BY <1>2 DEF Create, Resize
<1>3. CASE CreateFails(p)
  BY <1>3 DEF CreateFails, Return
<1>4. CASE Exists(p)
  BY <1>4 DEF Exists
<1>5. CASE ClassExists(p)
  BY <1>5 DEF ClassExists, Return, Unlink
<1>6. CASE Open(p)
  BY <1>6 DEF Open
<1>7. CASE OpenFails(p)
  BY <1>7 DEF OpenFails, Return
<1>8. CASE Truncate(p)
  BY <1>8 DEF Truncate, Resize
<1>9. CASE TruncateFails(p)
  BY <1>9 DEF TruncateFails, Return, Unlink
<1>10. CASE Map(p)
  BY <1>10 DEF Map, Return, TryMap
<1>11. CASE AllocatePrivate(p)
  BY <1>11 DEF AllocatePrivate, Resize
<1>12. CASE \E n \in Sizes[p] : Append(p, n)
  BY <1>12 DEF Append, MayAppend, Resize, TryMap
<1>13. CASE AppendFails(p)
  BY <1>13 DEF AppendFails, MayAppend, Unlink
<1>14. CASE Deallocate(p)
  BY <1>14 DEF Deallocate, Unlink, Removed, Release, Unmapped
<1>15. CASE DeallocatePrivate(p)
  BY <1>15 DEF DeallocatePrivate, Release, Unmapped
<1>16. CASE Destruct(p)
  BY <1>16 DEF Destruct, Unlink, Removed, Release, Unmapped
<1>17. CASE Die(p)
  BY <1>17 DEF Die, Ids
<1> QED
  BY <1>1, <1>2, <1>3, <1>4, <1>5, <1>6, <1>7, <1>8, <1>9,
     <1>10, <1>11, <1>12, <1>13, <1>14, <1>15, <1>16, <1>17
  DEF Step

(* Every step keeps the next identifier above all that are known.          *)
LEMMA FreshStep ==
    ASSUME TypeOK, ControlOK, Fresh,
           NEW p \in Procs, Step(p)
    PROVE  Fresh'
<1> USE Numbers, NextId
    DEF TypeOK, ControlOK, Working, Fresh, Attributes, Reset, Go, kernel, local
<1>1. CASE Allocate(p)
  BY <1>1 DEF Allocate
<1>2. CASE Create(p)
  <2>1. next \in Ids /\ next' = next + 1 /\ named' = next /\ attrs' = attrs
    BY <1>2 DEF Create, Resize
  <2>2. \A q \in Procs : fd'[q] = IF q = p THEN next ELSE fd[q]
    BY <1>2 DEF Create, Resize
  <2>3. \A i \in Ids : i < next => i < next'
    BY <2>1
  <2>4. \A q \in Procs : fd'[q] # None => fd'[q] < next'
    <3> TAKE q \in Procs
    <3>1. CASE q = p
      BY <2>1, <2>2, <3>1
    <3>2. CASE q # p
      BY <2>2, <2>3, <3>2
    <3> QED
      BY <3>1, <3>2
  <2>5. \A q \in Procs : attrs'[q].shmId # None => attrs'[q].shmId < next'
    BY <2>1, <2>3
  <2> QED
    BY <2>1, <2>4, <2>5
<1>3. CASE CreateFails(p)
  BY <1>3 DEF CreateFails, Return
<1>4. CASE Exists(p)
  BY <1>4 DEF Exists
<1>5. CASE ClassExists(p)
  BY <1>5 DEF ClassExists, Return, Unlink
<1>6. CASE Open(p)
  BY <1>6 DEF Open
<1>7. CASE OpenFails(p)
  BY <1>7 DEF OpenFails, Return
<1>8. CASE Truncate(p)
  BY <1>8 DEF Truncate, Resize
<1>9. CASE TruncateFails(p)
  BY <1>9 DEF TruncateFails, Return, Unlink
<1>10. CASE Map(p)
  BY <1>10 DEF Map, Return, TryMap
<1>11. CASE AllocatePrivate(p)
  BY <1>11 DEF AllocatePrivate, Resize
<1>12. CASE \E n \in Sizes[p] : Append(p, n)
  BY <1>12 DEF Append, MayAppend, Resize, TryMap
<1>13. CASE AppendFails(p)
  BY <1>13 DEF AppendFails, MayAppend, Unlink
<1>14. CASE Deallocate(p)
  BY <1>14 DEF Deallocate, Unlink, Removed, Release, Unmapped
<1>15. CASE DeallocatePrivate(p)
  BY <1>15 DEF DeallocatePrivate, Release, Unmapped
<1>16. CASE Destruct(p)
  BY <1>16 DEF Destruct, Unlink, Removed, Release, Unmapped
<1>17. CASE Die(p)
  BY <1>17 DEF Die, Ids
<1> QED
  BY <1>1, <1>2, <1>3, <1>4, <1>5, <1>6, <1>7, <1>8, <1>9,
     <1>10, <1>11, <1>12, <1>13, <1>14, <1>15, <1>16, <1>17
  DEF Step

(* No step but one that cuts an object takes pages away that a process has *)
(* mapped or is about to map.                                              *)
LEMMA BackedStep ==
    ASSUME TypeOK, ControlOK, Backed,
           NEW p \in Procs, Step(p)
    PROVE  Backed'
<1> DEFINE Kept == \A i \in Ids : \A k \in Nat : Has(i, k) => WillHave(i, k)
<1>1. ASSUME Kept,
             \A q \in Procs : \A m \in maps'[q] : m \in maps[q] \/ WillHave(m[1], m[2] + m[3]),
             \A q \in Procs : pc'[q] = "map" =>
                 \/ pc[q] = "map" /\ fd'[q] = fd[q] /\ want'[q] = want[q]
                 \/ WillHave(fd'[q], want'[q])
      PROVE  Backed'
  <2>1. \A q \in Procs : \A m \in maps[q] : m[1] \in Ids /\ m[2] + m[3] \in Nat
    BY DEF TypeOK, Mappings
  <2>2. \A q \in Procs : pc[q] = "map" => fd[q] \in Ids /\ want[q] \in Nat
    BY DEF TypeOK, ControlOK, Working
  <2>3. \A q \in Procs : \A m \in maps'[q] : WillHave(m[1], m[2] + m[3])
    BY <1>1, <2>1 DEF Backed
  <2>4. \A q \in Procs : pc'[q] = "map" => WillHave(fd'[q], want'[q])
    BY <1>1, <2>2 DEF Backed, Has
  <2> QED
    BY <2>3, <2>4 DEF Backed, Has, WillHave
<1>2. UNCHANGED <<pages, cut>> => Kept
  BY DEF Has, WillHave
<1>3. \A o \in Ids, n \in Nat : Resize(o, n) => WillHave(o, n) /\ Kept
  BY ResizeKeeps
<1>4. TypeOK /\ ControlOK
  OBVIOUS
<1> HIDE DEF Kept
<1> USE DEF Go, kernel, local
<1>5. CASE \/ Allocate(p) \/ CreateFails(p) \/ Exists(p) \/ ClassExists(p)
           \/ OpenFails(p) \/ TruncateFails(p) \/ AppendFails(p)
           \/ Deallocate(p) \/ DeallocatePrivate(p) \/ Destruct(p) \/ Die(p)
  <2>1. UNCHANGED <<pages, cut>>
    BY <1>5 DEF Allocate, CreateFails, Exists, ClassExists, OpenFails, TruncateFails,
                AppendFails, Deallocate, DeallocatePrivate, Destruct, Release, Die
  <2>2. \A q \in Procs : maps'[q] \subseteq maps[q]
    <3>1. \/ maps' = maps
          \/ maps' = [maps EXCEPT ![p] = Unmapped(p)]
          \/ maps' = [maps EXCEPT ![p] = {}]
      BY <1>5 DEF Allocate, CreateFails, Exists, ClassExists, OpenFails, TruncateFails,
                  AppendFails, Deallocate, DeallocatePrivate, Destruct, Release, Die
    <3> QED
      BY <3>1 DEF TypeOK, Unmapped
  <2>3. \A q \in Procs : pc'[q] = "map" => pc[q] = "map" /\ fd'[q] = fd[q] /\ want'[q] = want[q]
    BY <1>5 DEF TypeOK, Allocate, CreateFails, Exists, ClassExists, OpenFails, Return,
                TruncateFails, AppendFails, Deallocate, DeallocatePrivate, Destruct,
                Release, Die
  <2> QED
    BY <1>1, <1>2, <2>1, <2>2, <2>3
<1>6. CASE Create(p)
  <2>1. next \in Ids /\ want[p] \in Nat
    BY <1>6, NextId DEF Create, TypeOK
  <2>2. /\ maps' = maps
        /\ \A q \in Procs \ {p} : pc'[q] = pc[q] /\ fd'[q] = fd[q]
        /\ fd'[p] = next /\ want' = want
    BY <1>6 DEF Create, TypeOK
  <2>3. Kept /\ (pc'[p] = "map" => WillHave(next, want[p]))
    <3>1. CASE api \in Posix
      BY <1>2, <1>6, <3>1 DEF Create, TypeOK
    <3>2. CASE api \notin Posix
      BY <1>3, <1>6, <2>1, <3>2 DEF Create
    <3> QED
      BY <3>1, <3>2
  <2> QED
    BY <1>1, <2>2, <2>3 DEF Has, WillHave
<1>7. CASE Open(p)
  <2>1. /\ UNCHANGED <<pages, cut, maps>> /\ want' = want
        /\ \A q \in Procs \ {p} : pc'[q] = pc[q] /\ fd'[q] = fd[q]
        /\ fd'[p] = named
    BY <1>7 DEF Open, TypeOK
  <2>2. pc'[p] = "map" => Has(named, want[p])
    BY <1>7 DEF Open, TypeOK, ControlOK, Allocators, Posix, Has
  <2>3. pc'[p] = "map" => WillHave(fd'[p], want'[p])
    BY <2>1, <2>2 DEF Has, WillHave
  <2>4. \A q \in Procs : pc'[q] = "map" =>
            \/ pc[q] = "map" /\ fd'[q] = fd[q] /\ want'[q] = want[q]
            \/ WillHave(fd'[q], want'[q])
    BY <2>1, <2>3
  <2> QED
    BY <1>1, <1>2, <2>1, <2>4
<1>8. CASE Truncate(p)
  <2>1. fd[p] \in Ids /\ want[p] \in Nat /\ Resize(fd[p], want[p])
    BY <1>8 DEF Truncate, TypeOK, ControlOK, Working
  <2>2. UNCHANGED <<fd, want, maps>> /\ \A q \in Procs \ {p} : pc'[q] = pc[q]
    BY <1>8 DEF Truncate, TypeOK
  <2>3. Kept /\ WillHave(fd[p], want[p])
    BY <1>3, <2>1, <2>2 DEF Has, WillHave
  <2> QED
    BY <1>1, <2>2, <2>3
<1>9. CASE Map(p)
  <2>1. UNCHANGED <<pages, cut>> /\ pc[p] = "map"
    BY <1>9 DEF Map
  <2>2. \A q \in Procs : \A m \in maps'[q] : m \in maps[q] \/ m = <<fd[p], 0, want[p]>>
    BY <1>9 DEF Map, TryMap, TypeOK
  <2>3. WillHave(fd[p], 0 + want[p])
    BY <2>1 DEF Backed, Has, WillHave, TypeOK
  <2>4. \A q \in Procs : pc'[q] = "map" => pc[q] = "map" /\ fd'[q] = fd[q] /\ want'[q] = want[q]
    BY <1>9 DEF Map, Return, TypeOK, Classes
  <2> QED
    BY <1>1, <1>2, <2>1, <2>2, <2>3, <2>4 DEF Has, WillHave
<1>10. CASE AllocatePrivate(p)
  <2>1. PICK n \in Sizes[p] :
          Resize(next, n) /\ maps' = [maps EXCEPT ![p] = @ \cup {<<next, 0, n>>}]
    BY <1>10 DEF AllocatePrivate
  <2>2. n \in Nat /\ next \in Ids
    BY <1>10, Numbers, NextId DEF AllocatePrivate, TypeOK
  <2>3. Kept /\ WillHave(next, 0 + n)
    BY <1>3, <2>1, <2>2
  <2>4. \A q \in Procs : \A m \in maps'[q] : m \in maps[q] \/ m = <<next, 0, n>>
    BY <2>1 DEF TypeOK
  <2>5. UNCHANGED <<pc, fd, want>>
    BY <1>10 DEF AllocatePrivate
  <2> QED
    BY <1>1, <2>3, <2>4, <2>5 DEF Has, WillHave
<1>11. CASE \E n \in Sizes[p] : Append(p, n)
  <2>1. PICK n \in Sizes[p] : Append(p, n)
    BY <1>11
  <2> DEFINE o == attrs[p].shmId
             size == attrs[p].base[3]
  <2>2. o \in Ids /\ attrs[p].base \in Mappings
    BY <2>1 DEF Append, MayAppend, TypeOK, ControlOK, Attributes
  <2>3. n \in Nat /\ size \in Nat
    BY <2>2, Numbers DEF Mappings
  <2>4. Resize(o, size + n)
    BY <2>1 DEF Append
  <2>5. \A q \in Procs : \A m \in maps'[q] : m \in maps[q] \/ m = <<o, size, n>>
    BY <2>1 DEF Append, TryMap, TypeOK
  <2>6. UNCHANGED <<pc, fd, want>>
    BY <2>1 DEF Append
  <2> HIDE DEF o, size
  <2>7. Kept /\ WillHave(o, size + n)
    BY <1>3, <2>2, <2>3, <2>4
  <2>8. \A q \in Procs : \A m \in maps'[q] : m \in maps[q] \/ WillHave(m[1], m[2] + m[3])
    <3> TAKE q \in Procs
    <3> TAKE m \in maps'[q]
    <3>1. CASE m = <<o, size, n>>
      BY <2>7, <3>1 DEF Has, WillHave
    <3> QED
      BY <2>5, <3>1
  <2> QED
    BY <1>1, <2>6, <2>7, <2>8
<1> QED
  BY <1>5, <1>6, <1>7, <1>8, <1>9, <1>10, <1>11 DEF Step

(* Every step keeps owners the creators of what they own.                  *)
LEMMA CreatedStep ==
    ASSUME TypeOK, ControlOK, Fresh, OwnersCreated,
           NEW p \in Procs, Step(p)
    PROVE  OwnersCreated'
<1> USE Numbers, NextId
    DEF TypeOK, ControlOK, Working, Fresh, OwnersCreated, Attributes, Reset, Go,
        kernel, local, Allocators, Classes, Posix, Private
<1>1. CASE Allocate(p)
  BY <1>1 DEF Allocate
<1>2. CASE Create(p)
  BY <1>2 DEF Create, Resize
<1>3. CASE CreateFails(p)
  BY <1>3 DEF CreateFails, Return
<1>4. CASE Exists(p)
  BY <1>4 DEF Exists
<1>5. CASE ClassExists(p)
  BY <1>5 DEF ClassExists, Return, Unlink
<1>6. CASE Open(p)
  BY <1>6 DEF Open
<1>7. CASE OpenFails(p)
  BY <1>7 DEF OpenFails, Return
<1>8. CASE Truncate(p)
  BY <1>8 DEF Truncate, Resize
<1>9. CASE TruncateFails(p)
  BY <1>9 DEF TruncateFails, Return, Unlink
<1>10. CASE Map(p)
  BY <1>10 DEF Map, Return, TryMap
<1>11. CASE AllocatePrivate(p)
  BY <1>11 DEF AllocatePrivate, Resize
<1>12. CASE \E n \in Sizes[p] : Append(p, n)
  BY <1>12 DEF Append, MayAppend, Resize, TryMap
<1>13. CASE AppendFails(p)
  BY <1>13 DEF AppendFails, MayAppend, Unlink
<1>14. CASE Deallocate(p)
  BY <1>14 DEF Deallocate, Unlink, Removed, Release, Unmapped
<1>15. CASE DeallocatePrivate(p)
  BY <1>15 DEF DeallocatePrivate, Release, Unmapped
<1>16. CASE Destruct(p)
  BY <1>16 DEF Destruct, Unlink, Removed, Release, Unmapped
<1>17. CASE Die(p)
  BY <1>17 DEF Die, Ids
<1> QED
  BY <1>1, <1>2, <1>3, <1>4, <1>5, <1>6, <1>7, <1>8, <1>9,
     <1>10, <1>11, <1>12, <1>13, <1>14, <1>15, <1>16, <1>17
  DEF Step

(* Every step keeps the name with the object of its owner: whoever else    *)
(* would unlink it is an owner too, and there is one owner of a name.      *)
LEMMA NamedStep ==
    ASSUME TypeOK, ControlOK, Fresh, OwnersCreated, OwnersNamed,
           NEW p \in Procs, Step(p)
    PROVE  OwnersNamed'
<1> USE Numbers, NextId
    DEF TypeOK, ControlOK, Working, Fresh, Attributes, Reset, Go, kernel, local,
        Allocators, Classes, Posix, Private, OwnersCreated, OwnersNamed
<1>1. CASE Allocate(p)
  BY <1>1 DEF Allocate
<1>2. CASE Create(p)
  BY <1>2 DEF Create, Resize
<1>3. CASE CreateFails(p)
  BY <1>3 DEF CreateFails, Return
<1>4. CASE Exists(p)
  BY <1>4 DEF Exists
<1>5. CASE ClassExists(p)
  BY <1>5 DEF ClassExists, Return, Unlink
<1>6. CASE Open(p)
  BY <1>6 DEF Open
<1>7. CASE OpenFails(p)
  BY <1>7 DEF OpenFails, Return
<1>8. CASE Truncate(p)
  BY <1>8 DEF Truncate, Resize
<1>9. CASE TruncateFails(p)
  BY <1>9 DEF TruncateFails, Return, Unlink
<1>10. CASE Map(p)
  BY <1>10 DEF Map, Return, TryMap
<1>11. CASE AllocatePrivate(p)
  BY <1>11 DEF AllocatePrivate, Resize
<1>12. CASE \E n \in Sizes[p] : Append(p, n)
  BY <1>12 DEF Append, MayAppend, Resize, TryMap
<1>13. CASE AppendFails(p)
  BY <1>13 DEF AppendFails, MayAppend, Unlink
<1>14. CASE Deallocate(p)
  BY <1>14 DEF Deallocate, Unlink, Removed, Release, Unmapped
<1>15. CASE DeallocatePrivate(p)
  BY <1>15 DEF DeallocatePrivate, Release, Unmapped
<1>16. CASE Destruct(p)
  BY <1>16 DEF Destruct, Unlink, Removed, Release, Unmapped
<1>17. CASE Die(p)
  BY <1>17 DEF Die, Ids
<1> QED
  BY <1>1, <1>2, <1>3, <1>4, <1>5, <1>6, <1>7, <1>8, <1>9,
     <1>10, <1>11, <1>12, <1>13, <1>14, <1>15, <1>16, <1>17
  DEF Step

(* Every step keeps a creator's work on its own object: it is the object    *)
(* under the name that a process creates or opens.                         *)
LEMMA WorksStep ==
    ASSUME TypeOK, ControlOK, Fresh, WorksOnItsOwn,
           NEW p \in Procs, Step(p)
    PROVE  WorksOnItsOwn'
<1> USE Numbers, NextId
    DEF TypeOK, ControlOK, Working, Fresh, Attributes, Reset, Go, kernel, local,
        Allocators, Classes, Posix, Private, WorksOnItsOwn
<1>1. CASE Allocate(p)
  BY <1>1 DEF Allocate
<1>2. CASE Create(p)
  BY <1>2 DEF Create, Resize
<1>3. CASE CreateFails(p)
  BY <1>3 DEF CreateFails, Return
<1>4. CASE Exists(p)
  BY <1>4 DEF Exists
<1>5. CASE ClassExists(p)
  BY <1>5 DEF ClassExists, Return, Unlink
<1>6. CASE Open(p)
  BY <1>6 DEF Open
<1>7. CASE OpenFails(p)
  BY <1>7 DEF OpenFails, Return
<1>8. CASE Truncate(p)
  BY <1>8 DEF Truncate, Resize
<1>9. CASE TruncateFails(p)
  BY <1>9 DEF TruncateFails, Return, Unlink
<1>10. CASE Map(p)
  BY <1>10 DEF Map, Return, TryMap
<1>11. CASE AllocatePrivate(p)
  BY <1>11 DEF AllocatePrivate, Resize
<1>12. CASE \E n \in Sizes[p] : Append(p, n)
  BY <1>12 DEF Append, MayAppend, Resize, TryMap
<1>13. CASE AppendFails(p)
  BY <1>13 DEF AppendFails, MayAppend, Unlink
<1>14. CASE Deallocate(p)
  BY <1>14 DEF Deallocate, Unlink, Removed, Release, Unmapped
<1>15. CASE DeallocatePrivate(p)
  BY <1>15 DEF DeallocatePrivate, Release, Unmapped
<1>16. CASE Destruct(p)
  BY <1>16 DEF Destruct, Unlink, Removed, Release, Unmapped
<1>17. CASE Die(p)
  <2>1. creator' = [o \in Ids |-> IF creator[o] = p THEN None ELSE creator[o]]
    BY <1>17 DEF Die, Ids
  <2>2. \A q \in Procs : q # p => pc'[q] = pc[q] /\ fd'[q] = fd[q] /\ own'[q] = own[q]
    BY <1>17 DEF Die
  <2>3. pc'[p] = "idle" /\ named' = named /\ api' = api
    BY <1>17 DEF Die
  <2>4. named # None => \A q \in Procs : creator'[named] = q => creator[named] = q
    BY <2>1, MemoryAssumption
  <2> QED
    BY <2>2, <2>3, <2>4
<1> QED
  BY <1>1, <1>2, <1>3, <1>4, <1>5, <1>6, <1>7, <1>8, <1>9,
     <1>10, <1>11, <1>12, <1>13, <1>14, <1>15, <1>16, <1>17
  DEF Step

(* No step makes a creator forget what is still named.                     *)
LEMMA RemembersStep ==
    ASSUME TypeOK, ControlOK, Fresh, WorksOnItsOwn, CreatorCanGiveBack,
           NEW p \in Procs, Step(p)
    PROVE  CreatorCanGiveBack'
<1> USE Numbers, NextId
    DEF TypeOK, ControlOK, Working, Fresh, Attributes, Reset, Go, kernel, local,
        Allocators, Classes, Posix, Private, WorksOnItsOwn, CreatorCanGiveBack
<1>1. CASE Allocate(p)
  BY <1>1 DEF Allocate
<1>2. CASE Create(p)
  BY <1>2 DEF Create, Resize
<1>3. CASE CreateFails(p)
  BY <1>3 DEF CreateFails, Return
<1>4. CASE Exists(p)
  BY <1>4 DEF Exists
<1>5. CASE ClassExists(p)
  BY <1>5 DEF ClassExists, Return, Unlink
<1>6. CASE Open(p)
  BY <1>6 DEF Open
<1>7. CASE OpenFails(p)
  BY <1>7 DEF OpenFails, Return
<1>8. CASE Truncate(p)
  BY <1>8 DEF Truncate, Resize
<1>9. CASE TruncateFails(p)
  BY <1>9 DEF TruncateFails, Return, Unlink
<1>10. CASE Map(p)
  BY <1>10 DEF Map, Return, TryMap
<1>11. CASE AllocatePrivate(p)
  BY <1>11 DEF AllocatePrivate, Resize
<1>12. CASE \E n \in Sizes[p] : Append(p, n)
  BY <1>12 DEF Append, MayAppend, Resize, TryMap
<1>13. CASE AppendFails(p)
  BY <1>13 DEF AppendFails, MayAppend, Unlink
<1>14. CASE Deallocate(p)
  BY <1>14 DEF Deallocate, Unlink, Removed, Release, Unmapped
<1>15. CASE DeallocatePrivate(p)
  BY <1>15 DEF DeallocatePrivate, Release, Unmapped
<1>16. CASE Destruct(p)
  BY <1>16 DEF Destruct, Unlink, Removed, Release, Unmapped
<1>17. CASE Die(p)
  BY <1>17 DEF Die, Ids
<1> QED
  BY <1>1, <1>2, <1>3, <1>4, <1>5, <1>6, <1>7, <1>8, <1>9,
     <1>10, <1>11, <1>12, <1>13, <1>14, <1>15, <1>16, <1>17
  DEF Step

(* The inductive invariant holds in every reachable state.                 *)
THEOREM InductiveInvariant == MSpec => []IInv
<1>1. MInit => IInv
  <2> SUFFICES ASSUME MInit PROVE IInv
    OBVIOUS
  <2>1. TypeOK
    <3>1. /\ api \in Allocators \cup Classes \cup {Private} /\ next \in Nat
          /\ named \in Ids \cup {None} /\ pages \in [Ids -> Nat]
          /\ creator \in [Ids -> Procs \cup {None}]
      BY DEF MInit, Ids
    <3>2. attrs \in [Procs -> Attributes]
      BY DEF MInit, Attributes, Reset
    <3> QED
      BY <3>1, <3>2 DEF MInit, TypeOK
  <2>2. ControlOK /\ Fresh /\ Backed /\ OwnersCreated
    BY DEF MInit, ControlOK, Working, Fresh, Backed, OwnersCreated, Reset
  <2>3. OwnersNamed /\ WorksOnItsOwn /\ CreatorCanGiveBack
    BY DEF MInit, Working, OwnersNamed, WorksOnItsOwn, CreatorCanGiveBack, Reset
  <2> QED
    BY <2>1, <2>2, <2>3 DEF IInv
<1>2. IInv /\ [MNext]_vars => IInv'
  <2> SUFFICES ASSUME IInv, [MNext]_vars PROVE IInv'
    OBVIOUS
  <2>1. CASE UNCHANGED vars
    BY <2>1 DEF vars, IInv, TypeOK, ControlOK, Working, Fresh, Backed, Has,
                OwnersCreated, OwnersNamed, WorksOnItsOwn, CreatorCanGiveBack
  <2>2. CASE MNext
    <3> PICK p \in Procs : Step(p)
      BY <2>2 DEF MNext, Step
    <3> QED
      BY TypeStep, ControlStep, FreshStep, BackedStep, CreatedStep, NamedStep,
         WorksStep, RemembersStep DEF IInv
  <2> QED
    BY <2>1, <2>2
<1> QED
  BY <1>1, <1>2, PTL DEF MSpec

(* Whatever other processes create, open, unlink or fail to do, the pages  *)
(* that allocate and append have mapped stay backed by their object, until *)
(* a call makes the object smaller.                                        *)
THEOREM MappedPagesAreBacked == MSpec => []PagesAreBacked
<1>1. IInv => PagesAreBacked
  BY DEF IInv, Backed, Has, PagesAreBacked
<1> QED
  BY <1>1, InductiveInvariant, PTL

(* A living creator owns the object under the name, and can give it back,  *)
(* unless it has opened it again or its System V identifier is 0.          *)
THEOREM CreatorsCanGiveBack == MSpec => []CreatorCanGiveBack
BY InductiveInvariant, PTL DEF IInv

(* Nobody takes the name from another process's object.                    *)
THEOREM NamesTakenByCreators == MSpec => NameTakenByCreator
<1> DEFINE Taken == named # None /\ named' # named /\ api \in Allocators /\ ~hurt
           Allowed == creator[named] # None /\ StepOf(creator[named])
<1>1. IInv /\ [MNext]_vars => [Taken => Allowed]_vars
  <2> SUFFICES ASSUME IInv, MNext, Taken PROVE Allowed
    BY DEF vars
  <2> USE Numbers DEF IInv, TypeOK, ControlOK, Working, Attributes, Reset, Go,
          kernel, local, Allocators, Classes, Posix, Private
  <2>1. PICK p \in Procs : Step(p)
    BY DEF MNext, Step
  <2>2. creator[named] = p => Allowed
    <3> SUFFICES ASSUME creator[named] = p PROVE StepOf(p)
      BY MemoryAssumption
    <3>1. TruncateFails(p) \/ AppendFails(p) \/ Deallocate(p)
      BY <2>1 DEF Step, Allocate, Create, CreateFails, Exists, ClassExists, Open,
                  OpenFails, Truncate, Map, AllocatePrivate, Append,
                  DeallocatePrivate, Destruct, Die
    <3> QED
      BY <3>1 DEF StepOf, TruncateFails, Return, AppendFails, Deallocate, Release
  <2>3. creator[named] = p
    <3>1. CASE TruncateFails(p)
      BY <3>1 DEF TruncateFails, OwnersCreated, OwnersNamed
    <3>2. CASE AppendFails(p)
      BY <3>2 DEF AppendFails, MayAppend, OwnersCreated, OwnersNamed
    <3>3. CASE Deallocate(p)
      BY <3>3 DEF Deallocate, Removed, OwnersCreated, OwnersNamed
    <3> QED
      BY <2>1, <3>1, <3>2, <3>3
      DEF Step, Allocate, Create, CreateFails, Exists, ClassExists, Open,
          OpenFails, Truncate, Map, AllocatePrivate, Append,
          DeallocatePrivate, Destruct, Die
  <2> QED
    BY <2>2, <2>3
<1> QED
  BY <1>1, InductiveInvariant, PTL DEF MSpec, NameTakenByCreator
=============================================================================
