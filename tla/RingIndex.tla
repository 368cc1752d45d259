------------------------------ MODULE RingIndex ------------------------------
(***************************************************************************)
(* The index arithmetic of itcLockFreeQueue.h: rounding the requested size *)
(* up to a power of two and spreading consecutive tickets over cache lines.*)
(* The state is one queue instantiation and a ticket that runs round it.   *)
(***************************************************************************)
EXTENDS Integers, Bitwise

CONSTANTS
    Width,      \* bits of the index type (32 in the code)
    Requested,  \* values of the template argument SIZE
    PerLine     \* values of CACHE_LINE_SIZE / sizeof(std::atomic<T>)

ASSUME RingIndexAssumption ==
    /\ Width \in {4, 8, 16, 32}
    /\ Requested \subseteq 1 .. 2^(Width - 1)
    /\ PerLine \subseteq 1 .. 256

VARIABLES requested, perLine, ticket

rvars == <<requested, perLine, ticket>>

Modulus == 2^Width

orEqual(x, u) == x | shiftR(x, u)

\* Faulty: no rounding, as if MINIMIZE_CONTENTION were not set.
roundUpNot(a) == a

\* Sixteen-bit shifts add nothing for a narrower type, so the chain of the
\* 32-bit roundUpToPowerOf2 is also the chain of every smaller width.
roundUpToPowerOf2(a) ==
    LET decremented == (a - 1) % Modulus
        spread == orEqual(orEqual(orEqual(orEqual(orEqual(decremented,
                      1), 2), 4), 8), 16)
    IN  (spread + 1) % Modulus

\* The template specialisations exist for powers of two from 2 to 256 only.
GetCacheLineIndexBits(elementsPerCacheLine) ==
    IF \E b \in 1 .. 8 : 2^b = elementsPerCacheLine
    THEN CHOOSE b \in 1 .. 8 : 2^b = elementsPerCacheLine
    ELSE 0

GetIndexShuffleBits(size, elementsPerCacheLine) ==
    LET bits == GetCacheLineIndexBits(elementsPerCacheLine)
        minSize == 2^(bits * 2)
    IN  IF size < minSize THEN 0 ELSE bits

\* Faulty: only the low group of bits is exchanged.
remapLowBitsOnly(bits, index) ==
    LET mixMask == 2^bits - 1
        mix == (index ^^ shiftR(index, bits)) & mixMask
    IN  IF bits = 0 THEN index ELSE index ^^ mix

remapIndex(bits, index) ==
    LET mixMask == 2^bits - 1
        mix == (index ^^ shiftR(index, bits)) & mixMask
    IN  IF bits = 0 THEN index ELSE (index ^^ mix) ^^ (mix * 2^bits)

mSize == roundUpToPowerOf2(requested)
ShuffleBits == GetIndexShuffleBits(mSize, perLine)

\* map: the array position of a ticket's slot
map(index) == remapIndex(ShuffleBits, index % mSize)

Init ==
    /\ requested \in Requested
    /\ perLine \in PerLine
    /\ ticket = 0

\* fetch_add(1): the next ticket of the same queue
NextTicket ==
    /\ ticket' = (ticket + 1) % Modulus
    /\ UNCHANGED <<requested, perLine>>

Next == NextTicket

Spec == Init /\ [][Next]_rvars

-----------------------------------------------------------------------------
(* Within one lap no two tickets share a slot and every slot is inside the *)
(* array, so the ring has its full capacity.                               *)
LapUsesDistinctSlots ==
    /\ map(ticket) \in 0 .. mSize - 1
    /\ \A d \in 1 .. mSize - 1 : map(ticket) # map(ticket + d)

(* A ticket that overflows continues on the slot after the last one: the   *)
(* ring has no seam at the end of the index type.                          *)
NoSeamAtOverflow == [][map(ticket') = map(ticket + 1)]_rvars
=============================================================================
