--------------------------- MODULE MCSharedMemory ---------------------------
(* SharedMemory for TLC: two processes, one of which asks for more pages   *)
(* than the other.                                                         *)
EXTENDS SharedMemory, TLC

CONSTANTS p1, p2

PageCounts == p1 :> {1} @@ p2 :> {2}
=============================================================================
