----------------------------- MODULE MCSpscQueue -----------------------------
(* Constants for model checking SpscQueue.                                 *)
EXTENDS SpscQueue

\* remapIndex<0>: m_size is below the size at which slots are shuffled.
Identity == [i \in Slots |-> i]
=============================================================================
