----------------------------- MODULE MCQueueOrder ----------------------------
(* Constants for model checking QueueOrder.                                *)
EXTENDS QueueOrder

\* remapIndex<0>: m_size is below the size at which slots are shuffled.
Identity == [i \in Slots |-> i]
=============================================================================
