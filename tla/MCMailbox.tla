------------------------------ MODULE MCMailbox ------------------------------
(* Constants for model checking Mailbox.                                   *)
EXTENDS Mailbox

\* remapIndex<0>: m_size is below the size at which slots are shuffled.
Identity == [i \in Slots |-> i]
=============================================================================
