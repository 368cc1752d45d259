---------------------------- MODULE MCMailboxTest -----------------------------
(* Constants for model checking MailboxTest.                               *)
EXTENDS MailboxTest

\* remapIndex<0>: m_size is below the size at which slots are shuffled.
Identity == [i \in Slots |-> i]

\* The messages of the arrays.
Messages == Producers \X (1 .. PerSender)
=============================================================================
