--------------------------- MODULE MCSysvTransport ---------------------------
(* Constants for model checking SysvTransport.                             *)
EXTENDS SysvTransport

CONSTANTS m1, m2, m3

\* Above and below the length test of the receive loop.
MCUserSize == [m \in Messages |-> IF m = m1 THEN 12 ELSE 13]
=============================================================================
