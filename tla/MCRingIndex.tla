----------------------------- MODULE MCRingIndex -----------------------------
(* Constants for model checking RingIndex on an 8-bit index type.          *)
EXTENDS RingIndex

MCRequested == {1, 3, 5, 16, 33, 64}
=============================================================================
