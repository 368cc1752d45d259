----------------------------- MODULE MCPlatform -----------------------------
(* Platform for TLC: the entries of the list are interchangeable.          *)
EXTENDS Platform, TLC

SlotSymmetry == Permutations(Slots)
=============================================================================
