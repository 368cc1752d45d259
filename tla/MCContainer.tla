----------------------------- MODULE MCContainer -----------------------------
(* Constants for model checking Container.                                 *)
EXTENDS Container, TLC

\* remapIndex<0>: m_size is below the size at which slots are shuffled.
Identity == [i \in Slots |-> i]

Symmetry == Permutations(Elements) \cup Permutations(Producers)
                                   \cup Permutations(Keys)
=============================================================================
