----------------------------- MODULE MCProcess -----------------------------
(* Instances of Process for TLC. *)
EXTENDS ProcessRefinement, TLC

\* The addresses kmalloc hands out are interchangeable.
Symmetry == Permutations(Tasks \ Boot)
=============================================================================
