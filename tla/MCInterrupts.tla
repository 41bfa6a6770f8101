---------------------------- MODULE MCInterrupts ----------------------------
(* An instance of Interrupts for TLC. *)
EXTENDS ProcessRefinement, Interrupts, TLC

\* The addresses kmalloc hands out are interchangeable.
Symmetry == Permutations(Tasks \ Boot)
=============================================================================
