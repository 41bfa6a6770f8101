---------------------------- MODULE MCPageTables ----------------------------
(* Instances of PageTables for TLC: pages 0 and 1 (text) share a table, as do  *)
(* 2 (stack) and 3 (heap).  The first vma ends in the middle of its last page. *)
EXTENDS PageTables, TLC

MCUserPages == 0 .. 3
MCPart      == [p \in MCUserPages |-> IF p = 1 THEN {0} ELSE 0 .. Radix - 1]
Symmetry    == Permutations(Spaces)
=============================================================================
