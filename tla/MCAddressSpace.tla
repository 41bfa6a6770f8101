--------------------------- MODULE MCAddressSpace ---------------------------
(* Instances of AddressSpace for TLC. *)
EXTENDS AddressSpace, TLC

Symmetry == Permutations(Tasks \ Boot)

=============================================================================
