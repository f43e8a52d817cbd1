------------------------- MODULE MCEpochReclamation -------------------------
(* Instances of EpochReclamation for TLC. *)
EXTENDS EpochReclamation

(* Pointers are interchangeable: no definition distinguishes two of them. *)
Symmetry == Permutations(Ptrs)
=============================================================================
