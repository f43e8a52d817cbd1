---------------------------- MODULE MCHybridLock ----------------------------
(* Instances of HybridLock for TLC. *)
EXTENDS HybridLock, TLC

(* Threads are interchangeable: no definition distinguishes two of them. *)
Symmetry == Permutations(Threads)
=============================================================================
