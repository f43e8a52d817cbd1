---------------------------- MODULE MCHybridGuard ---------------------------
(* Instances of HybridGuard for TLC: a thread with two guards in scope and *)
(* a thread with one.                                                      *)
EXTENDS HybridGuard

CONSTANTS g1, g2, g3, alice, bob

MCGuards == {g1, g2, g3}
MCOwner  == [g \in MCGuards |-> IF g = g3 THEN bob ELSE alice]
=============================================================================
