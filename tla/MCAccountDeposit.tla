-------------------------- MODULE MCAccountDeposit --------------------------
(* An instance of AccountDeposit for TLC. *)
EXTENDS AccountDeposit

CONSTANTS p1, p2, p3, o1, o2, o3, u1, u2

(* Both repositories on one account, and on one that is not there. *)
UserOf == [t \in Threads |-> IF t \in {p3, o3} THEN u2 ELSE u1]

(* The two tests of main, and threads of both kinds at once. *)
InTurnAndAtOnce ==
  {<<{p1, p2}, {o1, o2}>>, <<{p1, o1, o2}>>, <<{p1, p2, o1}>>, <<{p3, o1, o3}>>}
=============================================================================
