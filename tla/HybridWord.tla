----------------------------- MODULE HybridWord -----------------------------
(***************************************************************************)
(* The 64-bit word of HybridLock: a state byte in the high bits over a     *)
(* version counter in the low 56.  A word is a record of the two fields;   *)
(* the one place where the fields touch, the carry out of the version when *)
(* it is incremented, is part of NextVersionNewState.                      *)
(***************************************************************************)
EXTENDS Integers

CONSTANTS
  MAX_SHARED,     (* Most readers the state byte can count (254).           *)
  VERSION_LIMIT   (* The number of versions, VERSION_MASK + 1 (2^56).       *)

ASSUME WordAssumption ==
  /\ MAX_SHARED \in Nat \ {0}
  /\ VERSION_LIMIT \in Nat \ {0}

UNLOCKED  == 0
EXCLUSIVE == MAX_SHARED + 1

Words == [state : UNLOCKED .. EXCLUSIVE, version : 0 .. VERSION_LIMIT - 1]

LockState(v) == v.state
Version(v)   == v.version

IsExclusivelyLocked(v) == LockState(v) = EXCLUSIVE
IsSharedLocked(v)      == UNLOCKED < LockState(v) /\ LockState(v) < EXCLUSIVE

SameVersionNewState(v, newState) == [state |-> newState, version |-> Version(v)]

(* Mutant: the new state byte is XOR-ed with the carry. *)
NextVersionXor(v, newState) ==
  IF Version(v) + 1 < VERSION_LIMIT
  THEN [state |-> newState, version |-> Version(v) + 1]
  ELSE [state |-> newState + 1 - 2 * (newState % 2), version |-> 0]

(* The incremented version is OR-ed with the new state byte, without the   *)
(* mask: at the last version the carry lands in the lowest state bit.      *)
NextVersionNewState(v, newState) ==
  IF Version(v) + 1 < VERSION_LIMIT
  THEN [state |-> newState, version |-> Version(v) + 1]
  ELSE [state |-> newState + 1 - (newState % 2), version |-> 0]

(* The word the constructor stores. *)
InitialWord == [state |-> UNLOCKED, version |-> 0]
=============================================================================
