----------------------------- MODULE HybridGuard ----------------------------
(***************************************************************************)
(* HybridGuard, the scoped owner of a HybridLock: any number of guards on  *)
(* one lock, constructed, unlocked, validated, moved and destroyed in      *)
(* every order their threads can.  The lock's own steps come from module   *)
(* HybridLock, with the guards as its users.                               *)
(***************************************************************************)
EXTENDS HybridWord, FiniteSets

CONSTANTS
  Guards,
  Owner,        (* The thread in whose scopes a guard lives.                *)
  MoveModes,    (* The modes a guard may have on either side of a move.     *)
  MaxVersion    (* Bound: exclusive sections constructed (see HybridLock).  *)

Modes == {"OPTIMISTIC", "SHARED", "EXCLUSIVE", "MOVED"}

ASSUME GuardAssumption ==
  /\ IsFiniteSet(Guards) /\ MaxVersion \in Nat
  /\ DOMAIN Owner = Guards /\ MoveModes \subseteq Modes

VARIABLES
  word, pc, old, held,   (* The lock and its calls.                         *)
  mode,                  (* mode_                                           *)
  seen,                  (* state_, the snapshot of an optimistic guard.    *)
  life                   (* Out of scope, in its constructor or in another  *)
                         (* OptimisticLock, or alive.                       *)

Lock == INSTANCE HybridLock WITH Threads <- Guards

lockVars  == <<word, pc, old, held>>
guardVars == <<word, pc, old, held, mode, seen, life>>

Init ==
  /\ Lock!Init
  /\ mode = [g \in Guards |-> "MOVED"]
  /\ seen = [g \in Guards |-> InitialWord]
  /\ life = [g \in Guards |-> "none"]

AtRest(g) == life[g] = "alive" /\ pc[g] = "idle"

(***************************************************************************)
(* The constructor: OptimisticLock waits out an exclusive holder, the      *)
(* pessimistic modes load the word and try, again until the lock is theirs.*)
(***************************************************************************)
ExclusiveGuards == {g \in Guards : life[g] # "none" /\ mode[g] = "EXCLUSIVE"}

Construct(g, m) ==
  /\ life[g] = "none"
  /\ m = "EXCLUSIVE" => Version(word) + Cardinality(ExclusiveGuards) < MaxVersion
  /\ mode' = [mode EXCEPT ![g] = m]
  /\ life' = [life EXCEPT ![g] = "constructing"]
  /\ UNCHANGED <<lockVars, seen>>

Acquire(g) ==
  /\ life[g] = "constructing"
  /\ \/ mode[g] \in {"SHARED", "EXCLUSIVE"} /\ Lock!StateAndVersion(g)
     \/ mode[g] = "SHARED" /\ Lock!TryLockShared(g)
     \/ mode[g] = "EXCLUSIVE" /\ Lock!TryLockExclusive(g)
  /\ life' = IF held'[g] = "none" THEN life ELSE [life EXCEPT ![g] = "alive"]
  /\ UNCHANGED <<mode, seen>>

(* Mutant: takes its snapshot also while the lock is held exclusively. *)
OptimisticLockAtOnce(g) ==
  /\ life[g] = "constructing" /\ mode[g] = "OPTIMISTIC"
  /\ seen' = [seen EXCEPT ![g] = word]
  /\ life' = [life EXCEPT ![g] = "alive"]
  /\ UNCHANGED <<lockVars, mode>>

OptimisticLock(g) ==
  /\ life[g] = "constructing" /\ mode[g] = "OPTIMISTIC"
  /\ seen' = [seen EXCEPT ![g] = word]
  /\ life' = IF IsExclusivelyLocked(word) THEN life ELSE [life EXCEPT ![g] = "alive"]
  /\ UNCHANGED <<lockVars, mode>>

(* The user calls OptimisticLock again, for a new snapshot. *)
CallOptimisticLock(g) ==
  /\ AtRest(g) /\ mode[g] = "OPTIMISTIC"
  /\ life' = [life EXCEPT ![g] = "constructing"]
  /\ UNCHANGED <<lockVars, mode, seen>>

(***************************************************************************)
(* Unlock and ValidateOptimisticLock, called by the user or by the         *)
(* destructor.  The guard is MOVED when the call ends, also when it ends   *)
(* in a RestartException: Valid tells the two ends apart.                  *)
(***************************************************************************)
UnlockCall(g) ==
  /\ life[g] = "alive"
  /\ \/ /\ mode[g] = "SHARED"
        /\ \/ Lock!UnlockSharedLoad(g)
           \/ Lock!UnlockSharedCas(g)
           \/ Lock!UnlockSharedRetry(g)
     \/ mode[g] = "EXCLUSIVE" /\ Lock!UnlockExclusive(g)
  /\ UNCHANGED <<seen, life>>

(* Mutant: the guard does not forget the lock it released. *)
UnlockKeepsMode(g) == UnlockCall(g) /\ UNCHANGED mode

Unlock(g) ==
  /\ UnlockCall(g)
  /\ mode' = IF pc'[g] = "idle" THEN [mode EXCEPT ![g] = "MOVED"] ELSE mode

(* Mutant: compares the state only. *)
ValidIgnoringVersion(g) == ~IsExclusivelyLocked(word)

Valid(g) == ~IsExclusivelyLocked(word) /\ Version(word) = Version(seen[g])

ValidateOptimisticLock(g) ==
  /\ AtRest(g) /\ mode[g] = "OPTIMISTIC"
  /\ mode' = [mode EXCEPT ![g] = "MOVED"]
  /\ UNCHANGED <<lockVars, seen, life>>

(* The guard is gone; the next one in its place is a new user of the lock. *)
GoOutOfScope(g) ==
  /\ life' = [life EXCEPT ![g] = "none"]
  /\ seen' = [seen EXCEPT ![g] = InitialWord]
  /\ held' = [held EXCEPT ![g] = "none"]
  /\ mode' = [mode EXCEPT ![g] = "MOVED"]
  /\ UNCHANGED <<word, pc, old>>

(* Mutant: a destructor that leaves a pessimistic lock alone. *)
DestroyWithoutUnlock(g) == AtRest(g) /\ mode[g] # "OPTIMISTIC" /\ GoOutOfScope(g)

Destroy(g) == AtRest(g) /\ mode[g] = "MOVED" /\ GoOutOfScope(g)

(***************************************************************************)
(* operator=(HybridGuard &&): an optimistic target is validated first; the *)
(* source is copied and left as it is, a lock the target held is forgotten.*)
(***************************************************************************)
MoveAssign(g, h) ==
  /\ g # h /\ AtRest(g) /\ AtRest(h)
  /\ mode[g] \in MoveModes /\ mode[h] \in MoveModes
  /\ IF mode[g] = "OPTIMISTIC" /\ ~Valid(g)
     THEN mode' = [mode EXCEPT ![g] = "MOVED"] /\ UNCHANGED seen
     ELSE /\ mode' = [mode EXCEPT ![g] = mode[h]]
          /\ seen' = [seen EXCEPT ![g] = seen[h]]
  /\ UNCHANGED <<lockVars, life>>

(* A thread is inside one call at a time. *)
Alone(g) ==
  \A h \in Guards \ {g} : Owner[h] = Owner[g] => life[h] = "none" \/ AtRest(h)

Step(g) ==
  \/ \E m \in Modes \ {"MOVED"} : Construct(g, m)
  \/ Acquire(g) \/ OptimisticLock(g) \/ CallOptimisticLock(g)
  \/ Unlock(g)  \/ ValidateOptimisticLock(g)
  \/ Destroy(g)
  \/ \E h \in Guards : Owner[h] = Owner[g] /\ MoveAssign(g, h)

Next == Lock!Running /\ \E g \in Guards : Alone(g) /\ Step(g)

Spec == Init /\ [][Next]_guardVars
-----------------------------------------------------------------------------
(* The variables have their types. *)
TypeOK ==
  /\ Lock!TypeOK
  /\ mode \in [Guards -> Modes]
  /\ seen \in [Guards -> Words]
  /\ life \in [Guards -> {"none", "constructing", "alive"}]

(* No sequence of constructions, moves and destructions makes a guard      *)
(* unlock what is not locked: the asserts of HybridLock hold (lock.cc:32,  *)
(* 72) whatever the guards do (guard.cc:33-56).                            *)
AssertionsHold == Lock!AssertionsHold

(* The guards account for the lock: the state byte is the number of live   *)
(* guards in mode SHARED past their constructor, or EXCLUSIVE for the one  *)
(* in mode EXCLUSIVE.  No lock outlives its guard, and no guard outlives   *)
(* its lock (guard.cc:9-30, 41-56).                                        *)
LockMatchesGuards ==
  LET In(m) == {g \in Guards : life[g] = "alive" /\ mode[g] = m}
  IN  IF In("EXCLUSIVE") # {}
      THEN /\ LockState(word) = EXCLUSIVE
           /\ In("SHARED") = {} /\ Cardinality(In("EXCLUSIVE")) = 1
      ELSE LockState(word) = Cardinality(In("SHARED"))
=============================================================================
