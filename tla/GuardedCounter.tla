--------------------------- MODULE GuardedCounter ---------------------------
(***************************************************************************)
(* Threads that protect a plain integer with guards: half of them add one  *)
(* under an EXCLUSIVE guard, the others read it under a SHARED or an       *)
(* OPTIMISTIC guard and start over when a RestartException comes out of    *)
(* the validation.  The integer is not atomic: an increment is a load and  *)
(* a store, and an optimistic reader may run between them.                 *)
(***************************************************************************)
EXTENDS HybridWord, FiniteSets, Sequences

CONSTANTS
  Threads,     (* Each has one guard.                                       *)
  Writers,     (* The threads that increment.                               *)
  NO_OPS       (* Operations per thread.                                    *)

Readers == Threads \ Writers

ASSUME CounterAssumption ==
  IsFiniteSet(Threads) /\ Writers \subseteq Threads /\ NO_OPS \in Nat

VARIABLES
  word, pc, old, held, mode, seen, life,   (* The lock and the guards.      *)
  counter,                 (* The protected integer.                        *)
  reads,                   (* What the thread loaded from it so far.        *)
  at,                      (* Where the thread is in its operation.         *)
  done,                    (* Operations completed.                         *)
  optimistic_restart_cnt   (* Restarts, counted for each thread.            *)

Guard == INSTANCE HybridGuard WITH
           Guards <- Threads, Owner <- [t \in Threads |-> t],
           MoveModes <- {"MOVED"},
           MaxVersion <- NO_OPS * Cardinality(Threads) + 1

guardVars   == <<word, pc, old, held, mode, seen, life>>
counterVars == <<guardVars, counter, reads, at, done, optimistic_restart_cnt>>

Init ==
  /\ Guard!Init
  /\ counter = 0
  /\ reads = [t \in Threads |-> <<>>]
  /\ at    = [t \in Threads |-> "outside"]
  /\ done  = [t \in Threads |-> 0]
  /\ optimistic_restart_cnt = [t \in Threads |-> 0]

Go(t, from, to) ==
  /\ at[t] = from
  /\ at' = [at EXCEPT ![t] = to]

(* Readers choose their mode again at every attempt. *)
Attempt(t) ==
  /\ Go(t, "outside", "entering")
  /\ \E m \in IF t \in Writers THEN {"EXCLUSIVE"} ELSE {"SHARED", "OPTIMISTIC"} :
       Guard!Construct(t, m)
  /\ UNCHANGED <<counter, reads, done, optimistic_restart_cnt>>

(* Mutant: a thread does not count what it has done. *)
BeginAgain(t) == Attempt(t)

Begin(t) == done[t] < NO_OPS /\ Attempt(t)

Enter(t) ==
  /\ Guard!Acquire(t) \/ Guard!OptimisticLock(t)
  /\ Go(t, "entering", IF life'[t] = "alive" THEN "inside" ELSE "entering")
  /\ UNCHANGED <<counter, reads, done, optimistic_restart_cnt>>

Load(t, to) ==
  /\ Go(t, "inside", to)
  /\ reads' = [reads EXCEPT ![t] = Append(@, counter)]
  /\ UNCHANGED <<guardVars, counter, done, optimistic_restart_cnt>>

(* (0 <= counter) && (counter <= NO_THREADS / 2) loads the counter twice. *)
Check(t) ==
  /\ t \in Readers
  /\ Load(t, IF reads[t] = <<>> THEN "inside" ELSE "leaving")

IncrementLoad(t) == t \in Writers /\ Load(t, "incrementing")

IncrementStore(t) ==
  /\ Go(t, "incrementing", "leaving")
  /\ counter' = reads[t][1] + 1
  /\ UNCHANGED <<guardVars, reads, done, optimistic_restart_cnt>>

Complete(t) == done' = [done EXCEPT ![t] = @ + 1] /\ UNCHANGED optimistic_restart_cnt

LeavePessimistic(t) ==
  /\ Guard!Unlock(t)
  /\ IF mode'[t] = "MOVED"
     THEN Go(t, "leaving", "left") /\ Complete(t)
     ELSE Go(t, "leaving", "leaving") /\ UNCHANGED <<done, optimistic_restart_cnt>>
  /\ UNCHANGED <<counter, reads>>

LeaveOptimistic(t) ==
  /\ Guard!ValidateOptimisticLock(t)
  /\ Go(t, "leaving", "left")
  /\ IF Guard!Valid(t)
     THEN Complete(t)
     ELSE /\ optimistic_restart_cnt' = [optimistic_restart_cnt EXCEPT ![t] = @ + 1]
          /\ UNCHANGED done
  /\ UNCHANGED <<counter, reads>>

End(t) ==
  /\ Go(t, "left", "outside")
  /\ Guard!Destroy(t)
  /\ reads' = [reads EXCEPT ![t] = <<>>]
  /\ UNCHANGED <<counter, done, optimistic_restart_cnt>>

Step(t) ==
  \/ Begin(t) \/ Enter(t)
  \/ Check(t) \/ IncrementLoad(t) \/ IncrementStore(t)
  \/ LeavePessimistic(t) \/ LeaveOptimistic(t)
  \/ End(t)

AllDone == \A t \in Threads : at[t] = "outside" /\ done[t] = NO_OPS

(* The threads are joined: nothing more happens. *)
Joined == AllDone /\ UNCHANGED counterVars

Next == (Guard!Lock!Running /\ \E t \in Threads : Step(t)) \/ Joined

Spec == Init /\ [][Next]_counterVars

(* Every thread is scheduled, and its compare_exchange_weak does not fail  *)
(* spuriously for ever.                                                    *)
Fairness ==
  \A t \in Threads :
    /\ WF_counterVars(Step(t))
    /\ SF_counterVars(LeavePessimistic(t) /\ done' # done)

FairSpec == Spec /\ Fairness
-----------------------------------------------------------------------------
(* The variables have their types. *)
TypeOK ==
  /\ Guard!TypeOK
  /\ counter \in 0 .. NO_OPS * Cardinality(Writers)
  /\ DOMAIN reads = Threads
  /\ \A t \in Threads : reads[t] \in Seq(Nat) /\ Len(reads[t]) <= 2
  /\ at \in [Threads -> {"outside", "entering", "inside", "incrementing", "leaving", "left"}]
  /\ done \in [Threads -> 0 .. NO_OPS]
  /\ optimistic_restart_cnt \in [Threads -> Nat]

(* What a reader loaded under a guard that ends without a restart is the   *)
(* integer's value at that moment: both loads agree and no increment has   *)
(* slipped in between, although an optimistic reader excludes nobody       *)
(* (guard.cc:58-75).                                                       *)
CommittedReadsAreCurrent ==
  [][\A t \in Readers : done'[t] # done[t] =>
       \A i \in DOMAIN reads[t] : reads[t][i] = counter]_counterVars

(* n[w] sections of each writer w, as a set: the i-th of w is <<w, i>>.    *)
Sections(n) == UNION {{w} \X (1 .. n[w]) : w \in Writers}

(* The sections whose increment is stored, and those begun.                *)
Stored == [w \in Writers |-> done[w] + IF at[w] = "leaving" THEN 1 ELSE 0]
Begun  == [w \in Writers |-> done[w] + IF held[w] = "exclusive" THEN 1 ELSE 0]

(* No increment is lost: the integer is the number of increments stored,   *)
(* EXPECT_EQ(counter, NO_THREADS / 2) at every moment (epoch.cc:68).       *)
CounterCountsIncrements == counter = Cardinality(Sections(Stored))

(* An exclusive section costs a reader at most one restart: OptimisticLock *)
(* waits for its end before it takes the next snapshot, and shared guards  *)
(* cost none (guard.cc:58-65).                                             *)
OneRestartPerSection ==
  \A t \in Readers : optimistic_restart_cnt[t] <= Cardinality(Sections(Begun))

(* Every thread completes its operations: no spin loop waits for ever and  *)
(* restarts come to an end (guard.cc:14-26, 61; epoch.cc:48-61).           *)
Termination == <>AllDone
=============================================================================
