--------------------------- MODULE OptimisticList ---------------------------
(***************************************************************************)
(* OptimisticSortedList: updates under an EXCLUSIVE guard, lookups under   *)
(* an OPTIMISTIC one inside an EpochGuard; a deleted node is deferred to   *)
(* the epoch handler.  The lock is the abstract one that HybridLock        *)
(* implements.                                                             *)
(***************************************************************************)
EXTENDS ListThreads

EnterEpoch(t) ==
  /\ at[t] = "lookup"
  /\ \/ Epochs!EnterLoad(t) /\ UNCHANGED at
     \/ Epochs!EnterStore(t) /\ Go(t, "lookup", "snapshot")
  /\ UNCHANGED <<lockVars, heapVars, callVars>>

OptimisticLock(t) ==
  /\ Go(t, "snapshot", "root")
  /\ writers = {}
  /\ seen' = [seen EXCEPT ![t] = version]
  /\ UNCHANGED <<lockVars, epochVars, heapVars, call, made, cur, answer, result>>

(* Mutant: a guard that validates the state of the lock only. *)
ValidUnlocked(t) == writers = {}

Valid(t) == writers = {} /\ version = seen[t]

(* Mutant: tries again inside the scope of the guard, with its snapshot. *)
ValidateAgain(t) ==
  /\ Go(t, "validate", IF Valid(t) THEN "leave" ELSE "root")
  /\ cur' = [cur EXCEPT ![t] = null]
  /\ UNCHANGED <<lockVars, epochVars, heapVars, call, made, seen, answer, result>>

Validate(t) ==
  /\ Go(t, "validate", IF Valid(t) THEN "leave" ELSE "restart")
  /\ cur' = [cur EXCEPT ![t] = null]
  /\ UNCHANGED <<lockVars, epochVars, heapVars, call, made, seen, answer, result>>

LeaveEpoch(t) ==
  /\ Epochs!Leave(t)
  /\ Go(t, "leave", "return") \/ Go(t, "restart", "lookup")
  /\ UNCHANGED <<lockVars, heapVars, callVars>>

OptimisticInsert(t) == InsertNode(t)

OptimisticDelete(t) ==
  LET k == call[t].key
  IN  /\ call[t].op = "Delete"
      /\ Go(t, "write", "unlock")
      /\ answer' = [answer EXCEPT ![t] = Found(heap, k)]
      /\ IF Found(heap, k)
         THEN heap' = Unlink(heap, k) /\ Epochs!DeferFreePointer(t, Current(heap, k))
         ELSE UNCHANGED <<heap, epochVars>>
      /\ UNCHANGED <<lockVars, deleted, in_scope, call, made, cur, seen, result>>

(* The handler, declared before the list, is destructed after it. *)
DestroyHandler ==
  /\ ~in_scope /\ AllReturned
  /\ Epochs!Destruct
  /\ UNCHANGED <<lockVars, heapVars, at, callVars>>

OptimisticStep(t) ==
  \/ EnterEpoch(t) \/ OptimisticLock(t) \/ LoadRoot(t) \/ Visit(t, "validate")
  \/ Validate(t) \/ LeaveEpoch(t)
  \/ LockExclusive(t) \/ OptimisticInsert(t) \/ Assign(t) \/ OptimisticDelete(t) \/ Unlock(t)
=============================================================================
