----------------------------- MODULE MutexList ------------------------------
(***************************************************************************)
(* MutexSortedList: lookups under a shared lock of a std::shared_mutex,    *)
(* updates under a unique one; Delete frees its node at once.              *)
(***************************************************************************)
EXTENDS ListThreads

(* Mutant: a lookup that does not wait for the threads that update. *)
LockSharedAtOnce(t) ==
  /\ Go(t, "lookup", "root")
  /\ readers' = readers \union {t}
  /\ UNCHANGED <<writers, version, epochVars, heapVars, callVars>>

LockShared(t) ==
  /\ Go(t, "lookup", "root")
  /\ Lock!AcquireShared(t)
  /\ UNCHANGED <<epochVars, heapVars, callVars>>

UnlockShared(t) ==
  /\ Go(t, "unlock_shared", "return")
  /\ Lock!ReleaseShared(t)
  /\ cur' = [cur EXCEPT ![t] = null]
  /\ UNCHANGED <<epochVars, heapVars, call, made, seen, answer, result>>

MutexInsert(t) == InsertNode(t)

MutexDelete(t) ==
  LET k == call[t].key
  IN  /\ call[t].op = "Delete"
      /\ Go(t, "write", "unlock")
      /\ answer' = [answer EXCEPT ![t] = Found(heap, k)]
      /\ IF Found(heap, k)
         THEN heap' = Unlink(heap, k) /\ deleted' = deleted \union {Current(heap, k)}
         ELSE UNCHANGED <<heap, deleted>>
      /\ UNCHANGED <<lockVars, epochVars, in_scope, call, made, cur, seen, result>>

MutexStep(t) ==
  \/ LockShared(t) \/ LoadRoot(t) \/ Visit(t, "unlock_shared") \/ UnlockShared(t)
  \/ LockExclusive(t) \/ MutexInsert(t) \/ Assign(t) \/ MutexDelete(t) \/ Unlock(t)
=============================================================================
