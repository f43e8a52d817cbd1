--------------------------- MODULE ReclaimedList ----------------------------
(***************************************************************************)
(* The optimistic list with a client that also calls FreeOutdatedPtr and   *)
(* AdvanceGlobalEpoch between its calls, which no program of the           *)
(* repository does for a list.                                             *)
(***************************************************************************)
EXTENDS SortedLists

Reclaim(t) ==
  /\ in_scope /\ at[t] = "idle"
  /\ Epochs!FreeOutdatedPtr(t)
  /\ UNCHANGED <<kind, lockVars, heapVars, at, callVars>>

Advance ==
  /\ in_scope /\ Epochs!AdvanceGlobalEpoch
  /\ UNCHANGED <<kind, lockVars, heapVars, at, callVars>>

ReclaimNext ==
  \/ Next
  \/ Running /\ (Advance \/ \E t \in Threads : Reclaim(t))

ReclaimSpec == Init /\ [][ReclaimNext]_listVars
=============================================================================
