---------------------------- MODULE SortedLists -----------------------------
(***************************************************************************)
(* A program that uses one of the two subclasses of SortedList: threads    *)
(* that make their calls, then the destructors.                            *)
(***************************************************************************)
EXTENDS OptimisticList, MutexList

Step(t) ==
  /\ \/ \E c \in CallsOf[t] : Begin(t, c)
     \/ kind = "optimistic" /\ OptimisticStep(t)
     \/ kind = "mutex" /\ MutexStep(t)
     \/ Return(t)
  /\ UNCHANGED kind

Running == \A t \in Threads : at[t] # "crashed"

(* The program has ended; with the mutex list it has no handler. *)
Ended ==
  /\ ~alive \/ (kind = "mutex" /\ ~in_scope) \/ ~Running
  /\ UNCHANGED listVars

Next ==
  \/ Running /\ \E t \in Threads : Step(t)
  \/ Running /\ DestroyList /\ UNCHANGED kind
  \/ Running /\ kind = "optimistic" /\ DestroyHandler /\ UNCHANGED kind
  \/ Ended

Spec == Init /\ [][Next]_listVars

(* Every thread is scheduled. *)
Fairness == \A t \in Threads : WF_listVars(Step(t))

FairSpec == Spec /\ Fairness
-----------------------------------------------------------------------------
(* The variables have their types. *)
TypeOK ==
  /\ Epochs!HandlerTypeOK
  /\ kind \in Kinds
  /\ writers \subseteq Threads /\ readers \subseteq Threads
  /\ version \in Nat
  /\ heap \in Heaps /\ deleted \subseteq Nodes /\ in_scope \in BOOLEAN
  /\ at \in [Threads -> {"idle", "lookup", "snapshot", "root", "walk", "validate",
                        "leave", "restart", "update", "write", "assign", "link",
                        "unlock", "unlock_shared", "return", "crashed"}]
  /\ made \in [Threads -> 0 .. NO_OPS]
  /\ cur \in [Threads -> Links]
  /\ \A t \in Threads : result[t] \in Data \union {Absent, Torn}

(* Either list stays in ascending order without duplicates, whatever the   *)
(* order of updates (list.cc:28-50, 67-92, 107-129, 155-180).              *)
StaysAscending == Ascending(heap)

(* An allocated node is in the hands of an Insert, in the list, in one     *)
(* bag, or freed, and in one of them only: none leaks, and none is freed   *)
(* twice by Delete, the list's destructor and the handler's (list.cc:      *)
(* 20-26, 89, 97-104, 127, 176; epoch.cc:11-17).                           *)
EveryNodeOnce ==
  LET Deferred(n) == UNION {{<<t, i>> : i \in {j \in DOMAIN Epochs!Waiting(t) :
                                                Epochs!Waiting(t)[j].ptr = n}} : t \in Threads}
      Places(n) == Cardinality({n} \intersect Chain(heap))
                   + Cardinality({n} \intersect deleted)
                   + Cardinality({f \in freed : f.ptr = n})
                   + Cardinality(Deferred(n))
                   + Cardinality({t \in Threads : at[t] = "link" /\ cur[t] = n})
  IN  \A n \in Nodes : Places(n) = IF n \in Fresh(heap) THEN 0 ELSE 1

(* Either list implements the sorted set: an update takes effect at its    *)
(* first store, a lookup at the validation that succeeds or, in the mutex  *)
(* list, at the end of its walk, and its answer is then the state of the   *)
(* set (list.cc:20-180).                                                   *)
Status(t) ==
  CASE at[t] = "idle" -> [at |-> "idle"]
    [] at[t] \in {"assign", "unlock", "unlock_shared", "leave", "return"} ->
         [at |-> "done", answer |-> answer[t]]
    [] OTHER -> [at |-> "pending", call |-> call[t]]

Settled ==
  IF \E t \in Threads : at[t] = "assign"
  THEN LET c == call[CHOOSE t \in Threads : at[t] = "assign"]
       IN  Overwrite(heap, c.key, c.data)
  ELSE heap

Set == INSTANCE SortedSet WITH
         contents <- Contents(Settled), status <- [t \in Threads |-> Status(t)]

ImplementsSortedSet == Set!Spec

(* Every call returns, unless the process crashes: lookups stop restarting *)
(* and updates get the lock (list.cc:28-180).                              *)
EveryCallReturns == <>(AllReturned \/ ~Running)

(* Nobody stands on a node that was freed: in the mutex list because Delete *)
(* excludes the lookups, in the optimistic one because it defers           *)
(* (list.cc:56, 89, 139-146, 176).                                         *)
NoUseAfterFree ==
  \A t \in Threads :
    at[t] = "walk" => cur[t] \notin deleted \union {f.ptr : f \in freed}

(* Nobody stands on memory that holds no node yet: Insert links a node     *)
(* only when it is constructed, and also one that is unlinked under a      *)
(* lookup leads to nodes (list.cc:13-17, 48, 127, 139-146).                *)
ReadsConstructedNodes ==
  \A t \in Threads : at[t] = "walk" => cur[t] \notin Fresh(heap)

(* Insert dereferences no null pointer: the assert that prev->next is not  *)
(* null can be evaluated (list.cc:124-125).                                *)
NoCrash == Running

(* A lookup that reports "not found" has not touched its caller's          *)
(* variable: changes are applied only after a successful validation        *)
(* (list.cc:132-152).                                                      *)
ResultOnlyIfFound ==
  \A t \in Threads : at[t] = "return" /\ answer[t] = Absent => result[t] = Absent
=============================================================================
