-------------------------- MODULE EpochReclamation --------------------------
(***************************************************************************)
(* EpochHandler with the clients it is made for: threads that walk a       *)
(* shared structure inside an EpochGuard, take pointers out of it and      *)
(* defer them, inside a guard like the epoch test or outside of it like    *)
(* the list, and reclaim outside of their guards.                          *)
(***************************************************************************)
EXTENDS EpochHandler

CONSTANT RetireAt   (* Where threads defer: "inside", "outside", or both.   *)

ASSUME RetireAssumption == RetireAt \subseteq {"inside", "outside"}

VARIABLES
  linked,    (* The pointers still in the structure.                        *)
  visible    (* The pointers a thread can reach until its guard ends: those *)
             (* in the structure since the guard was constructed.  It can   *)
             (* walk to them along pointers that were taken out meanwhile.  *)

clientVars == <<linked, visible>>
epochVars  == <<handlerVars, clientVars>>

Init ==
  /\ HandlerInit
  /\ linked = Ptrs
  /\ visible = [t \in Threads |-> {}]

Enter(t) ==
  \/ EnterLoad(t) /\ UNCHANGED clientVars
  \/ /\ EnterStore(t)
     /\ visible' = [visible EXCEPT ![t] = linked]
     /\ UNCHANGED linked

Exit(t) ==
  /\ Leave(t)
  /\ visible' = [visible EXCEPT ![t] = {}]
  /\ UNCHANGED linked

Retire(t, p) ==
  /\ pc[t] \in RetireAt /\ p \in linked
  /\ linked' = linked \ {p}
  /\ DeferFreePointer(t, p)
  /\ UNCHANGED visible

Step(t) ==
  \/ Enter(t) \/ Exit(t)
  \/ \E p \in Ptrs : Retire(t, p)
  \/ FreeOutdatedPtr(t) /\ UNCHANGED clientVars

Destructed == ~alive /\ UNCHANGED epochVars

Next ==
  \/ alive /\ \E t \in Threads : Step(t)
  \/ alive /\ AdvanceGlobalEpoch /\ UNCHANGED clientVars
  \/ Destruct /\ UNCHANGED clientVars
  \/ Destructed

Spec == Init /\ [][Next]_epochVars
-----------------------------------------------------------------------------
(* The variables have their types. *)
TypeOK ==
  /\ HandlerTypeOK
  /\ linked \subseteq Ptrs
  /\ visible \in [Threads -> SUBSET Ptrs]

(* A pointer somebody can still reach is freed only if the thread that     *)
(* retired it had entered at an earlier epoch than the reader: entering,   *)
(* scanning and advancing may interleave as they like (epoch.cc:22-41,     *)
(* 55-63).                                                                 *)
GracePeriod ==
  \A t \in Threads, f \in freed : f.ptr \in visible[t] => f.epoch < local_epoch[t]

(* A retired pointer waits in one place of one bag and is freed once: none *)
(* is lost when a prefix of the bag is erased, and the destructor frees    *)
(* only what FreeOutdatedPtr has not (epoch.cc:12-17, 34-40).              *)
EveryPointerOnce ==
  LET Freed(p)  == {f \in freed : f.ptr = p}
      Places(p) == UNION {{<<t, i>> : i \in {j \in DOMAIN Waiting(t) : Waiting(t)[j].ptr = p}}
                           : t \in Threads}
  IN  \A p \in Ptrs :
        Cardinality(Freed(p)) + Cardinality(Places(p)) = IF p \in linked THEN 0 ELSE 1

(* The free loop may stop at the first pointer that is not outdated: when  *)
(* FreeOutdatedPtr returns, no outdated pointer is left behind it in the   *)
(* bag (epoch.cc:35-39).                                                   *)
NoOutdatedLeftBehind ==
  [][\A t \in Threads : EraseFreed(t) =>
       \A f \in ToSet(to_free_ptr'[t]) : ~Outdated(t, f)]_epochVars

(* A freed pointer is out of everybody's reach: deletion is delayed until  *)
(* no thread can access the pointer any more.                              *)
NoUseAfterFree ==
  \A t \in Threads, f \in freed : f.ptr \notin visible[t]
=============================================================================
