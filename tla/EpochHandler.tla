---------------------------- MODULE EpochHandler ----------------------------
(***************************************************************************)
(* EpochHandler and EpochGuard: the calls a thread makes with its slot.    *)
(* One access to an atomic is one step; what a thread does to its own bag  *)
(* is not seen by the others and goes with the step before it.  Who calls  *)
(* them, and when, is up to the modules that use this one.                 *)
(***************************************************************************)
EXTENDS SequencesExt, Integers, FiniteSets

CONSTANTS
  no_threads,   (* The slots of the handler, one per thread.                *)
  Ptrs,         (* The pointers that may be deferred.                       *)
  MAX_VALUE,    (* The local epoch of a thread outside its guard (~0ULL).   *)
  MaxEpoch      (* Bound: the global epoch stops here.                      *)

Threads == 0 .. no_threads - 1
Epochs  == 0 .. MaxEpoch

ASSUME EpochAssumption ==
  no_threads \in Nat \ {0} /\ MaxEpoch \in Nat /\ MAX_VALUE \in Nat \ Epochs

ToFreePointer == [ptr : Ptrs, epoch : Epochs \union {MAX_VALUE}]

VARIABLES
  global_epoch,
  local_epoch,   (* One slot per thread.                                    *)
  to_free_ptr,   (* One bag per thread, in the order of the deferrals.      *)
  pc,            (* Outside a guard, inside one, or within a call.          *)
  reg,           (* What the call has loaded: global_epoch, or min_epoch.   *)
  idx,           (* The loop counter of FreeOutdatedPtr.                    *)
  freed,         (* What was given to free().  Ghost state.                 *)
  alive          (* The handler has not been destructed.                    *)

slotVars    == <<global_epoch, local_epoch>>
callVars    == <<pc, reg, idx>>
heapVars    == <<to_free_ptr, freed>>
handlerVars == <<slotVars, callVars, heapVars, alive>>

HandlerInit ==
  /\ global_epoch = 0
  /\ local_epoch = [t \in Threads |-> 0]
  /\ to_free_ptr = [t \in Threads |-> <<>>]
  /\ pc    = [t \in Threads |-> "outside"]
  /\ reg   = [t \in Threads |-> 0]
  /\ idx   = [t \in Threads |-> 0]
  /\ freed = {}
  /\ alive = TRUE

Go(t, from, to) ==
  /\ pc[t] = from
  /\ pc' = [pc EXCEPT ![t] = to]

Set(t, value, i) ==
  /\ reg' = [reg EXCEPT ![t] = value]
  /\ idx' = [idx EXCEPT ![t] = i]

(***************************************************************************)
(* EpochGuard: the constructor loads the global epoch and then stores it,  *)
(* the destructor stores MAX_VALUE.                                        *)
(***************************************************************************)
(* Mutant: takes the epoch after the current one. *)
EnterLoadNext(t) ==
  /\ Go(t, "outside", "entering")
  /\ Set(t, global_epoch + 1, 0)
  /\ UNCHANGED <<slotVars, heapVars, alive>>

EnterLoad(t) ==
  /\ Go(t, "outside", "entering")
  /\ Set(t, global_epoch, 0)
  /\ UNCHANGED <<slotVars, heapVars, alive>>

EnterStore(t) ==
  /\ Go(t, "entering", "inside")
  /\ local_epoch' = [local_epoch EXCEPT ![t] = reg[t]]
  /\ Set(t, 0, 0)
  /\ UNCHANGED <<global_epoch, heapVars, alive>>

Leave(t) ==
  /\ Go(t, "inside", "outside")
  /\ local_epoch' = [local_epoch EXCEPT ![t] = MAX_VALUE]
  /\ UNCHANGED <<global_epoch, reg, idx, heapVars, alive>>

(* Mutant: the newest pointer goes to the front of the bag. *)
DeferInFront(t, p) ==
  /\ to_free_ptr' = [to_free_ptr EXCEPT ![t] = <<[ptr |-> p, epoch |-> local_epoch[t]]>> \o @]
  /\ UNCHANGED <<slotVars, callVars, freed, alive>>

DeferFreePointer(t, p) ==
  /\ to_free_ptr' = [to_free_ptr EXCEPT ![t] = Append(@, [ptr |-> p, epoch |-> local_epoch[t]])]
  /\ UNCHANGED <<slotVars, callVars, freed, alive>>

AdvanceGlobalEpoch ==
  /\ global_epoch < MaxEpoch
  /\ global_epoch' = global_epoch + 1
  /\ UNCHANGED <<local_epoch, callVars, heapVars, alive>>

(***************************************************************************)
(* FreeOutdatedPtr: one load per slot for the minimum, then free() down    *)
(* the thread's bag to the first pointer that is not below it.             *)
(***************************************************************************)
ScanBegin(t) ==
  /\ Go(t, "outside", "scanning")
  /\ Set(t, MAX_VALUE, 0)
  /\ UNCHANGED <<slotVars, heapVars, alive>>

ScanSlot(t) ==
  LET min_epoch == IF local_epoch[idx[t]] < reg[t] THEN local_epoch[idx[t]] ELSE reg[t]
      last      == idx[t] = no_threads - 1
  IN  /\ Go(t, "scanning", IF last THEN "freeing" ELSE "scanning")
      /\ Set(t, min_epoch, IF last THEN 0 ELSE idx[t] + 1)
      /\ UNCHANGED <<slotVars, heapVars, alive>>

(* Mutant: frees the pointers of the minimum epoch, too. *)
OutdatedOrEqual(t, f) == f.epoch <= reg[t]

Outdated(t, f) == f.epoch < reg[t]

AtOutdated(t) ==
  idx[t] < Len(to_free_ptr[t]) /\ Outdated(t, to_free_ptr[t][idx[t] + 1])

FreeNext(t) ==
  /\ pc[t] = "freeing" /\ AtOutdated(t)
  /\ freed' = freed \union {to_free_ptr[t][idx[t] + 1]}
  /\ Set(t, reg[t], idx[t] + 1)
  /\ UNCHANGED <<slotVars, pc, to_free_ptr, alive>>

(* Mutant: what was freed stays in the bag. *)
EraseNothing(t) ==
  /\ Go(t, "freeing", "outside") /\ ~AtOutdated(t)
  /\ Set(t, 0, 0)
  /\ UNCHANGED <<slotVars, heapVars, alive>>

EraseFreed(t) ==
  /\ Go(t, "freeing", "outside") /\ ~AtOutdated(t)
  /\ to_free_ptr' = [to_free_ptr EXCEPT ![t] = SubSeq(@, idx[t] + 1, Len(@))]
  /\ Set(t, 0, 0)
  /\ UNCHANGED <<slotVars, freed, alive>>

(* ~EpochHandler, once the threads that use the handler have come to rest. *)
Destruct ==
  /\ alive /\ \A t \in Threads : pc[t] = "outside"
  /\ alive' = FALSE
  /\ freed' = freed \union UNION {ToSet(to_free_ptr[t]) : t \in Threads}
  /\ to_free_ptr' = [t \in Threads |-> <<>>]
  /\ UNCHANGED <<slotVars, callVars>>

FreeOutdatedPtr(t) ==
  ScanBegin(t) \/ ScanSlot(t) \/ FreeNext(t) \/ EraseFreed(t)
-----------------------------------------------------------------------------
(* The variables of the handler have their types. *)
HandlerTypeOK ==
  /\ global_epoch \in Epochs
  /\ local_epoch \in [Threads -> Epochs \union {MAX_VALUE}]
  /\ DOMAIN to_free_ptr = Threads
  /\ \A t \in Threads : to_free_ptr[t] \in Seq(ToFreePointer)
  /\ pc \in [Threads -> {"outside", "entering", "inside", "scanning", "freeing"}]
  /\ reg \in [Threads -> Epochs \union {MAX_VALUE}]
  /\ idx \in [Threads -> Nat]
  /\ freed \subseteq ToFreePointer
  /\ alive \in BOOLEAN

(* What waits in a bag: in the free loop, the pointers not freed yet. *)
Waiting(t) ==
  IF pc[t] = "freeing" THEN SubSeq(to_free_ptr[t], idx[t] + 1, Len(to_free_ptr[t]))
                       ELSE to_free_ptr[t]
=============================================================================
