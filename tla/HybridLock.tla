----------------------------- MODULE HybridLock -----------------------------
(***************************************************************************)
(* HybridLock used by threads that call its operations directly, in any    *)
(* order a holder may call them.  One atomic access to state_and_version_  *)
(* is one step: a call that loads the word, asserts on it and stores it    *)
(* takes three, and every other thread may step in between.  The           *)
(* operations carry the code's own conditions; Step adds what a caller     *)
(* owes them.                                                              *)
(***************************************************************************)
EXTENDS HybridWord, FiniteSets

CONSTANTS
  Threads,      (* The users of the lock; a thread that locks shared twice  *)
                (* is two of them.                                          *)
  MaxVersion    (* Bound: no exclusive attempt starts at this version.  A   *)
                (* value >= VERSION_LIMIT bounds nothing: the word wraps.   *)

ASSUME LockAssumption == IsFiniteSet(Threads) /\ MaxVersion \in Nat

VARIABLES
  word,   (* state_and_version_                                             *)
  pc,     (* Where each thread is inside a call.                            *)
  old,    (* The word a call works on: its argument or its last load.       *)
  held    (* What the thread holds, as its calls returned.  Ghost state.    *)

lockVars == <<word, pc, old, held>>

Init ==
  /\ word = InitialWord
  /\ pc   = [t \in Threads |-> "idle"]
  /\ old  = [t \in Threads |-> InitialWord]
  /\ held = [t \in Threads |-> "none"]

Transition(t, from, to) ==
  /\ pc[t] = from
  /\ pc' = [pc EXCEPT ![t] = to]

(* A call returns: its copy of the word goes out of scope. *)
Return(t, from) ==
  /\ Transition(t, from, "idle")
  /\ old' = [old EXCEPT ![t] = InitialWord]

(* compare_exchange(old, desired) succeeds, and leaves t holding h. *)
Exchange(t, desired, h) ==
  /\ word = old[t]
  /\ word' = desired
  /\ held' = [held EXCEPT ![t] = h]

NoExchange == UNCHANGED <<word, held>>

(* A failed assert ends the process, see Next. *)
AssertThen(t, condition, from, to) ==
  Transition(t, from, IF condition THEN to ELSE "aborted")

(***************************************************************************)
(* The attempts.  The caller evaluates StateAndVersion() for the argument, *)
(* then calls; the word may have changed by then.                          *)
(***************************************************************************)
StateAndVersion(t) ==
  /\ Transition(t, "idle", "loaded")
  /\ old' = [old EXCEPT ![t] = word]
  /\ UNCHANGED <<word, held>>

(* Mutants: an attempt that stores without comparing, and one that does    *)
(* not look at the state byte.                                             *)
TryLockExclusiveByStore(t) ==
  /\ Return(t, "loaded")
  /\ IF LockState(old[t]) = UNLOCKED
     THEN /\ word' = SameVersionNewState(old[t], EXCLUSIVE)
          /\ held' = [held EXCEPT ![t] = "exclusive"]
     ELSE NoExchange

TryLockExclusiveAnyState(t) ==
  /\ Return(t, "loaded")
  /\ IF word = old[t]
     THEN Exchange(t, SameVersionNewState(old[t], EXCLUSIVE), "exclusive")
     ELSE NoExchange

TryLockExclusive(t) ==
  /\ Return(t, "loaded")
  /\ IF LockState(old[t]) = UNLOCKED /\ word = old[t]
     THEN Exchange(t, SameVersionNewState(old[t], EXCLUSIVE), "exclusive")
     ELSE NoExchange

(* Mutant: bounds the readers by EXCLUSIVE instead of MAX_SHARED. *)
TryLockSharedNoLimit(t) ==
  /\ Return(t, "loaded")
  /\ IF LockState(old[t]) <= EXCLUSIVE /\ word = old[t]
     THEN Exchange(t, SameVersionNewState(old[t], LockState(old[t]) + 1), "shared")
     ELSE NoExchange

TryLockShared(t) ==
  /\ Return(t, "loaded")
  /\ IF LockState(old[t]) < MAX_SHARED /\ word = old[t]
     THEN Exchange(t, SameVersionNewState(old[t], LockState(old[t]) + 1), "shared")
     ELSE NoExchange

(* compare_exchange_weak may fail although the words are equal. *)
UpgradeLock(t) ==
  /\ Return(t, "loaded")
  /\ \/ /\ LockState(old[t]) = 1
        /\ Exchange(t, SameVersionNewState(old[t], EXCLUSIVE), "exclusive")
     \/ NoExchange

(***************************************************************************)
(* UnlockShared: load, assert, compare_exchange_weak, again until it wins. *)
(***************************************************************************)
UnlockSharedLoad(t) ==
  /\ \E from \in {"idle", "us_load"} : AssertThen(t, IsSharedLocked(word), from, "us_cas")
  /\ old' = [old EXCEPT ![t] = word]
  /\ UNCHANGED <<word, held>>

(* Mutant: the decrement is stored without comparing. *)
UnlockSharedByStore(t) ==
  /\ Return(t, "us_cas")
  /\ word' = SameVersionNewState(old[t], LockState(old[t]) - 1)
  /\ held' = [held EXCEPT ![t] = "none"]

UnlockSharedCas(t) ==
  /\ Return(t, "us_cas")
  /\ Exchange(t, SameVersionNewState(old[t], LockState(old[t]) - 1), "none")

(* Mutant: tries again with the word of the first load. *)
UnlockSharedRetryStale(t) ==
  /\ Transition(t, "us_cas", "us_cas")
  /\ UNCHANGED <<word, old, held>>

UnlockSharedRetry(t) ==
  /\ Transition(t, "us_cas", "us_load")
  /\ UNCHANGED <<word, old, held>>

(***************************************************************************)
(* UnlockExclusive and DowngradeLock: load for the assert, load again for  *)
(* the new word, and a plain store of it.                                  *)
(***************************************************************************)
ReleaseAssert(t, to) ==
  /\ AssertThen(t, IsExclusivelyLocked(word), "idle", to)
  /\ UNCHANGED <<word, old, held>>

ReleaseLoad(t, from, to) ==
  /\ Transition(t, from, to)
  /\ old' = [old EXCEPT ![t] = word]
  /\ UNCHANGED <<word, held>>

(* Mutant: releases without counting the section. *)
ReleaseSameVersion(t, from, newState, h) ==
  /\ Return(t, from)
  /\ word' = SameVersionNewState(old[t], newState)
  /\ held' = [held EXCEPT ![t] = h]

ReleaseStore(t, from, newState, h) ==
  /\ Return(t, from)
  /\ word' = NextVersionNewState(old[t], newState)
  /\ held' = [held EXCEPT ![t] = h]

UnlockExclusive(t) ==
  \/ ReleaseAssert(t, "ux_load")
  \/ ReleaseLoad(t, "ux_load", "ux_store")
  \/ ReleaseStore(t, "ux_store", UNLOCKED, "none")

(* Mutant: downgrades without counting the new reader. *)
DowngradeToUnlocked(t) ==
  \/ ReleaseAssert(t, "dg_load")
  \/ ReleaseLoad(t, "dg_load", "dg_store")
  \/ ReleaseStore(t, "dg_store", UNLOCKED, "shared")

DowngradeLock(t) ==
  \/ ReleaseAssert(t, "dg_load")
  \/ ReleaseLoad(t, "dg_load", "dg_store")
  \/ ReleaseStore(t, "dg_store", 1, "shared")

(***************************************************************************)
(* A thread attempts what it does not hold, upgrades what it holds shared, *)
(* and releases what it holds.                                             *)
(***************************************************************************)
Step(t) ==
  \/ /\ held[t] = "none"
     /\ \/ StateAndVersion(t) \/ TryLockShared(t)
        \/ Version(old[t]) < MaxVersion /\ TryLockExclusive(t)
  \/ /\ held[t] = "shared"
     /\ \/ Version(word) < MaxVersion /\ (StateAndVersion(t) \/ UpgradeLock(t))
        \/ UnlockSharedLoad(t) \/ UnlockSharedCas(t) \/ UnlockSharedRetry(t)
  \/ /\ held[t] = "exclusive"
     /\ UnlockExclusive(t) \/ DowngradeLock(t)

Running == \A t \in Threads : pc[t] # "aborted"

Next == Running /\ \E t \in Threads : Step(t)

Spec == Init /\ [][Next]_lockVars
-----------------------------------------------------------------------------
(***************************************************************************)
(* Properties.                                                             *)
(***************************************************************************)
ExclusiveHolders == {t \in Threads : held[t] = "exclusive"}
SharedHolders    == {t \in Threads : held[t] = "shared"}

(* The variables have their types. *)
TypeOK ==
  /\ word \in Words
  /\ pc \in [Threads -> {"idle", "loaded", "us_load", "us_cas", "ux_load",
                        "ux_store", "dg_load", "dg_store", "aborted"}]
  /\ old \in [Threads -> Words]
  /\ held \in [Threads -> {"none", "shared", "exclusive"}]

(* A thread whose TryLockExclusive or UpgradeLock returned true is the     *)
(* only holder until its release is stored (lock.cc:24-65).                *)
Exclusion ==
  \A t, u \in Threads : held[t] = "exclusive" /\ t # u => held[u] = "none"

(* The asserts of UnlockExclusive, DowngradeLock and UnlockShared never    *)
(* fail for a thread that releases what it holds (lock.cc:32, 38, 72).     *)
AssertionsHold == Running

(* UnlockExclusive and DowngradeLock store a word computed from an earlier *)
(* load, with no compare: at the store the word is still the loaded one,   *)
(* so no change of another thread is lost (lock.cc:33, 40).                *)
ReleaseLosesNoUpdate ==
  \A t \in Threads : pc[t] \in {"ux_store", "dg_store"} => word = old[t]

(* The state byte is the number of shared holders, or EXCLUSIVE while one  *)
(* holds it alone: UNLOCKED means nobody holds it (lock.h:10-12).          *)
StateCountsHolders ==
  LockState(word) = IF ExclusiveHolders # {} THEN EXCLUSIVE
                    ELSE Cardinality(SharedHolders)

(* It stays so until the version wraps: only the end of a section at the   *)
(* last version, whose carry goes into the state byte, may make it count a *)
(* reader that nobody is (lock.h:50-52).                                   *)
Wraps == Version(word) = VERSION_LIMIT - 1 /\ Version(word)' = 0

ExactUntilTheWrap ==
  /\ StateCountsHolders
  /\ [][StateCountsHolders => StateCountsHolders' \/ Wraps]_lockVars

(* After that it counts one reader more than there are, for good, but      *)
(* never one less and never two more: the carry is OR-ed to the byte, and  *)
(* nobody who is not counted gets in (lock.h:50-52, lock.cc:24-78).        *)
CountsAtMostOneTooMany ==
  IF ExclusiveHolders # {} THEN LockState(word) = EXCLUSIVE
  ELSE LockState(word) - Cardinality(SharedHolders) \in {0, 1}

(* The word and the calls' results implement the reader-writer lock of     *)
(* ReadWriteLock: every step is one of its operations or changes nothing a *)
(* caller sees.                                                            *)
RW == INSTANCE ReadWriteLock WITH
        writers <- ExclusiveHolders,
        readers <- SharedHolders,
        version <- Version(word)

ImplementsReadWriteLock == RW!Spec
=============================================================================
