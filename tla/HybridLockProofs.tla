-------------------------- MODULE HybridLockProofs --------------------------
(***************************************************************************)
(* Exclusion and the asserts of HybridLock, for any number of threads, any *)
(* reader limit and any version width: also after the version has wrapped, *)
(* when the state byte no longer counts the readers exactly.               *)
(***************************************************************************)
EXTENDS HybridLock, FiniteSetTheorems, TLAPS

USE DEF UNLOCKED, EXCLUSIVE

(* Where a thread is inside a release tells what it holds and loaded.      *)
ReleaseIsOwed(t) ==
  /\ pc[t] \in {"ux_load", "ux_store", "dg_load", "dg_store"} => held[t] = "exclusive"
  /\ pc[t] \in {"us_load", "us_cas"} => held[t] = "shared"
  /\ pc[t] \in {"ux_store", "dg_store"} => old[t] = word
  /\ pc[t] = "us_cas" => IsSharedLocked(old[t])

(* An exclusive holder is alone and the state byte says so; without one,   *)
(* the state byte counts the shared holders or one more, and at most the   *)
(* limit.                                                                  *)
ExclusiveIsAlone ==
  \A t \in Threads : held[t] = "exclusive" =>
     /\ LockState(word) = EXCLUSIVE
     /\ \A u \in Threads \ {t} : held[u] = "none"

SharedAreCounted ==
  (\A t \in Threads : held[t] # "exclusive") =>
     /\ LockState(word) <= MAX_SHARED
     /\ Cardinality(SharedHolders) <= LockState(word)
     /\ LockState(word) <= Cardinality(SharedHolders) + 1

IInv ==
  /\ TypeOK
  /\ AssertionsHold
  /\ \A t \in Threads : ReleaseIsOwed(t)
  /\ ExclusiveIsAlone
  /\ SharedAreCounted
-----------------------------------------------------------------------------
(* The new word keeps the version and has the new state byte.              *)
LEMMA SameVersionWord ==
  ASSUME NEW v \in Words, NEW s \in UNLOCKED .. EXCLUSIVE
  PROVE  /\ SameVersionNewState(v, s) \in Words
         /\ LockState(SameVersionNewState(v, s)) = s
BY WordAssumption DEF Words, SameVersionNewState, LockState, Version

(* A release leaves the state byte at the value it asks for or, when the   *)
(* version wraps, at 1.                                                    *)
LEMMA NextVersionWord ==
  ASSUME NEW v \in Words, NEW s \in {UNLOCKED, 1}
  PROVE  /\ NextVersionNewState(v, s) \in Words
         /\ LockState(NextVersionNewState(v, s)) \in {s, 1}
         /\ LockState(NextVersionNewState(v, s)) <= MAX_SHARED
<1>1. s + 1 - (s % 2) = 1
  OBVIOUS
<1>2. QED
  BY <1>1, WordAssumption DEF Words, NextVersionNewState, LockState, Version

LEMMA InitialWordType == InitialWord \in Words /\ LockState(InitialWord) = UNLOCKED
BY WordAssumption DEF Words, InitialWord, LockState

LEMMA HoldersAreFinite ==
  /\ IsFiniteSet(SharedHolders)
  /\ Cardinality(SharedHolders) \in Nat
<1>1. SharedHolders \in SUBSET Threads
  BY DEF SharedHolders
<1>2. QED
  BY <1>1, LockAssumption, FS_Subset, FS_CardinalityType

(* How the number of shared holders changes with what t holds.             *)
LEMMA HoldersChange ==
  ASSUME TypeOK, NEW t \in Threads, NEW h \in {"none", "shared", "exclusive"},
         held' = [held EXCEPT ![t] = h]
  PROVE  /\ Cardinality(SharedHolders') \in Nat
         /\ held[t] # "shared" /\ h = "shared" =>
              Cardinality(SharedHolders') = Cardinality(SharedHolders) + 1
         /\ held[t] = "shared" /\ h # "shared" =>
              Cardinality(SharedHolders') = Cardinality(SharedHolders) - 1
         /\ held[t] # "shared" /\ h # "shared" =>
              Cardinality(SharedHolders') = Cardinality(SharedHolders)
<1>1. held \in [Threads -> {"none", "shared", "exclusive"}]
  BY DEF TypeOK
<1>2. SharedHolders' = IF h = "shared" THEN SharedHolders \cup {t} ELSE SharedHolders \ {t}
  BY <1>1 DEF SharedHolders
<1>3. t \in SharedHolders <=> held[t] = "shared"
  BY DEF SharedHolders
<1>4. QED
  BY <1>2, <1>3, HoldersAreFinite, FS_AddElement, FS_RemoveElement, FS_CardinalityType
-----------------------------------------------------------------------------
(***************************************************************************)
(* Two kinds of step: t changes nothing but its own pc and old, or it      *)
(* replaces the word and returns.                                          *)
(***************************************************************************)
OthersInPlace(t) ==
  \A u \in Threads \ {t} : pc'[u] = pc[u] /\ old'[u] = old[u] /\ held'[u] = held[u]

LEMMA QuietStep ==
  ASSUME IInv, NEW t \in Threads, TypeOK', OthersInPlace(t),
         UNCHANGED <<word, held>>, pc'[t] # "aborted", ReleaseIsOwed(t)'
  PROVE  IInv'
<1>1. AssertionsHold'
  BY DEF IInv, AssertionsHold, Running, OthersInPlace
<1>2. \A u \in Threads : ReleaseIsOwed(u)'
  BY DEF IInv, ReleaseIsOwed, OthersInPlace
<1>3. ExclusiveIsAlone' /\ SharedAreCounted'
  BY DEF IInv, ExclusiveIsAlone, SharedAreCounted, SharedHolders
<1>4. QED
  BY <1>1, <1>2, <1>3 DEF IInv

LEMMA ReplacingStep ==
  ASSUME IInv, NEW t \in Threads, TypeOK', OthersInPlace(t), pc'[t] = "idle",
         \A u \in Threads \ {t} : held[u] # "exclusive",
         ExclusiveIsAlone', SharedAreCounted'
  PROVE  IInv'
<1>1. AssertionsHold'
  BY DEF IInv, AssertionsHold, Running, OthersInPlace
<1>2. \A u \in Threads : ReleaseIsOwed(u)'
  BY DEF IInv, ReleaseIsOwed, OthersInPlace
<1>3. QED
  BY <1>1, <1>2 DEF IInv
-----------------------------------------------------------------------------
(* The steps that load the word, fail an attempt or begin a release.       *)
LEMMA StateAndVersionStep ==
  ASSUME IInv, NEW t \in Threads, held[t] # "exclusive", StateAndVersion(t)
  PROVE  IInv'
<1> USE DEF IInv, TypeOK, StateAndVersion, Transition
<1>1. TypeOK' /\ OthersInPlace(t)
  BY DEF OthersInPlace
<1>2. pc'[t] = "loaded"
  OBVIOUS
<1>3. ReleaseIsOwed(t)'
  BY <1>2 DEF ReleaseIsOwed
<1>4. QED
  BY <1>1, <1>2, <1>3, QuietStep

LEMMA FailedAttempt ==
  ASSUME IInv, NEW t \in Threads, Return(t, "loaded"), NoExchange
  PROVE  IInv'
<1> USE DEF IInv, TypeOK, Return, Transition, NoExchange
<1>1. TypeOK' /\ OthersInPlace(t)
  BY InitialWordType DEF OthersInPlace
<1>2. pc'[t] = "idle"
  OBVIOUS
<1>3. ReleaseIsOwed(t)'
  BY <1>2 DEF ReleaseIsOwed
<1>4. QED
  BY <1>1, <1>2, <1>3, QuietStep

LEMMA UnlockSharedLoadStep ==
  ASSUME IInv, NEW t \in Threads, held[t] = "shared", UnlockSharedLoad(t)
  PROVE  IInv'
<1> USE DEF IInv
<1>1. IsSharedLocked(word)
  <2>1. \A u \in Threads : held[u] # "exclusive"
    BY DEF ExclusiveIsAlone
  <2>2. t \in SharedHolders
    BY DEF SharedHolders
  <2>3. Cardinality(SharedHolders) # 0
    BY <2>2, HoldersAreFinite, FS_EmptySet
  <2>4. Cardinality(SharedHolders) <= LockState(word) /\ LockState(word) <= MAX_SHARED
    BY <2>1 DEF SharedAreCounted
  <2>5. LockState(word) \in Nat
    BY WordAssumption DEF TypeOK, Words, LockState
  <2>6. QED
    BY <2>3, <2>4, <2>5, HoldersAreFinite, WordAssumption DEF IsSharedLocked
<1> USE DEF TypeOK, UnlockSharedLoad, AssertThen, Transition
<1>2. TypeOK' /\ OthersInPlace(t)
  BY <1>1 DEF OthersInPlace
<1>3. pc'[t] = "us_cas" /\ old'[t] = word
  BY <1>1
<1>4. ReleaseIsOwed(t)'
  BY <1>1, <1>3 DEF ReleaseIsOwed, IsSharedLocked, LockState
<1>5. QED
  BY <1>2, <1>3, <1>4, QuietStep

LEMMA UnlockSharedRetryStep ==
  ASSUME IInv, NEW t \in Threads, held[t] = "shared", UnlockSharedRetry(t)
  PROVE  IInv'
<1> USE DEF IInv, TypeOK, UnlockSharedRetry, Transition
<1>1. TypeOK' /\ OthersInPlace(t)
  BY DEF OthersInPlace
<1>2. pc'[t] = "us_load"
  OBVIOUS
<1>3. ReleaseIsOwed(t)'
  BY <1>2 DEF ReleaseIsOwed
<1>4. QED
  BY <1>1, <1>2, <1>3, QuietStep

LEMMA ReleaseAssertStep ==
  ASSUME IInv, NEW t \in Threads, held[t] = "exclusive",
         NEW to \in {"ux_load", "dg_load"}, ReleaseAssert(t, to)
  PROVE  IInv'
<1> USE DEF IInv
<1>1. IsExclusivelyLocked(word)
  BY DEF ExclusiveIsAlone, IsExclusivelyLocked
<1> USE DEF TypeOK, ReleaseAssert, AssertThen, Transition
<1>2. TypeOK' /\ OthersInPlace(t)
  BY <1>1 DEF OthersInPlace
<1>3. pc'[t] = to
  BY <1>1
<1>4. ReleaseIsOwed(t)'
  BY <1>3 DEF ReleaseIsOwed
<1>5. QED
  BY <1>2, <1>3, <1>4, QuietStep

LEMMA ReleaseLoadStep ==
  ASSUME IInv, NEW t \in Threads, held[t] = "exclusive",
         NEW from \in {"ux_load", "dg_load"}, NEW to \in {"ux_store", "dg_store"},
         ReleaseLoad(t, from, to)
  PROVE  IInv'
<1> USE DEF IInv, TypeOK, ReleaseLoad, Transition
<1>1. TypeOK' /\ OthersInPlace(t)
  BY DEF OthersInPlace
<1>2. pc'[t] = to /\ old'[t] = word'
  OBVIOUS
<1>3. ReleaseIsOwed(t)'
  BY <1>2 DEF ReleaseIsOwed
<1>4. QED
  BY <1>1, <1>2, <1>3, QuietStep
-----------------------------------------------------------------------------
(* The steps that replace the word.                                        *)
LEMMA TakeExclusive ==
  ASSUME IInv, NEW t \in Threads, Return(t, "loaded"),
         Exchange(t, SameVersionNewState(old[t], EXCLUSIVE), "exclusive"),
         \A u \in Threads \ {t} : held[u] = "none"
  PROVE  IInv'
<1> USE DEF IInv, TypeOK, Return, Transition, Exchange
<1>1. word' \in Words /\ LockState(word') = EXCLUSIVE
  BY SameVersionWord, WordAssumption
<1>2. TypeOK' /\ OthersInPlace(t)
  BY <1>1, InitialWordType DEF OthersInPlace
<1>3. pc'[t] = "idle" /\ held'[t] = "exclusive"
  OBVIOUS
<1>4. ExclusiveIsAlone'
  BY <1>1, <1>2, <1>3 DEF ExclusiveIsAlone, OthersInPlace, LockState
<1>5. SharedAreCounted'
  BY <1>3 DEF SharedAreCounted
<1>6. QED
  BY <1>2, <1>3, <1>4, <1>5, ReplacingStep

(* t replaces the word by one that no thread holds exclusively.            *)
LEMMA LeaveUnexclusive ==
  ASSUME IInv, NEW t \in Threads, NEW h \in {"none", "shared"}, NEW from,
         Return(t, from), held' = [held EXCEPT ![t] = h], word' \in Words,
         \A u \in Threads \ {t} : held[u] # "exclusive",
         LockState(word') <= MAX_SHARED,
         Cardinality(SharedHolders') <= LockState(word'),
         LockState(word') <= Cardinality(SharedHolders') + 1
  PROVE  IInv'
<1> USE DEF IInv, TypeOK, Return, Transition
<1>1. TypeOK' /\ OthersInPlace(t)
  BY InitialWordType DEF OthersInPlace
<1>2. pc'[t] = "idle" /\ held'[t] = h
  OBVIOUS
<1>3. \A u \in Threads : held'[u] # "exclusive"
  BY <1>1, <1>2 DEF OthersInPlace
<1>4. ExclusiveIsAlone' /\ SharedAreCounted'
  BY <1>3 DEF ExclusiveIsAlone, SharedAreCounted, SharedHolders, LockState
<1>5. QED
  BY <1>1, <1>2, <1>4, ReplacingStep
-----------------------------------------------------------------------------
(* The operations of a thread, by what it holds.                           *)
LEMMA AttemptStep ==
  ASSUME IInv, NEW t \in Threads, held[t] = "none",
         TryLockShared(t) \/ TryLockExclusive(t)
  PROVE  IInv'
<1> USE DEF IInv
<1>1. old[t] \in Words /\ LockState(old[t]) \in UNLOCKED .. EXCLUSIVE
  BY DEF TypeOK, Words, LockState
<1>2. ASSUME word = old[t], LockState(word) <= MAX_SHARED
      PROVE  /\ \A u \in Threads : held[u] # "exclusive"
             /\ Cardinality(SharedHolders) <= LockState(word)
             /\ LockState(word) <= Cardinality(SharedHolders) + 1
  <2>1. \A u \in Threads : held[u] # "exclusive"
    BY <1>2, WordAssumption DEF ExclusiveIsAlone
  <2>2. QED
    BY <2>1 DEF SharedAreCounted
<1>3. CASE Return(t, "loaded") /\ NoExchange
  BY <1>3, FailedAttempt
<1>4. ASSUME Return(t, "loaded"), LockState(old[t]) = UNLOCKED,
             Exchange(t, SameVersionNewState(old[t], EXCLUSIVE), "exclusive")
      PROVE  IInv'
  <2>1. word = old[t]
    BY <1>4 DEF Exchange
  <2>2. Cardinality(SharedHolders) = 0
    BY <1>2, <1>4, <2>1, HoldersAreFinite, WordAssumption
  <2>3. \A u \in Threads : held[u] = "none"
    <3>1. SharedHolders = {}
      BY <2>2, HoldersAreFinite, FS_EmptySet
    <3>2. QED
      BY <1>2, <1>4, <2>1, <3>1, WordAssumption DEF SharedHolders, TypeOK
  <2>4. QED
    BY <1>4, <2>3, TakeExclusive
<1>5. ASSUME Return(t, "loaded"), LockState(old[t]) < MAX_SHARED,
             Exchange(t, SameVersionNewState(old[t], LockState(old[t]) + 1), "shared")
      PROVE  IInv'
  <2>1. word = old[t]
    BY <1>5 DEF Exchange
  <2>2. /\ word' \in Words
        /\ LockState(word') = LockState(word) + 1
    BY <1>1, <1>5, <2>1, SameVersionWord, WordAssumption DEF Exchange
  <2>3. held' = [held EXCEPT ![t] = "shared"]
    BY <1>5 DEF Exchange
  <2>4. Cardinality(SharedHolders') = Cardinality(SharedHolders) + 1
    BY <2>3, HoldersChange
  <2>5. /\ \A u \in Threads : held[u] # "exclusive"
        /\ Cardinality(SharedHolders) <= LockState(word)
        /\ LockState(word) <= Cardinality(SharedHolders) + 1
    BY <1>1, <1>2, <1>5, <2>1, WordAssumption
  <2>6. /\ LockState(word') <= MAX_SHARED
        /\ Cardinality(SharedHolders') <= LockState(word')
        /\ LockState(word') <= Cardinality(SharedHolders') + 1
    BY <1>1, <1>5, <2>1, <2>2, <2>4, <2>5, HoldersAreFinite, WordAssumption
  <2>7. QED
    BY <1>5, <2>2, <2>3, <2>5, <2>6, LeaveUnexclusive
<1>6. QED
  BY <1>3, <1>4, <1>5 DEF TryLockShared, TryLockExclusive

LEMMA UpgradeStep ==
  ASSUME IInv, NEW t \in Threads, held[t] = "shared", UpgradeLock(t)
  PROVE  IInv'
<1> USE DEF IInv
<1>1. CASE Return(t, "loaded") /\ NoExchange
  BY <1>1, FailedAttempt
<1>2. ASSUME Return(t, "loaded"), LockState(old[t]) = 1,
             Exchange(t, SameVersionNewState(old[t], EXCLUSIVE), "exclusive")
      PROVE  IInv'
  <2>1. \A u \in Threads : held[u] # "exclusive"
    BY DEF ExclusiveIsAlone
  <2>2. Cardinality(SharedHolders) <= 1
    BY <1>2, <2>1 DEF SharedAreCounted, Exchange
  <2>3. Cardinality(SharedHolders \ {t}) = 0
    <3>1. t \in SharedHolders
      BY DEF SharedHolders
    <3>2. Cardinality(SharedHolders \ {t}) = Cardinality(SharedHolders) - 1
      BY <3>1, HoldersAreFinite, FS_RemoveElement
    <3>3. Cardinality(SharedHolders) # 0
      BY <3>1, HoldersAreFinite, FS_EmptySet
    <3>4. QED
      BY <2>2, <3>2, <3>3, HoldersAreFinite
  <2>4. SharedHolders \ {t} = {}
    BY <2>3, HoldersAreFinite, FS_RemoveElement, FS_EmptySet
  <2>5. \A u \in Threads \ {t} : held[u] = "none"
    BY <2>1, <2>4 DEF SharedHolders, TypeOK
  <2>6. QED
    BY <1>2, <2>5, TakeExclusive
<1>3. QED
  BY <1>1, <1>2 DEF UpgradeLock

LEMMA UnlockSharedCasStep ==
  ASSUME IInv, NEW t \in Threads, held[t] = "shared", UnlockSharedCas(t)
  PROVE  IInv'
<1> USE DEF IInv
<1>1. Return(t, "us_cas") /\ word = old[t] /\ held' = [held EXCEPT ![t] = "none"]
  BY DEF UnlockSharedCas, Exchange
<1>2. IsSharedLocked(word)
  BY <1>1 DEF ReleaseIsOwed, Return, Transition
<1>3. word \in Words /\ LockState(word) \in 1 .. MAX_SHARED
  BY <1>2, WordAssumption DEF TypeOK, Words, LockState, IsSharedLocked
<1>4. word' \in Words /\ LockState(word') = LockState(word) - 1
  BY <1>1, <1>3, SameVersionWord, WordAssumption DEF UnlockSharedCas, Exchange
<1>5. /\ \A u \in Threads : held[u] # "exclusive"
      /\ Cardinality(SharedHolders) <= LockState(word)
      /\ LockState(word) <= Cardinality(SharedHolders) + 1
  BY DEF ExclusiveIsAlone, SharedAreCounted
<1>6. Cardinality(SharedHolders') = Cardinality(SharedHolders) - 1
  BY <1>1, HoldersChange
<1>7. /\ LockState(word') <= MAX_SHARED
      /\ Cardinality(SharedHolders') <= LockState(word')
      /\ LockState(word') <= Cardinality(SharedHolders') + 1
  BY <1>3, <1>4, <1>5, <1>6, HoldersAreFinite, WordAssumption
<1>8. QED
  BY <1>1, <1>4, <1>5, <1>7, LeaveUnexclusive

LEMMA ReleaseStoreStep ==
  ASSUME IInv, NEW t \in Threads, held[t] = "exclusive", NEW from,
         NEW s \in {UNLOCKED, 1}, NEW h \in {"none", "shared"},
         s = 1 <=> h = "shared", ReleaseStore(t, from, s, h)
  PROVE  IInv'
<1> USE DEF IInv
<1>1. /\ Return(t, from)
      /\ word' = NextVersionNewState(old[t], s)
      /\ held' = [held EXCEPT ![t] = h]
  BY DEF ReleaseStore
<1>2. old[t] \in Words
  BY DEF TypeOK
<1>3. /\ word' \in Words
      /\ LockState(word') \in {s, 1}
      /\ LockState(word') <= MAX_SHARED
  BY <1>1, <1>2, NextVersionWord
<1>4. \A u \in Threads \ {t} : held[u] = "none"
  BY DEF ExclusiveIsAlone
<1>5. Cardinality(SharedHolders) = 0
  <2>1. SharedHolders = {}
    BY <1>4 DEF SharedHolders
  <2>2. QED
    BY <2>1, FS_EmptySet
<1>6. Cardinality(SharedHolders') = s
  <2>1. h \in {"none", "shared", "exclusive"} /\ held[t] # "shared"
    OBVIOUS
  <2>2. CASE h = "shared"
    <3>1. Cardinality(SharedHolders') = Cardinality(SharedHolders) + 1
      BY <1>1, <2>1, <2>2, HoldersChange
    <3>2. QED
      BY <1>5, <2>2, <3>1
  <2>3. CASE h # "shared"
    BY <1>1, <1>5, <2>1, <2>3, HoldersChange
  <2>4. QED
    BY <2>2, <2>3
<1>7. /\ Cardinality(SharedHolders') <= LockState(word')
      /\ LockState(word') <= Cardinality(SharedHolders') + 1
  BY <1>3, <1>6
<1>8. QED
  BY <1>1, <1>3, <1>4, <1>7, LeaveUnexclusive
-----------------------------------------------------------------------------
LEMMA InitIInv == Init => IInv
<1> SUFFICES ASSUME Init PROVE IInv
  OBVIOUS
<1> USE DEF Init
<1>1. TypeOK
  BY InitialWordType DEF TypeOK
<1>2. AssertionsHold /\ \A t \in Threads : ReleaseIsOwed(t)
  BY DEF AssertionsHold, Running, ReleaseIsOwed
<1>3. SharedHolders = {}
  BY DEF SharedHolders
<1>4. ExclusiveIsAlone /\ SharedAreCounted
  BY <1>3, InitialWordType, FS_EmptySet, WordAssumption
     DEF ExclusiveIsAlone, SharedAreCounted
<1>5. QED
  BY <1>1, <1>2, <1>4 DEF IInv

LEMMA StepIInv ==
  ASSUME IInv, NEW t \in Threads, Step(t)
  PROVE  IInv'
<1>1. ASSUME held[t] = "none",
             \/ StateAndVersion(t) \/ TryLockShared(t)
             \/ Version(old[t]) < MaxVersion /\ TryLockExclusive(t)
      PROVE  IInv'
  BY <1>1, StateAndVersionStep, AttemptStep
<1>2. ASSUME held[t] = "shared", StateAndVersion(t) \/ UpgradeLock(t)
      PROVE  IInv'
  BY <1>2, StateAndVersionStep, UpgradeStep
<1>3. ASSUME held[t] = "shared",
             UnlockSharedLoad(t) \/ UnlockSharedCas(t) \/ UnlockSharedRetry(t)
      PROVE  IInv'
  BY <1>3, UnlockSharedLoadStep, UnlockSharedCasStep, UnlockSharedRetryStep
<1>4. ASSUME held[t] = "exclusive", UnlockExclusive(t)
      PROVE  IInv'
  <2>1. CASE ReleaseAssert(t, "ux_load")
    BY <1>4, <2>1, ReleaseAssertStep
  <2>2. CASE ReleaseLoad(t, "ux_load", "ux_store")
    BY <1>4, <2>2, ReleaseLoadStep
  <2>3. CASE ReleaseStore(t, "ux_store", UNLOCKED, "none")
    BY <1>4, <2>3, ReleaseStoreStep
  <2>4. QED
    BY <1>4, <2>1, <2>2, <2>3 DEF UnlockExclusive
<1>5. ASSUME held[t] = "exclusive", DowngradeLock(t)
      PROVE  IInv'
  <2>1. CASE ReleaseAssert(t, "dg_load")
    BY <1>5, <2>1, ReleaseAssertStep
  <2>2. CASE ReleaseLoad(t, "dg_load", "dg_store")
    BY <1>5, <2>2, ReleaseLoadStep
  <2>3. CASE ReleaseStore(t, "dg_store", 1, "shared")
    BY <1>5, <2>3, ReleaseStoreStep
  <2>4. QED
    BY <1>5, <2>1, <2>2, <2>3 DEF DowngradeLock
<1>6. QED
  BY <1>1, <1>2, <1>3, <1>4, <1>5 DEF Step

LEMMA NextIInv == IInv /\ [Next]_lockVars => IInv'
<1> SUFFICES ASSUME IInv, [Next]_lockVars PROVE IInv'
  OBVIOUS
<1>1. CASE Next
  BY <1>1, StepIInv DEF Next
<1>2. CASE UNCHANGED lockVars
  BY <1>2 DEF lockVars, IInv, TypeOK, AssertionsHold, Running, ReleaseIsOwed,
              ExclusiveIsAlone, SharedAreCounted, SharedHolders
<1>3. QED
  BY <1>1, <1>2

(* The inductive invariant is an invariant of HybridLock.                  *)
THEOREM Invariance == Spec => []IInv
BY InitIInv, NextIInv, PTL DEF Spec

(* The word, the calls and what they hold always have their types: in      *)
(* particular the state byte never leaves UNLOCKED .. EXCLUSIVE.           *)
THEOREM TypeCorrectness == Spec => []TypeOK
<1>1. IInv => TypeOK
  BY DEF IInv
<1>2. QED
  BY <1>1, Invariance, PTL

(* A thread that locked exclusively is alone until its release is stored,  *)
(* for every number of threads and readers, and across version wraps.      *)
THEOREM MutualExclusion == Spec => []Exclusion
<1>1. IInv => Exclusion
  BY DEF IInv, ExclusiveIsAlone, Exclusion
<1>2. QED
  BY <1>1, Invariance, PTL

(* No assert of HybridLock fails for a thread that releases what it holds. *)
THEOREM AssertionsNeverFail == Spec => []AssertionsHold
<1>1. IInv => AssertionsHold
  BY DEF IInv
<1>2. QED
  BY <1>1, Invariance, PTL

(* The plain stores of UnlockExclusive and DowngradeLock overwrite exactly *)
(* the word they were computed from.                                       *)
THEOREM ReleasesLoseNothing == Spec => []ReleaseLosesNoUpdate
<1>1. IInv => ReleaseLosesNoUpdate
  BY DEF IInv, ReleaseIsOwed, ReleaseLosesNoUpdate
<1>2. QED
  BY <1>1, Invariance, PTL

(* The state byte never counts less readers than there are, and at most    *)
(* one more, however often the version wraps.                              *)
THEOREM CountSurvivesTheWrap == Spec => []CountsAtMostOneTooMany
<1>1. IInv => CountsAtMostOneTooMany
  <2> SUFFICES ASSUME IInv PROVE CountsAtMostOneTooMany
    OBVIOUS
  <2>1. CASE ExclusiveHolders # {}
    BY <2>1 DEF IInv, ExclusiveIsAlone, ExclusiveHolders, CountsAtMostOneTooMany
  <2>2. CASE ExclusiveHolders = {}
    <3>1. \A t \in Threads : held[t] # "exclusive"
      BY <2>2 DEF ExclusiveHolders
    <3>2. LockState(word) \in Nat
      BY WordAssumption DEF IInv, TypeOK, Words, LockState
    <3>3. QED
      BY <2>2, <3>1, <3>2, HoldersAreFinite
         DEF IInv, SharedAreCounted, CountsAtMostOneTooMany
  <2>3. QED
    BY <2>1, <2>2
<1>2. QED
  BY <1>1, Invariance, PTL
-----------------------------------------------------------------------------
(***************************************************************************)
(* HybridLock implements ReadWriteLock, also across version wraps.         *)
(***************************************************************************)
(* ReadWriteLock counts with the Cardinality that HybridLock counts with.  *)
LEMMA SameCardinality == \A S : RW!Cardinality(S) = Cardinality(S)
BY DEF RW!Cardinality, Cardinality

(* How the two sets of holders change with what t holds.                   *)
LEMMA HoldersMap ==
  ASSUME TypeOK, NEW t \in Threads, NEW h \in {"none", "shared", "exclusive"},
         held' = [held EXCEPT ![t] = h]
  PROVE  /\ ExclusiveHolders' = IF h = "exclusive" THEN ExclusiveHolders \cup {t}
                                ELSE ExclusiveHolders \ {t}
         /\ SharedHolders' = IF h = "shared" THEN SharedHolders \cup {t}
                             ELSE SharedHolders \ {t}
<1>1. held \in [Threads -> {"none", "shared", "exclusive"}]
  BY DEF TypeOK
<1>2. QED
  BY <1>1 DEF ExclusiveHolders, SharedHolders

(* The version of a released word is the next one modulo the limit.        *)
LEMMA NextVersion ==
  ASSUME NEW v \in Words, NEW s \in {UNLOCKED, 1}
  PROVE  Version(NextVersionNewState(v, s)) = (Version(v) + 1) % VERSION_LIMIT
<1>1. Version(v) \in 0 .. VERSION_LIMIT - 1
  BY DEF Words, Version
<1>2. CASE Version(v) + 1 < VERSION_LIMIT
  BY <1>1, <1>2, WordAssumption DEF NextVersionNewState, Version
<1>3. CASE ~(Version(v) + 1 < VERSION_LIMIT)
  <2>1. Version(v) + 1 = VERSION_LIMIT
    BY <1>1, <1>3, WordAssumption
  <2>2. VERSION_LIMIT % VERSION_LIMIT = 0
    BY WordAssumption
  <2>3. QED
    BY <1>1, <1>3, <2>1, <2>2 DEF NextVersionNewState, Version
<1>4. QED
  BY <1>2, <1>3

(* A word without an exclusive holder bounds the shared ones.              *)
LEMMA NotExclusiveWord ==
  ASSUME IInv, LockState(word) <= MAX_SHARED
  PROVE  /\ ExclusiveHolders = {}
         /\ Cardinality(SharedHolders) <= LockState(word)
<1> USE DEF IInv
<1>1. \A u \in Threads : held[u] # "exclusive"
  <2>1. LockState(word) # EXCLUSIVE
    BY WordAssumption DEF TypeOK, Words, LockState
  <2>2. QED
    BY <2>1 DEF ExclusiveIsAlone
<1>2. QED
  BY <1>1 DEF SharedAreCounted, ExclusiveHolders

LEMMA ExclusiveHolderAlone ==
  ASSUME IInv, NEW t \in Threads, held[t] = "exclusive"
  PROVE  ExclusiveHolders = {t} /\ SharedHolders = {}
BY DEF IInv, ExclusiveIsAlone, ExclusiveHolders, SharedHolders
-----------------------------------------------------------------------------
(* The steps a caller sees, each of them one of ReadWriteLock's.           *)
LEMMA LockedExclusive ==
  ASSUME IInv, NEW t \in Threads, TryLockExclusive(t), ~NoExchange
  PROVE  RW!AcquireExclusive(t)
<1> USE DEF IInv
<1>1. /\ LockState(word) = UNLOCKED
      /\ word' = SameVersionNewState(word, EXCLUSIVE)
      /\ held' = [held EXCEPT ![t] = "exclusive"]
  BY DEF TryLockExclusive, Exchange
<1>2. ExclusiveHolders = {} /\ Cardinality(SharedHolders) = 0
  BY <1>1, NotExclusiveWord, HoldersAreFinite, WordAssumption
<1>3. SharedHolders = {}
  BY <1>2, HoldersAreFinite, FS_EmptySet
<1>4. ExclusiveHolders' = {t} /\ SharedHolders' = {}
  BY <1>1, <1>2, <1>3, HoldersMap
<1>5. Version(word)' = Version(word)
  BY <1>1 DEF SameVersionNewState, Version
<1>6. QED
  BY <1>2, <1>3, <1>4, <1>5 DEF RW!AcquireExclusive

LEMMA LockedShared ==
  ASSUME IInv, NEW t \in Threads, held[t] = "none", TryLockShared(t), ~NoExchange
  PROVE  RW!AcquireShared(t)
<1> USE DEF IInv
<1>1. /\ LockState(word) < MAX_SHARED
      /\ word' = SameVersionNewState(word, LockState(word) + 1)
      /\ held' = [held EXCEPT ![t] = "shared"]
  BY DEF TryLockShared, Exchange
<1>2. LockState(word) \in Nat
  BY WordAssumption DEF TypeOK, Words, LockState
<1>3. /\ ExclusiveHolders = {}
      /\ Cardinality(SharedHolders) < MAX_SHARED
  BY <1>1, <1>2, NotExclusiveWord, HoldersAreFinite, WordAssumption
<1>4. t \notin SharedHolders
  BY DEF SharedHolders
<1>5. ExclusiveHolders' = {} /\ SharedHolders' = SharedHolders \cup {t}
  BY <1>1, <1>3, HoldersMap
<1>6. Version(word)' = Version(word)
  BY <1>1 DEF SameVersionNewState, Version
<1>7. QED
  BY <1>3, <1>4, <1>5, <1>6, SameCardinality DEF RW!AcquireShared

LEMMA Upgraded ==
  ASSUME IInv, NEW t \in Threads, held[t] = "shared", UpgradeLock(t), ~NoExchange
  PROVE  RW!Upgrade(t)
<1> USE DEF IInv
<1>1. /\ LockState(word) = 1
      /\ word' = SameVersionNewState(word, EXCLUSIVE)
      /\ held' = [held EXCEPT ![t] = "exclusive"]
  BY DEF UpgradeLock, Exchange
<1>2. ExclusiveHolders = {} /\ Cardinality(SharedHolders) <= 1
  BY <1>1, NotExclusiveWord, WordAssumption
<1>3. SharedHolders = {t}
  <2>1. t \in SharedHolders
    BY DEF SharedHolders
  <2>2. Cardinality(SharedHolders \ {t}) = Cardinality(SharedHolders) - 1
    BY <2>1, HoldersAreFinite, FS_RemoveElement
  <2>3. /\ IsFiniteSet(SharedHolders \ {t})
        /\ Cardinality(SharedHolders \ {t}) \in Nat
    BY HoldersAreFinite, FS_RemoveElement, FS_CardinalityType
  <2>4. Cardinality(SharedHolders \ {t}) = 0
    BY <1>2, <2>2, <2>3, HoldersAreFinite
  <2>5. SharedHolders \ {t} = {}
    BY <2>3, <2>4, FS_EmptySet
  <2>6. QED
    BY <2>1, <2>5
<1>4. ExclusiveHolders' = {t} /\ SharedHolders' = {}
  BY <1>1, <1>2, <1>3, HoldersMap
<1>5. Version(word)' = Version(word)
  BY <1>1 DEF SameVersionNewState, Version
<1>6. QED
  BY <1>2, <1>3, <1>4, <1>5 DEF RW!Upgrade

LEMMA UnlockedShared ==
  ASSUME IInv, NEW t \in Threads, held[t] = "shared", UnlockSharedCas(t)
  PROVE  RW!ReleaseShared(t)
<1> USE DEF IInv
<1>1. /\ word' = SameVersionNewState(word, LockState(word) - 1)
      /\ held' = [held EXCEPT ![t] = "none"]
  BY DEF UnlockSharedCas, Exchange
<1>2. t \in SharedHolders /\ t \notin ExclusiveHolders
  BY DEF SharedHolders, ExclusiveHolders
<1>3. /\ ExclusiveHolders' = ExclusiveHolders \ {t}
      /\ SharedHolders' = SharedHolders \ {t}
  BY <1>1, HoldersMap
<1>4. Version(word)' = Version(word)
  BY <1>1 DEF SameVersionNewState, Version
<1>5. QED
  BY <1>2, <1>3, <1>4 DEF RW!ReleaseShared

LEMMA ReleasedExclusive ==
  ASSUME IInv, NEW t \in Threads, held[t] = "exclusive",
         NEW from \in {"ux_store", "dg_store"}, NEW s \in {UNLOCKED, 1},
         NEW h \in {"none", "shared"}, ReleaseStore(t, from, s, h)
  PROVE  IF h = "none" THEN RW!ReleaseExclusive(t) ELSE RW!Downgrade(t)
<1> USE DEF IInv
<1>1. /\ pc[t] = from
      /\ word' = NextVersionNewState(old[t], s)
      /\ held' = [held EXCEPT ![t] = h]
  BY DEF ReleaseStore, Return, Transition
<1>2. old[t] = word /\ word \in Words
  BY <1>1 DEF ReleaseIsOwed, TypeOK
<1>3. Version(word)' = (Version(word) + 1) % VERSION_LIMIT
  BY <1>1, <1>2, NextVersion DEF Version
<1>4. RW!EndSection
  BY <1>3 DEF RW!EndSection
<1>5. ExclusiveHolders = {t} /\ SharedHolders = {}
  BY ExclusiveHolderAlone
<1>6. /\ ExclusiveHolders' = {}
      /\ SharedHolders' = IF h = "shared" THEN {t} ELSE {}
  BY <1>1, <1>5, HoldersMap
<1>7. QED
  BY <1>4, <1>5, <1>6 DEF RW!ReleaseExclusive, RW!Downgrade
-----------------------------------------------------------------------------
(* Everything else is no step of ReadWriteLock.                            *)
LEMMA UnseenStep ==
  ASSUME UNCHANGED <<word, held>>
  PROVE  UNCHANGED RW!rwVars
BY DEF RW!rwVars, ExclusiveHolders, SharedHolders

LEMMA InitRefines == Init => RW!Init
BY DEF Init, RW!Init, InitialWord, Version, ExclusiveHolders, SharedHolders

LEMMA StepRefines ==
  ASSUME IInv, NEW t \in Threads, Step(t)
  PROVE  [RW!Next]_RW!rwVars
<1>1. CASE NoExchange
  BY <1>1, UnseenStep DEF NoExchange
<1>2. ASSUME held[t] = "none", ~NoExchange, StateAndVersion(t) \/ TryLockShared(t)
                                             \/ TryLockExclusive(t)
      PROVE  RW!Next
  BY <1>2, LockedShared, LockedExclusive DEF StateAndVersion, NoExchange, RW!Next
<1>3. ASSUME held[t] = "shared", ~NoExchange,
             \/ StateAndVersion(t) \/ UpgradeLock(t)
             \/ UnlockSharedLoad(t) \/ UnlockSharedCas(t) \/ UnlockSharedRetry(t)
      PROVE  RW!Next
  BY <1>3, Upgraded, UnlockedShared
     DEF StateAndVersion, UnlockSharedLoad, UnlockSharedRetry, NoExchange, RW!Next
<1>4. ASSUME held[t] = "exclusive", ~NoExchange, UnlockExclusive(t) \/ DowngradeLock(t)
      PROVE  RW!Next
  <2>1. \/ ReleaseStore(t, "ux_store", UNLOCKED, "none")
        \/ ReleaseStore(t, "dg_store", 1, "shared")
    BY <1>4 DEF UnlockExclusive, DowngradeLock, ReleaseAssert, ReleaseLoad, NoExchange
  <2>2. CASE ReleaseStore(t, "ux_store", UNLOCKED, "none")
    <3>1. RW!ReleaseExclusive(t)
      BY <1>4, <2>2, ReleasedExclusive
    <3>2. QED
      BY <3>1 DEF RW!Next
  <2>3. CASE ReleaseStore(t, "dg_store", 1, "shared")
    <3>1. RW!Downgrade(t)
      BY <1>4, <2>3, ReleasedExclusive
    <3>2. QED
      BY <3>1 DEF RW!Next
  <2>4. QED
    BY <2>1, <2>2, <2>3
<1>5. QED
  BY <1>1, <1>2, <1>3, <1>4 DEF Step

LEMMA NextRefines == IInv /\ [Next]_lockVars => [RW!Next]_RW!rwVars
<1> SUFFICES ASSUME IInv, [Next]_lockVars PROVE [RW!Next]_RW!rwVars
  OBVIOUS
<1>1. CASE Next
  BY <1>1, StepRefines DEF Next
<1>2. CASE UNCHANGED lockVars
  BY <1>2, UnseenStep DEF lockVars
<1>3. QED
  BY <1>1, <1>2

(* The word and the results of the calls implement a reader-writer lock    *)
(* that counts its exclusive sections, for every number of threads and     *)
(* readers, and also when the version wraps.                               *)
THEOREM Refinement == Spec => ImplementsReadWriteLock
BY InitRefines, NextRefines, Invariance, PTL DEF Spec, ImplementsReadWriteLock, RW!Spec
-----------------------------------------------------------------------------
(***************************************************************************)
(* The state byte is the number of holders, until the version wraps.       *)
(***************************************************************************)
LEMMA SameVersionState ==
  ASSUME IInv, NEW s \in UNLOCKED .. EXCLUSIVE, word' = SameVersionNewState(word, s)
  PROVE  LockState(word') = s /\ Version(word)' = Version(word)
BY SameVersionWord DEF IInv, TypeOK, SameVersionNewState, LockState, Version

LEMMA LockedExclusiveCounts ==
  ASSUME IInv, NEW t \in Threads, TryLockExclusive(t), ~NoExchange
  PROVE  StateCountsHolders'
<1>1. word' = SameVersionNewState(word, EXCLUSIVE)
  BY DEF TryLockExclusive, Exchange
<1>2. EXCLUSIVE \in UNLOCKED .. EXCLUSIVE
  BY WordAssumption
<1>3. ExclusiveHolders' # {}
  BY LockedExclusive DEF RW!AcquireExclusive
<1>4. QED
  BY <1>1, <1>2, <1>3, SameVersionState DEF StateCountsHolders, LockState

LEMMA LockedSharedCounts ==
  ASSUME IInv, StateCountsHolders, NEW t \in Threads, held[t] = "none",
         TryLockShared(t), ~NoExchange
  PROVE  StateCountsHolders'
<1>1. /\ LockState(word) < MAX_SHARED
      /\ word' = SameVersionNewState(word, LockState(word) + 1)
      /\ held' = [held EXCEPT ![t] = "shared"]
  BY DEF TryLockShared, Exchange
<1>2. LockState(word) + 1 \in UNLOCKED .. EXCLUSIVE
  BY <1>1, WordAssumption DEF IInv, TypeOK, Words, LockState
<1>3. LockState(word') = LockState(word) + 1
  BY <1>1, <1>2, SameVersionState
<1>4. ExclusiveHolders = {} /\ ExclusiveHolders' = {}
  BY LockedShared DEF RW!AcquireShared
<1>5. Cardinality(SharedHolders') = Cardinality(SharedHolders) + 1
  BY <1>1, HoldersChange DEF IInv
<1>6. QED
  BY <1>3, <1>4, <1>5 DEF StateCountsHolders, LockState

LEMMA UpgradedCounts ==
  ASSUME IInv, NEW t \in Threads, held[t] = "shared", UpgradeLock(t), ~NoExchange
  PROVE  StateCountsHolders'
<1>1. word' = SameVersionNewState(word, EXCLUSIVE)
  BY DEF UpgradeLock, Exchange
<1>2. EXCLUSIVE \in UNLOCKED .. EXCLUSIVE
  BY WordAssumption
<1>3. ExclusiveHolders' # {}
  BY Upgraded DEF RW!Upgrade
<1>4. QED
  BY <1>1, <1>2, <1>3, SameVersionState DEF StateCountsHolders, LockState

LEMMA UnlockedSharedCounts ==
  ASSUME IInv, StateCountsHolders, NEW t \in Threads, held[t] = "shared", UnlockSharedCas(t)
  PROVE  StateCountsHolders'
<1>1. /\ IsSharedLocked(word)
      /\ word' = SameVersionNewState(word, LockState(word) - 1)
      /\ held' = [held EXCEPT ![t] = "none"]
  BY DEF UnlockSharedCas, Exchange, Return, Transition, IInv, ReleaseIsOwed
<1>2. LockState(word) \in 1 .. MAX_SHARED
  BY <1>1, WordAssumption DEF IInv, TypeOK, Words, LockState, IsSharedLocked
<1>3. LockState(word') = LockState(word) - 1
  <2>1. LockState(word) - 1 \in UNLOCKED .. EXCLUSIVE
    BY <1>2, WordAssumption
  <2>2. QED
    BY <1>1, <2>1, SameVersionState
<1>4. ExclusiveHolders = {}
  BY <1>2, NotExclusiveWord
<1>5. ExclusiveHolders' = {}
  BY <1>1, <1>4, HoldersMap DEF IInv
<1>6. Cardinality(SharedHolders') = Cardinality(SharedHolders) - 1
  BY <1>1, HoldersChange DEF IInv
<1>7. QED
  BY <1>3, <1>4, <1>5, <1>6 DEF StateCountsHolders, LockState

LEMMA ReleasedCounts ==
  ASSUME IInv, NEW t \in Threads, held[t] = "exclusive",
         NEW from \in {"ux_store", "dg_store"},
         NEW s \in {UNLOCKED, 1}, NEW h \in {"none", "shared"}, s = 1 <=> h = "shared",
         ReleaseStore(t, from, s, h)
  PROVE  IF Version(word) = VERSION_LIMIT - 1 THEN Version(word)' = 0
         ELSE StateCountsHolders' /\ Version(word)' = Version(word) + 1
<1>1. /\ old[t] = word
      /\ word' = NextVersionNewState(word, s)
      /\ held' = [held EXCEPT ![t] = h]
  BY DEF ReleaseStore, Return, Transition, IInv, ReleaseIsOwed
<1>2. Version(word) \in 0 .. VERSION_LIMIT - 1
  BY DEF IInv, TypeOK, Words, Version
<1>3. CASE Version(word) = VERSION_LIMIT - 1
  BY <1>1, <1>3, WordAssumption DEF NextVersionNewState, Version
<1>4. CASE Version(word) # VERSION_LIMIT - 1
  <2>1. LockState(word') = s /\ Version(word)' = Version(word) + 1
    BY <1>1, <1>2, <1>4, WordAssumption DEF NextVersionNewState, LockState, Version
  <2>2. ExclusiveHolders = {t} /\ SharedHolders = {}
    BY ExclusiveHolderAlone
  <2>3. /\ ExclusiveHolders' = {}
        /\ SharedHolders' = IF h = "shared" THEN {t} ELSE {}
    BY <1>1, <2>2, HoldersMap DEF IInv
  <2>4. Cardinality(SharedHolders') = s
    BY <2>3, FS_EmptySet, FS_Singleton
  <2>5. QED
    BY <1>4, <2>1, <2>3, <2>4 DEF StateCountsHolders, LockState
<1>5. QED
  BY <1>3, <1>4

(* What a step does to the count and to the version.                       *)
LEMMA StepIsExact ==
  ASSUME IInv, StateCountsHolders, NEW t \in Threads, Step(t)
  PROVE  \/ StateCountsHolders' /\ Version(word)' = Version(word)
         \/ /\ held[t] = "exclusive" /\ ExclusiveHolders' = {}
            /\ IF Version(word) = VERSION_LIMIT - 1 THEN Version(word)' = 0
               ELSE StateCountsHolders' /\ Version(word)' = Version(word) + 1
<1> DEFINE Counts == StateCountsHolders' /\ Version(word)' = Version(word)
<1>1. CASE NoExchange
  BY <1>1 DEF NoExchange, StateCountsHolders, ExclusiveHolders, SharedHolders
<1>2. ASSUME held[t] = "none", ~NoExchange,
             StateAndVersion(t) \/ TryLockShared(t) \/ TryLockExclusive(t)
      PROVE  Counts
  <2>1. TryLockShared(t) \/ TryLockExclusive(t)
    BY <1>2 DEF StateAndVersion, NoExchange
  <2>2. Version(word)' = Version(word)
    BY <1>2, <2>1 DEF TryLockShared, TryLockExclusive, Exchange, SameVersionNewState, Version
  <2>3. QED
    BY <1>2, <2>1, <2>2, LockedSharedCounts, LockedExclusiveCounts
<1>3. ASSUME held[t] = "shared", ~NoExchange,
             \/ StateAndVersion(t) \/ UpgradeLock(t)
             \/ UnlockSharedLoad(t) \/ UnlockSharedCas(t) \/ UnlockSharedRetry(t)
      PROVE  Counts
  <2>1. UpgradeLock(t) \/ UnlockSharedCas(t)
    BY <1>3 DEF StateAndVersion, UnlockSharedLoad, UnlockSharedRetry, NoExchange
  <2>2. Version(word)' = Version(word)
    BY <1>3, <2>1 DEF UpgradeLock, UnlockSharedCas, Exchange, SameVersionNewState, Version
  <2>3. QED
    BY <1>3, <2>1, <2>2, UpgradedCounts, UnlockedSharedCounts
<1>4. ASSUME held[t] = "exclusive", ~NoExchange, UnlockExclusive(t) \/ DowngradeLock(t)
      PROVE  /\ ExclusiveHolders' = {}
             /\ IF Version(word) = VERSION_LIMIT - 1 THEN Version(word)' = 0
                ELSE StateCountsHolders' /\ Version(word)' = Version(word) + 1
  <2>1. \/ ReleaseStore(t, "ux_store", UNLOCKED, "none")
        \/ ReleaseStore(t, "dg_store", 1, "shared")
    BY <1>4 DEF UnlockExclusive, DowngradeLock, ReleaseAssert, ReleaseLoad, NoExchange
  <2>2. ExclusiveHolders' = {}
    <3>1. ExclusiveHolders = {t}
      BY <1>4, ExclusiveHolderAlone
    <3>2. QED
      BY <2>1, <3>1, HoldersMap DEF IInv, ReleaseStore
  <2>3. CASE ReleaseStore(t, "ux_store", UNLOCKED, "none")
    BY <1>4, <2>2, <2>3, ReleasedCounts
  <2>4. CASE ReleaseStore(t, "dg_store", 1, "shared")
    BY <1>4, <2>2, <2>4, ReleasedCounts
  <2>5. QED
    BY <2>1, <2>3, <2>4
<1>5. QED
  BY <1>1, <1>2, <1>3, <1>4 DEF Step

LEMMA InitCounts == Init => StateCountsHolders
<1> SUFFICES ASSUME Init PROVE StateCountsHolders
  OBVIOUS
<1>1. ExclusiveHolders = {} /\ SharedHolders = {}
  BY DEF Init, ExclusiveHolders, SharedHolders
<1>2. QED
  BY <1>1, FS_EmptySet DEF Init, InitialWord, StateCountsHolders, LockState

(* The state byte is exact until a section ends at the last version.       *)
THEOREM StateIsExact == Spec => ExactUntilTheWrap
<1>1. IInv /\ [Next]_lockVars
        => [StateCountsHolders => StateCountsHolders' \/ Wraps]_lockVars
  BY StepIsExact DEF Next, Wraps
<1>2. QED
  BY <1>1, InitCounts, Invariance, PTL DEF Spec, ExactUntilTheWrap
-----------------------------------------------------------------------------
(***************************************************************************)
(* With a bound on the version that keeps it from wrapping.  Who may still *)
(* end an exclusive section took the lock below MaxVersion.                *)
(***************************************************************************)
VersionInBounds ==
  /\ Version(word) <= MaxVersion
  /\ \A t \in Threads : held[t] = "exclusive" => Version(word) < MaxVersion

CInv == IInv /\ StateCountsHolders /\ VersionInBounds

LEMMA InitCInv == Init => CInv
<1> SUFFICES ASSUME Init PROVE CInv
  OBVIOUS
<1>1. VersionInBounds
  BY LockAssumption DEF Init, InitialWord, VersionInBounds, Version
<1>2. QED
  BY <1>1, InitIInv, InitCounts DEF CInv

LEMMA UnseenCounts ==
  ASSUME CInv, UNCHANGED <<word, held>>
  PROVE  StateCountsHolders' /\ VersionInBounds'
BY DEF CInv, StateCountsHolders, VersionInBounds, ExclusiveHolders, SharedHolders

(* Who comes to hold the lock exclusively does so below the bound.         *)
LEMMA NewHolderInBounds ==
  ASSUME CInv, NEW t \in Threads, Step(t), NEW u \in Threads, held'[u] = "exclusive"
  PROVE  Version(word) < MaxVersion
<1>1. CASE held[u] = "exclusive"
  BY <1>1 DEF CInv, VersionInBounds
<1>2. CASE held[u] # "exclusive"
  <2>1. \/ TryLockExclusive(t) /\ Version(old[t]) < MaxVersion
        \/ UpgradeLock(t) /\ Version(word) < MaxVersion
    BY <1>2 DEF Step, StateAndVersion, TryLockShared, UnlockSharedLoad, UnlockSharedCas,
                UnlockSharedRetry, UnlockExclusive, DowngradeLock, ReleaseAssert, ReleaseLoad,
                ReleaseStore, Exchange, NoExchange, CInv, IInv, TypeOK
  <2>2. QED
    BY <1>2, <2>1 DEF TryLockExclusive, Exchange, NoExchange
<1>3. QED
  BY <1>1, <1>2

LEMMA StepCounts ==
  ASSUME MaxVersion < VERSION_LIMIT, CInv, NEW t \in Threads, Step(t)
  PROVE  StateCountsHolders' /\ VersionInBounds'
<1>1. Version(word) \in Nat
  BY WordAssumption DEF CInv, IInv, TypeOK, Words, Version
<1>2. CASE StateCountsHolders' /\ Version(word)' = Version(word)
  BY <1>2, NewHolderInBounds DEF CInv, VersionInBounds
<1>3. CASE /\ held[t] = "exclusive" /\ ExclusiveHolders' = {}
           /\ IF Version(word) = VERSION_LIMIT - 1 THEN Version(word)' = 0
              ELSE StateCountsHolders' /\ Version(word)' = Version(word) + 1
  <2>1. Version(word) < MaxVersion
    BY <1>3 DEF CInv, VersionInBounds
  <2>2. StateCountsHolders' /\ Version(word)' = Version(word) + 1
    BY <1>1, <1>3, <2>1, LockAssumption, WordAssumption
  <2>3. \A u \in Threads : held'[u] # "exclusive"
    BY <1>3 DEF ExclusiveHolders
  <2>4. QED
    BY <1>1, <2>1, <2>2, <2>3, LockAssumption DEF VersionInBounds
<1>4. QED
  BY <1>2, <1>3, StepIsExact DEF CInv
=============================================================================
