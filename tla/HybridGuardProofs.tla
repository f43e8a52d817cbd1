-------------------------- MODULE HybridGuardProofs -------------------------
(***************************************************************************)
(* Guards whose locks stay where they were taken use the lock the way it   *)
(* asks for, for any number of guards and threads: what is proved of       *)
(* HybridLock then holds for them.                                         *)
(***************************************************************************)
EXTENDS HybridGuard, FiniteSetTheorems, TLAPS

(* The lock, with a bound on the version that excludes no attempt.         *)
Free == INSTANCE HybridLockProofs WITH Threads <- Guards, MaxVersion <- VERSION_LIMIT

(* What a guard holds follows from its mode once it is constructed, and it *)
(* is inside a call of the lock only if that call is its constructor's or  *)
(* its release.                                                            *)
OwnsItsLock(g) ==
  /\ life[g] # "alive" => held[g] = "none"
  /\ life[g] = "none" => mode[g] = "MOVED" /\ pc[g] = "idle"
  /\ life[g] = "constructing" =>
       mode[g] # "MOVED" /\ pc[g] \in {"idle", "loaded"}
  /\ mode[g] \in {"OPTIMISTIC", "MOVED"} => held[g] = "none" /\ pc[g] = "idle"
  /\ life[g] = "alive" /\ mode[g] = "SHARED" =>
       held[g] = "shared" /\ pc[g] \in {"idle", "us_load", "us_cas"}
  /\ life[g] = "alive" /\ mode[g] = "EXCLUSIVE" =>
       held[g] = "exclusive" /\ pc[g] \in {"idle", "ux_load", "ux_store"}

GInv ==
  /\ TypeOK
  /\ Free!IInv
  /\ \A g \in Guards : OwnsItsLock(g)

-----------------------------------------------------------------------------
(* The two instances of the lock are the same but for the bound.           *)
LEMMA FreeAssumptions == Free!LockAssumption /\ Free!WordAssumption
<1>1. Free!IsFiniteSet(Guards)
  BY GuardAssumption DEF Free!IsFiniteSet, IsFiniteSet
<1>2. QED
  BY <1>1, GuardAssumption, WordAssumption DEF Free!LockAssumption, Free!WordAssumption

LEMMA SameWord ==
  /\ Lock!Words = Words /\ Free!Words = Words
  /\ Lock!InitialWord = InitialWord /\ Free!InitialWord = InitialWord
  /\ Lock!TypeOK <=> Free!TypeOK
BY DEF Lock!Words, Free!Words, Words, Lock!UNLOCKED, Free!UNLOCKED, UNLOCKED,
       Lock!EXCLUSIVE, Free!EXCLUSIVE, EXCLUSIVE,
       Lock!InitialWord, Free!InitialWord, InitialWord, Lock!TypeOK, Free!TypeOK

LEMMA SameCalls ==
  ASSUME NEW g
  PROVE  /\ Lock!StateAndVersion(g) <=> Free!StateAndVersion(g)
         /\ Lock!TryLockShared(g) <=> Free!TryLockShared(g)
         /\ Lock!TryLockExclusive(g) <=> Free!TryLockExclusive(g)
         /\ Lock!UnlockSharedLoad(g) <=> Free!UnlockSharedLoad(g)
         /\ Lock!UnlockSharedCas(g) <=> Free!UnlockSharedCas(g)
         /\ Lock!UnlockSharedRetry(g) <=> Free!UnlockSharedRetry(g)
         /\ Lock!UnlockExclusive(g) <=> Free!UnlockExclusive(g)
<1> USE DEF Lock!UNLOCKED, Free!UNLOCKED, Lock!EXCLUSIVE, Free!EXCLUSIVE,
            Lock!LockState, Free!LockState, Lock!Version, Free!Version,
            Lock!InitialWord, Free!InitialWord,
            Lock!IsSharedLocked, Free!IsSharedLocked,
            Lock!IsExclusivelyLocked, Free!IsExclusivelyLocked,
            Lock!SameVersionNewState, Free!SameVersionNewState,
            Lock!Transition, Free!Transition, Lock!Return, Free!Return,
            Lock!Exchange, Free!Exchange, Lock!NoExchange, Free!NoExchange,
            Lock!AssertThen, Free!AssertThen
<1>1. Lock!StateAndVersion(g) <=> Free!StateAndVersion(g)
  BY DEF Lock!StateAndVersion, Free!StateAndVersion
<1>2. Lock!TryLockShared(g) <=> Free!TryLockShared(g)
  BY DEF Lock!TryLockShared, Free!TryLockShared
<1>3. Lock!TryLockExclusive(g) <=> Free!TryLockExclusive(g)
  BY DEF Lock!TryLockExclusive, Free!TryLockExclusive
<1>4. Lock!UnlockSharedLoad(g) <=> Free!UnlockSharedLoad(g)
  BY DEF Lock!UnlockSharedLoad, Free!UnlockSharedLoad
<1>5. Lock!UnlockSharedCas(g) <=> Free!UnlockSharedCas(g)
  BY DEF Lock!UnlockSharedCas, Free!UnlockSharedCas
<1>6. Lock!UnlockSharedRetry(g) <=> Free!UnlockSharedRetry(g)
  BY DEF Lock!UnlockSharedRetry, Free!UnlockSharedRetry
<1>7. Lock!UnlockExclusive(g) <=> Free!UnlockExclusive(g)
  BY DEF Lock!UnlockExclusive, Free!UnlockExclusive, Lock!ReleaseAssert, Free!ReleaseAssert,
         Lock!ReleaseLoad, Free!ReleaseLoad, Lock!ReleaseStore, Free!ReleaseStore,
         Lock!NextVersionNewState, Free!NextVersionNewState
<1>8. QED
  BY <1>1, <1>2, <1>3, <1>4, <1>5, <1>6, <1>7
-----------------------------------------------------------------------------
(* The calls of a guard are calls its lock expects of their caller.        *)
LEMMA AcquireIsCalled ==
  ASSUME GInv, NEW g \in Guards, Acquire(g)
  PROVE  Free!Step(g)
<1>1. held[g] = "none"
  BY DEF GInv, OwnsItsLock, Acquire
<1>2. Free!StateAndVersion(g) \/ Free!TryLockShared(g) \/ Free!TryLockExclusive(g)
  BY SameCalls DEF Acquire
<1>3. Free!Version(old[g]) < VERSION_LIMIT
  BY SameWord, WordAssumption DEF GInv, TypeOK, Free!TypeOK, Words, Free!Version
<1>4. QED
  BY <1>1, <1>2, <1>3 DEF Free!Step

LEMMA UnlockIsCalled ==
  ASSUME GInv, NEW g \in Guards, UnlockCall(g)
  PROVE  Free!Step(g)
<1>1. CASE /\ mode[g] = "SHARED"
           /\ \/ Free!UnlockSharedLoad(g)
              \/ Free!UnlockSharedCas(g)
              \/ Free!UnlockSharedRetry(g)
  <2>1. held[g] = "shared"
    BY <1>1 DEF GInv, OwnsItsLock, UnlockCall
  <2>2. QED
    BY <1>1, <2>1 DEF Free!Step
<1>2. CASE mode[g] = "EXCLUSIVE" /\ Free!UnlockExclusive(g)
  <2>1. held[g] = "exclusive"
    BY <1>2 DEF GInv, OwnsItsLock, UnlockCall
  <2>2. QED
    BY <1>2, <2>1 DEF Free!Step
<1>3. QED
  BY <1>1, <1>2, SameCalls DEF UnlockCall

LEMMA CallKeepsLock ==
  ASSUME Free!IInv, NEW g \in Guards, Lock!Running, Free!Step(g)
  PROVE  Free!IInv'
<1>1. Free!Next
  BY DEF Free!Next, Free!Running, Lock!Running
<1>2. QED
  BY <1>1, FreeAssumptions, Free!NextIInv

LEMMA UntouchedLock ==
  ASSUME Free!IInv, UNCHANGED lockVars
  PROVE  Free!IInv'
<1>1. UNCHANGED Free!lockVars
  BY DEF lockVars, Free!lockVars
<1>2. QED
  BY <1>1, FreeAssumptions, Free!NextIInv
-----------------------------------------------------------------------------
(* A step of g keeps the invariant if g ends where its mode says.          *)
OthersInPlace(g) ==
  \A h \in Guards \ {g} :
    pc'[h] = pc[h] /\ held'[h] = held[h] /\ mode'[h] = mode[h] /\ life'[h] = life[h]

LEMMA GuardStep ==
  ASSUME GInv, NEW g \in Guards, Free!IInv', OthersInPlace(g), OwnsItsLock(g)',
         mode' \in [Guards -> Modes], seen' \in [Guards -> Words],
         life' \in [Guards -> {"none", "constructing", "alive"}]
  PROVE  GInv'
<1>1. TypeOK'
  <2>1. Free!TypeOK'
    BY DEF Free!IInv
  <2>2. Lock!TypeOK'
    BY <2>1, SameWord DEF Lock!TypeOK, Free!TypeOK
  <2>3. QED
    BY <2>2 DEF TypeOK
<1>2. \A h \in Guards \ {g} : OwnsItsLock(h)'
  BY DEF GInv, OwnsItsLock, OthersInPlace
<1>3. QED
  BY <1>1, <1>2 DEF GInv

LEMMA Types ==
  ASSUME GInv
  PROVE  /\ word \in Words /\ old \in [Guards -> Words]
         /\ pc \in [Guards -> {"idle", "loaded", "us_load", "us_cas", "ux_load",
                               "ux_store", "dg_load", "dg_store", "aborted"}]
         /\ held \in [Guards -> {"none", "shared", "exclusive"}]
         /\ mode \in [Guards -> Modes] /\ seen \in [Guards -> Words]
         /\ life \in [Guards -> {"none", "constructing", "alive"}]
BY SameWord DEF GInv, TypeOK, Lock!TypeOK

LEMMA ConstructStep ==
  ASSUME GInv, NEW g \in Guards, NEW m \in Modes \ {"MOVED"}, Construct(g, m)
  PROVE  GInv'
<1>1. Free!IInv'
  BY UntouchedLock DEF GInv, Construct
<1>2. OwnsItsLock(g) /\ life[g] = "none"
  BY DEF GInv, Construct
<1>3. /\ OthersInPlace(g) /\ mode'[g] = m /\ life'[g] = "constructing"
      /\ pc'[g] = "idle" /\ held'[g] = "none"
      /\ mode' \in [Guards -> Modes] /\ seen' \in [Guards -> Words]
      /\ life' \in [Guards -> {"none", "constructing", "alive"}]
  BY <1>2, Types DEF OwnsItsLock, Construct, OthersInPlace, lockVars
<1>4. OwnsItsLock(g)'
  BY <1>3 DEF OwnsItsLock
<1>5. QED
  BY <1>1, <1>3, <1>4, GuardStep

LEMMA AcquireStep ==
  ASSUME GInv, NEW g \in Guards, Acquire(g), Lock!Running
  PROVE  GInv'
<1>1. Free!IInv'
  BY AcquireIsCalled, CallKeepsLock DEF GInv
<1>2. /\ OwnsItsLock(g) /\ life[g] = "constructing" /\ held[g] = "none"
      /\ mode[g] \in {"SHARED", "EXCLUSIVE"}
  BY DEF GInv, OwnsItsLock, Acquire
<1>3. /\ \A h \in Guards \ {g} : pc'[h] = pc[h] /\ held'[h] = held[h]
      /\ \/ pc'[g] = "loaded" /\ held'[g] = "none"
         \/ pc'[g] = "idle" /\ held'[g] = "none"
         \/ pc'[g] = "idle" /\ mode[g] = "SHARED" /\ held'[g] = "shared"
         \/ pc'[g] = "idle" /\ mode[g] = "EXCLUSIVE" /\ held'[g] = "exclusive"
  BY <1>2, Types DEF Acquire, Lock!StateAndVersion, Lock!TryLockShared, Lock!TryLockExclusive,
                     Lock!Return, Lock!Transition, Lock!Exchange, Lock!NoExchange
<1>4. /\ mode' = mode /\ seen' = seen
      /\ life' = IF held'[g] = "none" THEN life ELSE [life EXCEPT ![g] = "alive"]
  BY DEF Acquire
<1>5. OthersInPlace(g) /\ life' \in [Guards -> {"none", "constructing", "alive"}]
  BY <1>3, <1>4, Types DEF OthersInPlace
<1>6. OwnsItsLock(g)'
  BY <1>2, <1>3, <1>4, Types DEF OwnsItsLock
<1>7. QED
  BY <1>1, <1>4, <1>5, <1>6, GuardStep, Types

LEMMA OptimisticLockStep ==
  ASSUME GInv, NEW g \in Guards, OptimisticLock(g)
  PROVE  GInv'
<1>1. Free!IInv'
  BY UntouchedLock DEF GInv, OptimisticLock
<1>2. OwnsItsLock(g) /\ life[g] = "constructing" /\ mode[g] = "OPTIMISTIC"
  BY DEF GInv, OptimisticLock
<1>3. /\ OthersInPlace(g) /\ mode' = mode /\ life'[g] \in {"constructing", "alive"}
      /\ pc'[g] = pc[g] /\ held'[g] = held[g]
      /\ seen' \in [Guards -> Words]
      /\ life' \in [Guards -> {"none", "constructing", "alive"}]
  BY <1>2, Types DEF OptimisticLock, OthersInPlace, lockVars
<1>4. OwnsItsLock(g)'
  BY <1>2, <1>3 DEF OwnsItsLock
<1>5. QED
  BY <1>1, <1>3, <1>4, GuardStep, Types

LEMMA UnlockStep ==
  ASSUME GInv, NEW g \in Guards, Unlock(g), Lock!Running
  PROVE  GInv'
<1>1. Free!IInv'
  BY UnlockIsCalled, CallKeepsLock DEF GInv, Unlock
<1>2. pc'[g] # "aborted"
  BY <1>1 DEF Free!IInv, Free!AssertionsHold, Free!Running
<1>3. /\ OwnsItsLock(g) /\ life[g] = "alive" /\ seen' = seen /\ life' = life
      /\ mode' = IF pc'[g] = "idle" THEN [mode EXCEPT ![g] = "MOVED"] ELSE mode
  BY DEF GInv, Unlock, UnlockCall
<1>4. /\ \A h \in Guards \ {g} : pc'[h] = pc[h] /\ held'[h] = held[h]
      /\ \/ /\ mode[g] = "SHARED" /\ pc'[g] \in {"us_load", "us_cas"} /\ held'[g] = held[g]
         \/ /\ mode[g] = "EXCLUSIVE" /\ pc'[g] \in {"ux_load", "ux_store"} /\ held'[g] = held[g]
         \/ pc'[g] = "idle" /\ held'[g] = "none"
  <2>1. CASE mode[g] = "SHARED"
    BY <1>2, <1>3, <2>1, Types
       DEF Unlock, UnlockCall, Lock!UnlockSharedLoad, Lock!UnlockSharedCas, Lock!UnlockSharedRetry,
           Lock!Return, Lock!Transition, Lock!Exchange, Lock!AssertThen
  <2>2. CASE mode[g] = "EXCLUSIVE"
    BY <1>2, <1>3, <2>2, Types
       DEF Unlock, UnlockCall, Lock!UnlockExclusive, Lock!ReleaseAssert, Lock!ReleaseLoad,
           Lock!ReleaseStore, Lock!Return, Lock!Transition, Lock!AssertThen
  <2>3. QED
    BY <2>1, <2>2 DEF Unlock, UnlockCall
<1>5. OthersInPlace(g) /\ mode' \in [Guards -> Modes]
  BY <1>3, <1>4, Types DEF OthersInPlace, Modes
<1>6. OwnsItsLock(g)'
  BY <1>3, <1>4, Types DEF OwnsItsLock
<1>7. QED
  BY <1>1, <1>3, <1>5, <1>6, GuardStep, Types

LEMMA EndStep ==
  ASSUME GInv, NEW g \in Guards, ValidateOptimisticLock(g) \/ Destroy(g)
  PROVE  GInv'
<1>1. /\ OwnsItsLock(g) /\ mode[g] \in {"OPTIMISTIC", "MOVED"}
      /\ pc[g] = "idle" /\ held[g] = "none"
  BY DEF GInv, OwnsItsLock, ValidateOptimisticLock, Destroy
<1>2. /\ UNCHANGED lockVars /\ mode' = [mode EXCEPT ![g] = "MOVED"]
      /\ life' = life \/ life' = [life EXCEPT ![g] = "none"]
      /\ seen' = seen \/ seen' = [seen EXCEPT ![g] = InitialWord]
  BY <1>1, Types DEF ValidateOptimisticLock, Destroy, GoOutOfScope, lockVars
<1>3. Free!IInv'
  BY <1>2, UntouchedLock DEF GInv
<1>4. /\ OthersInPlace(g)
      /\ mode' \in [Guards -> Modes] /\ seen' \in [Guards -> Words]
      /\ life' \in [Guards -> {"none", "constructing", "alive"}]
  BY <1>2, Types, Free!InitialWordType, FreeAssumptions, SameWord
     DEF OthersInPlace, Modes, lockVars
<1>5. OwnsItsLock(g)'
  <2>1. life[g] = "alive"
    BY DEF ValidateOptimisticLock, Destroy, AtRest
  <2>2. mode'[g] = "MOVED" /\ life'[g] \in {"none", "alive"} /\ pc'[g] = "idle" /\ held'[g] = "none"
    BY <1>1, <1>2, <2>1, Types DEF lockVars
  <2>3. QED
    BY <2>2 DEF OwnsItsLock
<1>6. QED
  BY <1>3, <1>4, <1>5, GuardStep

LEMMA CallOptimisticLockStep ==
  ASSUME GInv, NEW g \in Guards, CallOptimisticLock(g)
  PROVE  GInv'
<1>1. Free!IInv'
  BY UntouchedLock DEF GInv, CallOptimisticLock
<1>2. /\ mode[g] = "OPTIMISTIC" /\ held[g] = "none" /\ pc[g] = "idle"
      /\ UNCHANGED <<lockVars, mode, seen>> /\ life' = [life EXCEPT ![g] = "constructing"]
  BY DEF GInv, OwnsItsLock, CallOptimisticLock
<1>3. /\ OthersInPlace(g) /\ life'[g] = "constructing"
      /\ mode' \in [Guards -> Modes] /\ seen' \in [Guards -> Words]
      /\ life' \in [Guards -> {"none", "constructing", "alive"}]
  BY <1>2, Types DEF OthersInPlace, lockVars
<1>4. OwnsItsLock(g)'
  BY <1>2, <1>3 DEF OwnsItsLock, lockVars
<1>5. QED
  BY <1>1, <1>3, <1>4, GuardStep

LEMMA MoveAssignStep ==
  ASSUME MoveModes \subseteq {"OPTIMISTIC", "MOVED"},
         GInv, NEW g \in Guards, NEW h \in Guards, MoveAssign(g, h)
  PROVE  GInv'
<1>1. Free!IInv'
  BY UntouchedLock DEF GInv, MoveAssign
<1>2. OwnsItsLock(g) /\ life[g] = "alive" /\ held[g] = "none" /\ pc[g] = "idle"
  BY DEF GInv, OwnsItsLock, MoveAssign, AtRest
<1>3. /\ OthersInPlace(g) /\ mode'[g] \in {"OPTIMISTIC", "MOVED"} /\ life' = life
      /\ pc'[g] = pc[g] /\ held'[g] = held[g]
      /\ mode' \in [Guards -> Modes] /\ seen' \in [Guards -> Words]
  BY Types DEF MoveAssign, OthersInPlace, lockVars, Modes
<1>4. OwnsItsLock(g)'
  BY <1>2, <1>3 DEF OwnsItsLock
<1>5. QED
  BY <1>1, <1>3, <1>4, GuardStep, Types
-----------------------------------------------------------------------------
LEMMA InitGInv == Init => GInv
<1> SUFFICES ASSUME Init PROVE GInv
  OBVIOUS
<1>1. Free!IInv
  BY FreeAssumptions, Free!InitIInv, SameWord DEF Init, Lock!Init, Free!Init
<1>2. \A g \in Guards : OwnsItsLock(g)
  BY DEF Init, Lock!Init, OwnsItsLock
<1>3. TypeOK
  BY <1>1, FreeAssumptions, Free!InitialWordType, SameWord
     DEF Free!IInv, TypeOK, Init, Modes
<1>4. QED
  BY <1>1, <1>2, <1>3 DEF GInv

LEMMA NextGInv ==
  ASSUME MoveModes \subseteq {"OPTIMISTIC", "MOVED"}
  PROVE  GInv /\ [Next]_guardVars => GInv'
<1> SUFFICES ASSUME GInv, [Next]_guardVars PROVE GInv'
  OBVIOUS
<1>1. ASSUME NEW g \in Guards, Step(g), Lock!Running PROVE GInv'
  BY <1>1, ConstructStep, AcquireStep, OptimisticLockStep, CallOptimisticLockStep, UnlockStep,
     EndStep, MoveAssignStep
     DEF Step
<1>2. ASSUME UNCHANGED guardVars PROVE GInv'
  <2>1. UNCHANGED lockVars /\ UNCHANGED <<mode, seen, life>>
    BY <1>2 DEF guardVars, lockVars
  <2>2. Free!IInv'
    BY <2>1, UntouchedLock DEF GInv
  <2>3. TypeOK'
    BY <2>1 DEF GInv, TypeOK, Lock!TypeOK, lockVars
  <2>4. \A g \in Guards : OwnsItsLock(g)'
    BY <2>1 DEF GInv, OwnsItsLock, lockVars
  <2>5. QED
    BY <2>2, <2>3, <2>4 DEF GInv
<1>3. QED
  BY <1>1, <1>2 DEF Next

(* The variables of the guards and their lock always have their types.     *)
THEOREM TypeCorrectness ==
  ASSUME MoveModes \subseteq {"OPTIMISTIC", "MOVED"}
  PROVE  Spec => []TypeOK
<1>1. GInv => TypeOK
  BY DEF GInv
<1>2. GInv /\ [Next]_guardVars => GInv'
  BY NextGInv
<1>3. QED
  BY <1>1, <1>2, InitGInv, PTL DEF Spec

(* As long as only optimistic and empty guards are moved, no assert of the *)
(* lock fails whatever the guards do, also after the version has wrapped.  *)
THEOREM AssertionsNeverFail ==
  ASSUME MoveModes \subseteq {"OPTIMISTIC", "MOVED"}
  PROVE  Spec => []AssertionsHold
<1>1. GInv => AssertionsHold
  BY DEF GInv, Free!IInv, Free!AssertionsHold, Free!Running,
         AssertionsHold, Lock!AssertionsHold, Lock!Running
<1>2. GInv /\ [Next]_guardVars => GInv'
  BY NextGInv
<1>3. QED
  BY <1>1, <1>2, InitGInv, PTL DEF Spec

(* The guards are users that keep the contract of HybridLock: every step   *)
(* of theirs is a call their lock expects or leaves the lock alone.        *)
THEOREM GuardsUseTheLock ==
  ASSUME MoveModes \subseteq {"OPTIMISTIC", "MOVED"}
  PROVE  Spec => Free!Spec
<1>1. Init => Free!Init
  BY SameWord DEF Init, Lock!Init, Free!Init
<1>2. GInv /\ [Next]_guardVars => [Free!Next]_Free!lockVars
  <2> SUFFICES ASSUME GInv, [Next]_guardVars PROVE [Free!Next]_Free!lockVars
    OBVIOUS
  <2>1. ASSUME NEW g \in Guards, Step(g), Lock!Running PROVE [Free!Next]_Free!lockVars
    <3>1. CASE Free!Step(g)
      BY <2>1, <3>1 DEF Free!Next, Free!Running, Lock!Running
    <3>2. CASE UNCHANGED lockVars
      BY <3>2 DEF lockVars, Free!lockVars
    <3>3. ASSUME Destroy(g) PROVE UNCHANGED lockVars
      BY <3>3, Types DEF GInv, OwnsItsLock, Destroy, GoOutOfScope, lockVars
    <3>4. QED
      BY <2>1, <3>1, <3>2, <3>3, AcquireIsCalled, UnlockIsCalled
         DEF Step, Construct, OptimisticLock, CallOptimisticLock, Unlock,
             ValidateOptimisticLock, MoveAssign
  <2>2. CASE UNCHANGED guardVars
    BY <2>2 DEF guardVars, Free!lockVars
  <2>3. QED
    BY <2>1, <2>2 DEF Next
<1>3. GInv /\ [Next]_guardVars => GInv'
  BY NextGInv
<1>4. QED
  BY <1>1, <1>2, <1>3, InitGInv, PTL DEF Spec, Free!Spec
-----------------------------------------------------------------------------
(***************************************************************************)
(* While the version cannot wrap, guards and lock agree exactly: now the   *)
(* lock's bound is the one that the constructors respect.                  *)
(***************************************************************************)
Bounded == INSTANCE HybridLockProofs WITH Threads <- Guards

(* Every exclusive guard there is may still end its section.               *)
SectionsInBounds == Version(word) + Cardinality(ExclusiveGuards) <= MaxVersion

BInv ==
  /\ GInv
  /\ Bounded!StateCountsHolders /\ Bounded!VersionInBounds
  /\ SectionsInBounds
-----------------------------------------------------------------------------
LEMMA BoundedAssumptions == Bounded!LockAssumption /\ Bounded!WordAssumption
<1>1. Bounded!IsFiniteSet(Guards)
  BY GuardAssumption DEF Bounded!IsFiniteSet, IsFiniteSet
<1>2. QED
  BY <1>1, GuardAssumption, WordAssumption DEF Bounded!LockAssumption, Bounded!WordAssumption

LEMMA BoundedCardinality == \A S : Bounded!Cardinality(S) = Cardinality(S)
BY DEF Bounded!Cardinality, Cardinality

LEMMA SameInvariant == Free!IInv => Bounded!IInv
BY DEF Free!IInv, Bounded!IInv, Free!TypeOK, Bounded!TypeOK,
       Free!AssertionsHold, Bounded!AssertionsHold, Free!Running, Bounded!Running,
       Free!ReleaseIsOwed, Bounded!ReleaseIsOwed, Free!IsSharedLocked, Bounded!IsSharedLocked,
       Free!LockState, Bounded!LockState, Free!Words, Bounded!Words,
       Free!UNLOCKED, Bounded!UNLOCKED, Free!EXCLUSIVE, Bounded!EXCLUSIVE,
       Free!ExclusiveIsAlone, Bounded!ExclusiveIsAlone,
       Free!SharedAreCounted, Bounded!SharedAreCounted,
       Free!SharedHolders, Bounded!SharedHolders, Free!Cardinality, Bounded!Cardinality

LEMMA BoundedCalls ==
  ASSUME NEW g
  PROVE  /\ Free!TryLockShared(g) <=> Bounded!TryLockShared(g)
         /\ Free!TryLockExclusive(g) <=> Bounded!TryLockExclusive(g)
         /\ Free!UnlockSharedLoad(g) <=> Bounded!UnlockSharedLoad(g)
         /\ Free!UnlockSharedCas(g) <=> Bounded!UnlockSharedCas(g)
         /\ Free!UnlockSharedRetry(g) <=> Bounded!UnlockSharedRetry(g)
         /\ Free!UnlockExclusive(g) <=> Bounded!UnlockExclusive(g)
<1> USE DEF Free!UNLOCKED, Bounded!UNLOCKED, Free!EXCLUSIVE, Bounded!EXCLUSIVE,
            Free!LockState, Bounded!LockState, Free!Version, Bounded!Version,
            Free!InitialWord, Bounded!InitialWord,
            Free!IsSharedLocked, Bounded!IsSharedLocked,
            Free!IsExclusivelyLocked, Bounded!IsExclusivelyLocked,
            Free!SameVersionNewState, Bounded!SameVersionNewState,
            Free!Transition, Bounded!Transition, Free!Return, Bounded!Return,
            Free!Exchange, Bounded!Exchange, Free!NoExchange, Bounded!NoExchange,
            Free!AssertThen, Bounded!AssertThen
<1>1. Free!TryLockShared(g) <=> Bounded!TryLockShared(g)
  BY DEF Free!TryLockShared, Bounded!TryLockShared
<1>2. Free!TryLockExclusive(g) <=> Bounded!TryLockExclusive(g)
  BY DEF Free!TryLockExclusive, Bounded!TryLockExclusive
<1>3. Free!UnlockSharedLoad(g) <=> Bounded!UnlockSharedLoad(g)
  BY DEF Free!UnlockSharedLoad, Bounded!UnlockSharedLoad
<1>4. Free!UnlockSharedCas(g) <=> Bounded!UnlockSharedCas(g)
  BY DEF Free!UnlockSharedCas, Bounded!UnlockSharedCas
<1>5. Free!UnlockSharedRetry(g) <=> Bounded!UnlockSharedRetry(g)
  BY DEF Free!UnlockSharedRetry, Bounded!UnlockSharedRetry
<1>6. Free!UnlockExclusive(g) <=> Bounded!UnlockExclusive(g)
  BY DEF Free!UnlockExclusive, Bounded!UnlockExclusive,
         Free!ReleaseAssert, Bounded!ReleaseAssert, Free!ReleaseLoad, Bounded!ReleaseLoad,
         Free!ReleaseStore, Bounded!ReleaseStore,
         Free!NextVersionNewState, Bounded!NextVersionNewState
<1>7. QED
  BY <1>1, <1>2, <1>3, <1>4, <1>5, <1>6
-----------------------------------------------------------------------------
(* A step of the lock that its bound allows keeps the count exact.         *)
LEMMA UnseenLock ==
  ASSUME BInv, UNCHANGED <<word, held>>
  PROVE  Bounded!StateCountsHolders' /\ Bounded!VersionInBounds'
BY SameInvariant, BoundedAssumptions, Bounded!UnseenCounts DEF BInv, GInv, Bounded!CInv

LEMMA CountedLock ==
  ASSUME MaxVersion < VERSION_LIMIT, BInv, NEW g \in Guards, Bounded!Step(g)
  PROVE  Bounded!StateCountsHolders' /\ Bounded!VersionInBounds'
BY SameInvariant, BoundedAssumptions, Bounded!StepCounts DEF BInv, GInv, Bounded!CInv

LEMMA GuardsAreFinite ==
  /\ IsFiniteSet(ExclusiveGuards)
  /\ Cardinality(ExclusiveGuards) \in Nat
<1>1. ExclusiveGuards \in SUBSET Guards
  BY DEF ExclusiveGuards
<1>2. QED
  BY <1>1, GuardAssumption, FS_Subset, FS_CardinalityType

LEMMA AcquireCounts ==
  ASSUME MaxVersion < VERSION_LIMIT, BInv, NEW g \in Guards, Acquire(g)
  PROVE  /\ Bounded!StateCountsHolders' /\ Bounded!VersionInBounds'
         /\ SectionsInBounds'
<1>0. GInv /\ OwnsItsLock(g) /\ life[g] = "constructing" /\ held[g] = "none"
  BY DEF BInv, GInv, OwnsItsLock, Acquire
<1>1. word \in Words /\ Version(word) \in Nat
  BY <1>0, Types, WordAssumption DEF Words, Version
<1>2. Version(word)' = Version(word)
  BY <1>1, SameCalls
     DEF Acquire, Lock!StateAndVersion, Lock!TryLockShared, Lock!TryLockExclusive,
         Lock!Exchange, Lock!NoExchange, Lock!SameVersionNewState, Lock!Version, Version
<1>3. ExclusiveGuards' = ExclusiveGuards
  BY <1>0, Types DEF Acquire, ExclusiveGuards
<1>4. SectionsInBounds'
  BY <1>2, <1>3 DEF BInv, SectionsInBounds
<1>5. CASE UNCHANGED <<word, held>>
  BY <1>4, <1>5, UnseenLock
<1>6. CASE ~UNCHANGED <<word, held>>
  <2>1. \/ Bounded!TryLockShared(g)
        \/ mode[g] = "EXCLUSIVE" /\ Bounded!TryLockExclusive(g)
    BY <1>6, SameCalls, BoundedCalls DEF Acquire, Lock!StateAndVersion
  <2>2. CASE Bounded!TryLockShared(g)
    BY <1>0, <1>4, <2>2, CountedLock DEF Bounded!Step
  <2>3. CASE mode[g] = "EXCLUSIVE" /\ Bounded!TryLockExclusive(g)
    <3>1. old[g] = word
      BY <1>6, <2>3 DEF Bounded!TryLockExclusive, Bounded!Exchange, Bounded!NoExchange
    <3>2. Cardinality(ExclusiveGuards) # 0
      <4>1. g \in ExclusiveGuards
        BY <1>0, <2>3 DEF ExclusiveGuards
      <4>2. QED
        BY <4>1, GuardsAreFinite, FS_EmptySet
    <3>3. Bounded!Version(old[g]) < MaxVersion
      BY <1>1, <3>1, <3>2, GuardsAreFinite, GuardAssumption
         DEF BInv, SectionsInBounds, Bounded!Version, Version
    <3>4. QED
      BY <1>0, <1>4, <2>3, <3>3, CountedLock DEF Bounded!Step
  <2>4. QED
    BY <2>1, <2>2, <2>3
<1>7. QED
  BY <1>5, <1>6

LEMMA UnlockCounts ==
  ASSUME MaxVersion < VERSION_LIMIT, BInv, NEW g \in Guards, Unlock(g)
  PROVE  /\ Bounded!StateCountsHolders' /\ Bounded!VersionInBounds'
         /\ SectionsInBounds'
<1>0. GInv /\ OwnsItsLock(g) /\ life[g] = "alive" /\ UnlockCall(g)
  BY DEF BInv, GInv, Unlock, UnlockCall
<1>1. Bounded!Step(g)
  <2>1. CASE mode[g] = "SHARED"
    BY <1>0, <2>1, SameCalls, BoundedCalls DEF OwnsItsLock, UnlockCall, Bounded!Step
  <2>2. CASE mode[g] = "EXCLUSIVE"
    BY <1>0, <2>2, SameCalls, BoundedCalls DEF OwnsItsLock, UnlockCall, Bounded!Step
  <2>3. QED
    BY <1>0, <2>1, <2>2 DEF UnlockCall
<1>2. word \in Words /\ Version(word) \in Nat
  BY <1>0, Types, WordAssumption DEF Words, Version
<1>3. SectionsInBounds'
  <2>1. CASE mode[g] = "SHARED"
    <3>1. Version(word)' = Version(word)
      BY <1>0, <2>1
         DEF UnlockCall, Lock!UnlockSharedLoad, Lock!UnlockSharedCas, Lock!UnlockSharedRetry,
             Lock!Exchange, Lock!SameVersionNewState, Lock!Version, Version
    <3>2. ExclusiveGuards' = ExclusiveGuards
      BY <1>0, <2>1, Types DEF Unlock, UnlockCall, ExclusiveGuards
    <3>3. QED
      BY <3>1, <3>2 DEF BInv, SectionsInBounds
  <2>2. CASE mode[g] = "EXCLUSIVE" /\ word' = word
    <3>1. \/ ExclusiveGuards' = ExclusiveGuards
          \/ ExclusiveGuards' = ExclusiveGuards \ {g}
      BY <1>0, <2>2, Types DEF Unlock, UnlockCall, ExclusiveGuards
    <3>2. /\ Cardinality(ExclusiveGuards') <= Cardinality(ExclusiveGuards)
          /\ Cardinality(ExclusiveGuards') \in Nat
      <4>1. /\ Cardinality(ExclusiveGuards \ {g}) \in Nat
            /\ Cardinality(ExclusiveGuards \ {g}) <= Cardinality(ExclusiveGuards)
        <5>1. /\ IsFiniteSet(ExclusiveGuards) /\ IsFiniteSet(ExclusiveGuards \ {g})
              /\ Cardinality(ExclusiveGuards \ {g}) =
                   IF g \in ExclusiveGuards THEN Cardinality(ExclusiveGuards) - 1
                   ELSE Cardinality(ExclusiveGuards)
          BY GuardsAreFinite, FS_RemoveElement
        <5>2. Cardinality(ExclusiveGuards) \in Nat /\ Cardinality(ExclusiveGuards \ {g}) \in Nat
          BY <5>1, FS_CardinalityType
        <5>3. QED
          BY <5>1, <5>2
      <4>2. QED
        BY <3>1, <4>1, GuardsAreFinite
    <3>3. QED
      BY <1>2, <2>2, <3>2, GuardsAreFinite, GuardAssumption DEF BInv, SectionsInBounds
  <2>3. CASE mode[g] = "EXCLUSIVE" /\ word' # word
    <3>1. /\ Lock!ReleaseStore(g, "ux_store", Lock!UNLOCKED, "none") /\ old[g] = word
          /\ held[g] = "exclusive"
      <4>1. Lock!ReleaseStore(g, "ux_store", Lock!UNLOCKED, "none")
        BY <1>0, <2>3 DEF UnlockCall, Lock!UnlockExclusive, Lock!ReleaseAssert, Lock!ReleaseLoad
      <4>2. old[g] = word
        BY <1>0, <4>1 DEF GInv, Free!IInv, Free!ReleaseIsOwed, Lock!ReleaseStore,
                          Lock!Return, Lock!Transition
      <4>3. QED
        BY <1>0, <2>3, <4>1, <4>2 DEF OwnsItsLock
    <3>2. Version(word) < MaxVersion
      BY <3>1 DEF BInv, Bounded!VersionInBounds, Bounded!Version, Version
    <3>3. Version(word)' = Version(word) + 1
      BY <1>2, <3>1, <3>2, WordAssumption, GuardAssumption
         DEF Lock!ReleaseStore, Lock!NextVersionNewState, Lock!Version, Version
    <3>4. mode' = [mode EXCEPT ![g] = "MOVED"] /\ life' = life
      BY <1>0, <3>1, Types
         DEF Unlock, UnlockCall, Lock!ReleaseStore, Lock!Return, Lock!Transition
    <3>5. g \in ExclusiveGuards /\ ExclusiveGuards' = ExclusiveGuards \ {g}
      BY <1>0, <2>3, <3>4, Types DEF ExclusiveGuards
    <3>6. Cardinality(ExclusiveGuards') = Cardinality(ExclusiveGuards) - 1
      BY <3>5, GuardsAreFinite, FS_RemoveElement
    <3>7. QED
      BY <1>2, <3>3, <3>6, GuardsAreFinite, GuardAssumption DEF BInv, SectionsInBounds
  <2>4. QED
    BY <1>0, <2>1, <2>2, <2>3 DEF UnlockCall
<1>4. QED
  BY <1>1, <1>3, CountedLock

LEMMA ConstructCounts ==
  ASSUME BInv, NEW g \in Guards, NEW m \in Modes \ {"MOVED"}, Construct(g, m)
  PROVE  SectionsInBounds'
<1>0. GInv /\ life[g] = "none" /\ mode[g] = "MOVED" /\ word' = word
  BY DEF BInv, GInv, OwnsItsLock, Construct, lockVars
<1>1. word \in Words /\ Version(word) \in Nat
  BY <1>0, Types, WordAssumption DEF Words, Version
<1>2. CASE m = "EXCLUSIVE"
  <2>1. g \notin ExclusiveGuards /\ ExclusiveGuards' = ExclusiveGuards \cup {g}
    BY <1>0, <1>2, Types DEF Construct, ExclusiveGuards
  <2>2. Cardinality(ExclusiveGuards') = Cardinality(ExclusiveGuards) + 1
    BY <2>1, GuardsAreFinite, FS_AddElement
  <2>3. Version(word) + Cardinality(ExclusiveGuards) < MaxVersion
    BY <1>2 DEF Construct
  <2>4. QED
    BY <1>0, <1>1, <2>2, <2>3, GuardsAreFinite, GuardAssumption DEF SectionsInBounds
<1>3. CASE m # "EXCLUSIVE"
  <2>1. ExclusiveGuards' = ExclusiveGuards
    BY <1>0, <1>3, Types DEF Construct, ExclusiveGuards
  <2>2. QED
    BY <1>0, <2>1 DEF BInv, SectionsInBounds
<1>4. QED
  BY <1>2, <1>3

(* What touches neither the lock nor an exclusive guard.                   *)
LEMMA OtherCounts ==
  ASSUME MoveModes \subseteq {"OPTIMISTIC", "MOVED"}, BInv, NEW g \in Guards,
         \/ OptimisticLock(g) \/ CallOptimisticLock(g)
         \/ ValidateOptimisticLock(g) \/ Destroy(g)
         \/ \E h \in Guards : MoveAssign(g, h)
  PROVE  UNCHANGED <<word, held>> /\ SectionsInBounds'
<1>0. GInv
  BY DEF BInv
<1>1. /\ mode[g] \in {"OPTIMISTIC", "MOVED"} /\ held[g] = "none"
      /\ \A h \in Guards : MoveAssign(g, h) => mode[h] \in {"OPTIMISTIC", "MOVED"}
  BY <1>0 DEF GInv, OwnsItsLock, OptimisticLock, CallOptimisticLock,
                 ValidateOptimisticLock, Destroy, MoveAssign
<1>2. UNCHANGED <<word, held>>
  BY <1>0, <1>1, Types
     DEF OptimisticLock, CallOptimisticLock, ValidateOptimisticLock, Destroy, GoOutOfScope,
         MoveAssign, lockVars
<1>3. /\ mode'[g] \in {"OPTIMISTIC", "MOVED"}
      /\ \A h \in Guards \ {g} : mode'[h] = mode[h] /\ life'[h] = life[h]
  BY <1>0, <1>1, Types
     DEF OptimisticLock, CallOptimisticLock, ValidateOptimisticLock, Destroy, GoOutOfScope,
         MoveAssign
<1>4. ExclusiveGuards' = ExclusiveGuards
  BY <1>1, <1>3 DEF ExclusiveGuards
<1>5. QED
  BY <1>2, <1>4 DEF BInv, SectionsInBounds
-----------------------------------------------------------------------------
LEMMA InitBInv == Init => BInv
<1> SUFFICES ASSUME Init PROVE BInv
  OBVIOUS
<1>1. Bounded!StateCountsHolders /\ Bounded!VersionInBounds
  <2>1. Bounded!Init
    BY DEF Init, Lock!Init, Bounded!Init, Lock!InitialWord, Bounded!InitialWord,
           Lock!UNLOCKED, Bounded!UNLOCKED
  <2>2. QED
    BY <2>1, BoundedAssumptions, Bounded!InitCInv DEF Bounded!CInv
<1>2. SectionsInBounds
  <2>1. ExclusiveGuards = {}
    BY DEF Init, ExclusiveGuards
  <2>2. QED
    BY <2>1, FS_EmptySet, GuardAssumption
       DEF Init, Lock!Init, Lock!InitialWord, SectionsInBounds, Version
<1>3. QED
  BY <1>1, <1>2, InitGInv DEF BInv

LEMMA NextBInv ==
  ASSUME MoveModes \subseteq {"OPTIMISTIC", "MOVED"}, MaxVersion < VERSION_LIMIT
  PROVE  BInv /\ [Next]_guardVars => BInv'
<1> SUFFICES ASSUME BInv, [Next]_guardVars PROVE BInv'
  OBVIOUS
<1>1. GInv'
  BY NextGInv DEF BInv
<1>2. CASE UNCHANGED <<word, held>> /\ SectionsInBounds'
  BY <1>1, <1>2, UnseenLock DEF BInv
<1>3. ASSUME NEW g \in Guards, Step(g) PROVE BInv'
  <2>1. ASSUME NEW m \in Modes \ {"MOVED"}, Construct(g, m) PROVE BInv'
    BY <1>2, <2>1, ConstructCounts DEF Construct, lockVars
  <2>2. CASE Acquire(g)
    BY <1>1, <2>2, AcquireCounts DEF BInv
  <2>3. CASE Unlock(g)
    BY <1>1, <2>3, UnlockCounts DEF BInv
  <2>4. QED
    BY <1>2, <1>3, <2>1, <2>2, <2>3, OtherCounts DEF Step
<1>4. CASE UNCHANGED guardVars
  BY <1>2, <1>4 DEF guardVars, BInv, SectionsInBounds, ExclusiveGuards
<1>5. QED
  BY <1>3, <1>4 DEF Next

LEMMA GuardsAreHolders ==
  ASSUME BInv
  PROVE  LockMatchesGuards
<1> DEFINE In(m) == {g \in Guards : life[g] = "alive" /\ mode[g] = m}
<1>0. GInv /\ Bounded!IInv
  BY SameInvariant DEF BInv, GInv
<1>1. \A g \in Guards : /\ held[g] = "exclusive" <=> g \in In("EXCLUSIVE")
                        /\ held[g] = "shared" <=> g \in In("SHARED")
  BY <1>0, Types DEF GInv, OwnsItsLock, Modes
<1>2. Bounded!ExclusiveHolders = In("EXCLUSIVE") /\ Bounded!SharedHolders = In("SHARED")
  BY <1>1 DEF Bounded!ExclusiveHolders, Bounded!SharedHolders
<1>3. LockState(word) = IF In("EXCLUSIVE") # {} THEN EXCLUSIVE ELSE Cardinality(In("SHARED"))
  BY <1>2, BoundedCardinality
     DEF BInv, Bounded!StateCountsHolders, Bounded!LockState, LockState,
         Bounded!EXCLUSIVE, EXCLUSIVE
<1>4. ASSUME NEW g \in In("EXCLUSIVE")
      PROVE  In("SHARED") = {} /\ Cardinality(In("EXCLUSIVE")) = 1
  <2>1. \A h \in Guards \ {g} : held[h] = "none"
    BY <1>0, <1>1 DEF Bounded!IInv, Bounded!ExclusiveIsAlone
  <2>2. In("SHARED") = {} /\ In("EXCLUSIVE") = {g}
    BY <1>1, <2>1
  <2>3. QED
    BY <2>2, FS_Singleton
<1>5. QED
  BY <1>3, <1>4 DEF LockMatchesGuards

(* The inductive invariant is an invariant of HybridGuard.                 *)
THEOREM Invariance ==
  ASSUME MoveModes \subseteq {"OPTIMISTIC", "MOVED"}, MaxVersion < VERSION_LIMIT
  PROVE  Spec => []BInv
<1>1. BInv /\ [Next]_guardVars => BInv'
  BY NextBInv
<1>2. QED
  BY <1>1, InitBInv, PTL DEF Spec

(* No lock outlives its guard and no guard outlives its lock, for any      *)
(* number of guards, threads and readers, as long as only optimistic and   *)
(* empty guards are moved and the version does not wrap.                   *)
THEOREM GuardsAccountForTheLock ==
  ASSUME MoveModes \subseteq {"OPTIMISTIC", "MOVED"}, MaxVersion < VERSION_LIMIT
  PROVE  Spec => []LockMatchesGuards
<1>1. BInv => LockMatchesGuards
  BY GuardsAreHolders
<1>2. QED
  BY <1>1, Invariance, PTL
=============================================================================
