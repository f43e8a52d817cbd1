------------------------ MODULE GuardedCounterProofs ------------------------
(***************************************************************************)
(* The protected integer, for any number of threads and operations, as     *)
(* long as their exclusive sections do not make the version wrap.          *)
(***************************************************************************)
EXTENDS GuardedCounter, FiniteSetTheorems, SequenceTheorems, TLAPS

MostSections == NO_OPS * Cardinality(Threads) + 1

(* The guards of GuardedCounter with what is proved of them.               *)
Proved == INSTANCE HybridGuardProofs WITH
            Guards <- Threads, Owner <- [t \in Threads |-> t],
            MoveModes <- {"MOVED"}, MaxVersion <- MostSections

(* What the proofs below need of the lock and the guards.                  *)
GuardTypes ==
  /\ word \in Words /\ Version(word) \in Nat
  /\ mode \in [Threads -> {"OPTIMISTIC", "SHARED", "EXCLUSIVE", "MOVED"}]
  /\ seen \in [Threads -> Words] /\ old \in [Threads -> Words]
  /\ life \in [Threads -> {"none", "constructing", "alive"}]
  /\ held \in [Threads -> {"none", "shared", "exclusive"}]
  /\ DOMAIN pc = Threads

GuardsHold ==
  \A t \in Threads :
    /\ life[t] = "alive" /\ mode[t] = "SHARED" => held[t] = "shared"
    /\ life[t] = "alive" /\ mode[t] = "EXCLUSIVE" => held[t] = "exclusive"
    /\ life[t] # "alive" \/ mode[t] \in {"OPTIMISTIC", "MOVED"} => held[t] = "none"

WordIsOwned ==
  /\ \A t \in Threads : held[t] = "exclusive" =>
       /\ IsExclusivelyLocked(word) /\ Version(word) < MostSections
       /\ \A u \in Threads \ {t} : held[u] = "none"
  /\ (\A t \in Threads : held[t] # "exclusive") => ~IsExclusivelyLocked(word)
  /\ \A t \in Threads : pc[t] = "ux_store" => old[t] = word

GuardFacts == GuardTypes /\ GuardsHold /\ WordIsOwned
-----------------------------------------------------------------------------
LEMMA MostSectionsType == Cardinality(Threads) \in Nat /\ MostSections \in Nat
<1>1. Cardinality(Threads) \in Nat
  BY CounterAssumption, FS_CardinalityType
<1>2. QED
  BY <1>1, CounterAssumption DEF MostSections

LEMMA ProvedAssumptions == Proved!GuardAssumption /\ Proved!WordAssumption
<1>1. Proved!IsFiniteSet(Threads)
  BY CounterAssumption DEF Proved!IsFiniteSet, IsFiniteSet
<1>2. QED
  BY <1>1, MostSectionsType, WordAssumption
     DEF Proved!GuardAssumption, Proved!WordAssumption, Proved!Modes

LEMMA SameLockCalls ==
  ASSUME NEW g
  PROVE  /\ Guard!Lock!StateAndVersion(g) <=> Proved!Lock!StateAndVersion(g)
         /\ Guard!Lock!TryLockShared(g) <=> Proved!Lock!TryLockShared(g)
         /\ Guard!Lock!TryLockExclusive(g) <=> Proved!Lock!TryLockExclusive(g)
         /\ Guard!Lock!UnlockSharedLoad(g) <=> Proved!Lock!UnlockSharedLoad(g)
         /\ Guard!Lock!UnlockSharedCas(g) <=> Proved!Lock!UnlockSharedCas(g)
         /\ Guard!Lock!UnlockSharedRetry(g) <=> Proved!Lock!UnlockSharedRetry(g)
         /\ Guard!Lock!UnlockExclusive(g) <=> Proved!Lock!UnlockExclusive(g)
<1> USE DEF Guard!Lock!UNLOCKED, Proved!Lock!UNLOCKED,
            Guard!Lock!EXCLUSIVE, Proved!Lock!EXCLUSIVE,
            Guard!Lock!LockState, Proved!Lock!LockState,
            Guard!Lock!Version, Proved!Lock!Version,
            Guard!Lock!InitialWord, Proved!Lock!InitialWord,
            Guard!Lock!IsSharedLocked, Proved!Lock!IsSharedLocked,
            Guard!Lock!IsExclusivelyLocked, Proved!Lock!IsExclusivelyLocked,
            Guard!Lock!SameVersionNewState, Proved!Lock!SameVersionNewState,
            Guard!Lock!Transition, Proved!Lock!Transition,
            Guard!Lock!Return, Proved!Lock!Return,
            Guard!Lock!Exchange, Proved!Lock!Exchange,
            Guard!Lock!NoExchange, Proved!Lock!NoExchange,
            Guard!Lock!AssertThen, Proved!Lock!AssertThen
<1>1. Guard!Lock!StateAndVersion(g) <=> Proved!Lock!StateAndVersion(g)
  BY DEF Guard!Lock!StateAndVersion, Proved!Lock!StateAndVersion
<1>2. Guard!Lock!TryLockShared(g) <=> Proved!Lock!TryLockShared(g)
  BY DEF Guard!Lock!TryLockShared, Proved!Lock!TryLockShared
<1>3. Guard!Lock!TryLockExclusive(g) <=> Proved!Lock!TryLockExclusive(g)
  BY DEF Guard!Lock!TryLockExclusive, Proved!Lock!TryLockExclusive
<1>4. Guard!Lock!UnlockSharedLoad(g) <=> Proved!Lock!UnlockSharedLoad(g)
  BY DEF Guard!Lock!UnlockSharedLoad, Proved!Lock!UnlockSharedLoad
<1>5. Guard!Lock!UnlockSharedCas(g) <=> Proved!Lock!UnlockSharedCas(g)
  BY DEF Guard!Lock!UnlockSharedCas, Proved!Lock!UnlockSharedCas
<1>6. Guard!Lock!UnlockSharedRetry(g) <=> Proved!Lock!UnlockSharedRetry(g)
  BY DEF Guard!Lock!UnlockSharedRetry, Proved!Lock!UnlockSharedRetry
<1>7. Guard!Lock!UnlockExclusive(g) <=> Proved!Lock!UnlockExclusive(g)
  BY DEF Guard!Lock!UnlockExclusive, Proved!Lock!UnlockExclusive,
         Guard!Lock!ReleaseAssert, Proved!Lock!ReleaseAssert,
         Guard!Lock!ReleaseLoad, Proved!Lock!ReleaseLoad,
         Guard!Lock!ReleaseStore, Proved!Lock!ReleaseStore,
         Guard!Lock!NextVersionNewState, Proved!Lock!NextVersionNewState
<1>8. QED
  BY <1>1, <1>2, <1>3, <1>4, <1>5, <1>6, <1>7

LEMMA SameGuardCalls ==
  ASSUME NEW g, NEW m
  PROVE  /\ Guard!Construct(g, m) <=> Proved!Construct(g, m)
         /\ Guard!Acquire(g) <=> Proved!Acquire(g)
         /\ Guard!OptimisticLock(g) <=> Proved!OptimisticLock(g)
         /\ Guard!Unlock(g) <=> Proved!Unlock(g)
         /\ Guard!ValidateOptimisticLock(g) <=> Proved!ValidateOptimisticLock(g)
         /\ Guard!Destroy(g) <=> Proved!Destroy(g)
<1> USE DEF Guard!lockVars, Proved!lockVars, Guard!AtRest, Proved!AtRest
<1>1. Guard!Construct(g, m) <=> Proved!Construct(g, m)
  BY DEF Guard!Construct, Proved!Construct, Guard!ExclusiveGuards, Proved!ExclusiveGuards,
         Guard!Version, Proved!Version, Guard!Cardinality, Proved!Cardinality, MostSections
<1>2. Guard!Acquire(g) <=> Proved!Acquire(g)
  BY SameLockCalls DEF Guard!Acquire, Proved!Acquire
<1>3. Guard!OptimisticLock(g) <=> Proved!OptimisticLock(g)
  BY DEF Guard!OptimisticLock, Proved!OptimisticLock,
         Guard!IsExclusivelyLocked, Proved!IsExclusivelyLocked,
         Guard!LockState, Proved!LockState, Guard!EXCLUSIVE, Proved!EXCLUSIVE
<1>4. Guard!Unlock(g) <=> Proved!Unlock(g)
  BY SameLockCalls DEF Guard!Unlock, Proved!Unlock, Guard!UnlockCall, Proved!UnlockCall
<1>5. Guard!ValidateOptimisticLock(g) <=> Proved!ValidateOptimisticLock(g)
  BY DEF Guard!ValidateOptimisticLock, Proved!ValidateOptimisticLock
<1>6. Guard!Destroy(g) <=> Proved!Destroy(g)
  BY DEF Guard!Destroy, Proved!Destroy, Guard!GoOutOfScope, Proved!GoOutOfScope,
         Guard!InitialWord, Proved!InitialWord, Guard!UNLOCKED, Proved!UNLOCKED
<1>7. QED
  BY <1>1, <1>2, <1>3, <1>4, <1>5, <1>6
-----------------------------------------------------------------------------
(* The threads use their guards as HybridGuard lets them.                  *)
LEMMA StepUsesGuard ==
  ASSUME NEW t \in Threads, Step(t)
  PROVE  Proved!Step(t) \/ UNCHANGED guardVars
<1>1. CASE Begin(t)
  BY <1>1, SameGuardCalls DEF Begin, Attempt, Proved!Step, Proved!Modes
<1>2. CASE Enter(t)
  BY <1>2, SameGuardCalls DEF Enter, Proved!Step
<1>3. CASE Check(t) \/ IncrementLoad(t) \/ IncrementStore(t)
  BY <1>3 DEF Check, IncrementLoad, IncrementStore, Load
<1>4. CASE LeavePessimistic(t) \/ LeaveOptimistic(t)
  BY <1>4, SameGuardCalls DEF LeavePessimistic, LeaveOptimistic, Proved!Step
<1>5. CASE End(t)
  BY <1>5, SameGuardCalls DEF End, Proved!Step
<1>6. QED
  BY <1>1, <1>2, <1>3, <1>4, <1>5 DEF Step

THEOREM UsesGuards == Spec => Proved!Spec
<1>1. Init => Proved!Init
  BY DEF Init, Guard!Init, Proved!Init, Guard!Lock!Init, Proved!Lock!Init,
         Guard!InitialWord, Proved!InitialWord, Guard!Lock!InitialWord, Proved!Lock!InitialWord,
         Guard!UNLOCKED, Proved!UNLOCKED, Guard!Lock!UNLOCKED, Proved!Lock!UNLOCKED
<1>2. [Next]_counterVars => [Proved!Next]_Proved!guardVars
  <2> SUFFICES ASSUME [Next]_counterVars PROVE [Proved!Next]_Proved!guardVars
    OBVIOUS
  <2>1. ASSUME NEW t \in Threads, Step(t), Guard!Lock!Running
        PROVE  [Proved!Next]_Proved!guardVars
    <3>1. Proved!Alone(t)
      BY DEF Proved!Alone
    <3>2. Proved!Lock!Running
      BY <2>1 DEF Guard!Lock!Running, Proved!Lock!Running
    <3>3. QED
      BY <2>1, <3>1, <3>2, StepUsesGuard DEF Proved!Next, guardVars, Proved!guardVars
  <2>2. CASE UNCHANGED counterVars
    BY <2>2 DEF counterVars, guardVars, Proved!guardVars
  <2>3. QED
    BY <2>1, <2>2 DEF Next, Joined
<1>3. QED
  BY <1>1, <1>2, PTL DEF Spec, Proved!Spec

LEMMA GuardFactsHold == Proved!BInv => GuardFacts
<1> SUFFICES ASSUME Proved!BInv PROVE GuardFacts
  OBVIOUS
<1>0. Proved!TypeOK /\ Proved!Free!IInv /\ \A t \in Threads : Proved!OwnsItsLock(t)
  BY DEF Proved!BInv, Proved!GInv
<1>1. GuardTypes
  BY <1>0, WordAssumption
     DEF Proved!TypeOK, Proved!Lock!TypeOK, Proved!Lock!Words, Proved!Lock!UNLOCKED,
         Proved!Lock!EXCLUSIVE, Proved!Words, Proved!UNLOCKED, Proved!EXCLUSIVE, Proved!Modes,
         GuardTypes, Words, UNLOCKED, EXCLUSIVE, Version
<1>2. GuardsHold
  BY <1>0 DEF Proved!OwnsItsLock, GuardsHold
<1>3. WordIsOwned
  <2>1. \A t \in Threads : held[t] = "exclusive" =>
          /\ IsExclusivelyLocked(word) /\ \A u \in Threads \ {t} : held[u] = "none"
    BY <1>0 DEF Proved!Free!IInv, Proved!Free!ExclusiveIsAlone, Proved!Free!LockState,
                Proved!Free!EXCLUSIVE, IsExclusivelyLocked, LockState, EXCLUSIVE
  <2>2. \A t \in Threads : held[t] = "exclusive" => Version(word) < MostSections
    BY DEF Proved!BInv, Proved!Bounded!VersionInBounds, Proved!Bounded!Version, Version
  <2>3. (\A t \in Threads : held[t] # "exclusive") => ~IsExclusivelyLocked(word)
    BY <1>0, WordAssumption
       DEF Proved!Free!IInv, Proved!Free!SharedAreCounted, Proved!Free!LockState,
           IsExclusivelyLocked, LockState, EXCLUSIVE
  <2>4. \A t \in Threads : pc[t] = "ux_store" => old[t] = word
    BY <1>0 DEF Proved!Free!IInv, Proved!Free!ReleaseIsOwed
  <2>5. QED
    BY <2>1, <2>2, <2>3, <2>4 DEF WordIsOwned
<1>4. QED
  BY <1>1, <1>2, <1>3 DEF GuardFacts

LEMMA GuardFactsAlways ==
  ASSUME MostSections < VERSION_LIMIT
  PROVE  Spec => []GuardFacts
<1>1. Proved!Spec => []Proved!BInv
  <2>1. {"MOVED"} \subseteq {"OPTIMISTIC", "MOVED"}
    OBVIOUS
  <2>2. QED
    BY <2>1, ProvedAssumptions, Proved!Invariance
<1>2. QED
  BY <1>1, UsesGuards, GuardFactsHold, PTL
-----------------------------------------------------------------------------
(* What each call on a guard does to the word, the guards and what they    *)
(* hold.                                                                   *)
Others(t) ==
  \A u \in Threads \ {t} :
    mode'[u] = mode[u] /\ life'[u] = life[u] /\ held'[u] = held[u] /\ seen'[u] = seen[u]

LEMMA ConstructEffect ==
  ASSUME GuardFacts, NEW t \in Threads, NEW m, Guard!Construct(t, m)
  PROVE  /\ Others(t) /\ word' = word /\ held' = held
         /\ mode'[t] = m /\ life'[t] = "constructing"
BY DEF GuardFacts, GuardTypes, Guard!Construct, Guard!lockVars, Others

LEMMA AcquireEffect ==
  ASSUME GuardFacts, NEW t \in Threads, Guard!Acquire(t)
  PROVE  /\ Others(t) /\ mode' = mode /\ life[t] = "constructing"
         /\ mode[t] \in {"SHARED", "EXCLUSIVE"} /\ held[t] = "none"
         /\ life'[t] \in {"constructing", "alive"}
         /\ Version(word)' = Version(word)
         /\ ~IsExclusivelyLocked(word)' => ~IsExclusivelyLocked(word)
<1>0. held[t] = "none" /\ life[t] = "constructing" /\ mode[t] \in {"SHARED", "EXCLUSIVE"}
  BY DEF GuardFacts, GuardsHold, Guard!Acquire
<1>1. Others(t) /\ mode' = mode
  BY DEF GuardFacts, GuardTypes, Guard!Acquire, Others,
         Guard!Lock!StateAndVersion, Guard!Lock!TryLockShared, Guard!Lock!TryLockExclusive,
         Guard!Lock!Exchange, Guard!Lock!NoExchange
<1>2. Version(word)' = Version(word)
  BY DEF Guard!Acquire, Guard!Lock!StateAndVersion, Guard!Lock!TryLockShared,
         Guard!Lock!TryLockExclusive, Guard!Lock!Exchange, Guard!Lock!NoExchange,
         Guard!Lock!SameVersionNewState, Guard!Lock!Version, Version
<1>3. ~IsExclusivelyLocked(word)' => ~IsExclusivelyLocked(word)
  <2>1. word' = word \/ LockState(word) = UNLOCKED \/ LockState(word) < MAX_SHARED
    BY DEF Guard!Acquire, Guard!Lock!StateAndVersion, Guard!Lock!TryLockShared,
           Guard!Lock!TryLockExclusive, Guard!Lock!Exchange, Guard!Lock!NoExchange,
           Guard!Lock!LockState, LockState, Guard!Lock!UNLOCKED, UNLOCKED
  <2>2. QED
    BY <2>1, WordAssumption DEF IsExclusivelyLocked, LockState, UNLOCKED, EXCLUSIVE
<1>4. life'[t] \in {"constructing", "alive"}
  BY <1>0 DEF GuardFacts, GuardTypes, Guard!Acquire
<1>5. QED
  BY <1>0, <1>1, <1>2, <1>3, <1>4

LEMMA OptimisticLockEffect ==
  ASSUME GuardFacts, NEW t \in Threads, Guard!OptimisticLock(t)
  PROVE  /\ Others(t) /\ word' = word /\ held' = held /\ mode' = mode
         /\ mode[t] = "OPTIMISTIC" /\ seen'[t] = word /\ life[t] = "constructing"
         /\ life'[t] = IF IsExclusivelyLocked(word) THEN "constructing" ELSE "alive"
BY DEF GuardFacts, GuardTypes, Guard!OptimisticLock, Guard!lockVars, Others,
       Guard!IsExclusivelyLocked, IsExclusivelyLocked, Guard!LockState, LockState,
       Guard!EXCLUSIVE, EXCLUSIVE

LEMMA UnlockEffect ==
  ASSUME MostSections < VERSION_LIMIT, GuardFacts, NEW t \in Threads, Guard!Unlock(t)
  PROVE  /\ Others(t) /\ life' = life /\ seen' = seen
         /\ mode[t] \in {"SHARED", "EXCLUSIVE"} /\ mode'[t] \in {mode[t], "MOVED"}
         /\ ~(mode[t] = "EXCLUSIVE" /\ mode'[t] = "MOVED") =>
              /\ Version(word)' = Version(word)
              /\ ~IsExclusivelyLocked(word)' => ~IsExclusivelyLocked(word)
         /\ mode[t] = "EXCLUSIVE" /\ mode'[t] = "MOVED" =>
              Version(word)' = Version(word) + 1
<1>0. life[t] = "alive" /\ mode[t] \in {"SHARED", "EXCLUSIVE"}
  BY DEF Guard!Unlock, Guard!UnlockCall
<1>1. /\ Others(t) /\ life' = life /\ seen' = seen
      /\ mode'[t] = IF pc'[t] = "idle" THEN "MOVED" ELSE mode[t]
  BY DEF GuardFacts, GuardTypes, Guard!Unlock, Guard!UnlockCall, Others,
         Guard!Lock!UnlockSharedLoad, Guard!Lock!UnlockSharedCas, Guard!Lock!UnlockSharedRetry,
         Guard!Lock!UnlockExclusive, Guard!Lock!ReleaseAssert, Guard!Lock!ReleaseLoad,
         Guard!Lock!ReleaseStore, Guard!Lock!Exchange
<1>2. CASE mode[t] = "SHARED"
  <2>1. \A u \in Threads : held[u] # "exclusive"
    BY <1>0, <1>2 DEF GuardFacts, GuardsHold, WordIsOwned
  <2>2. ~IsExclusivelyLocked(word)
    BY <2>1 DEF GuardFacts, WordIsOwned
  <2>3. Version(word)' = Version(word)
    BY <1>2 DEF Guard!Unlock, Guard!UnlockCall, Guard!Lock!UnlockSharedLoad,
                Guard!Lock!UnlockSharedCas, Guard!Lock!UnlockSharedRetry, Guard!Lock!Exchange,
                Guard!Lock!SameVersionNewState, Guard!Lock!Version, Version
  <2>4. QED
    BY <1>1, <1>2, <2>2, <2>3
<1>3. CASE mode[t] = "EXCLUSIVE"
  <2>1. CASE pc'[t] # "idle"
    <3>1. word' = word
      BY <1>3, <2>1 DEF GuardFacts, GuardTypes, Guard!Unlock, Guard!UnlockCall,
         Guard!Lock!UnlockExclusive, Guard!Lock!ReleaseAssert, Guard!Lock!ReleaseLoad,
         Guard!Lock!ReleaseStore, Guard!Lock!Return, Guard!Lock!Transition
    <3>2. QED
      BY <1>1, <1>3, <2>1, <3>1
  <2>2. CASE pc'[t] = "idle"
    <3>1. pc[t] = "ux_store" /\ word' = Guard!Lock!NextVersionNewState(old[t], Guard!Lock!UNLOCKED)
      BY <1>3, <2>2 DEF GuardFacts, GuardTypes, Guard!Unlock, Guard!UnlockCall,
         Guard!Lock!UnlockExclusive, Guard!Lock!ReleaseAssert, Guard!Lock!ReleaseLoad,
         Guard!Lock!ReleaseStore, Guard!Lock!Return, Guard!Lock!Transition, Guard!Lock!AssertThen
    <3>2. old[t] = word /\ Version(word) < MostSections /\ Version(word) \in Nat
      BY <1>0, <1>3, <3>1 DEF GuardFacts, GuardTypes, GuardsHold, WordIsOwned
    <3>3. Version(word)' = Version(word) + 1
      BY <3>1, <3>2, WordAssumption, MostSectionsType
         DEF Guard!Lock!NextVersionNewState, Guard!Lock!Version, Version
    <3>4. QED
      BY <1>1, <1>3, <2>2, <3>3
  <2>3. QED
    BY <2>1, <2>2
<1>4. QED
  BY <1>0, <1>2, <1>3

LEMMA ValidateEffect ==
  ASSUME GuardFacts, NEW t \in Threads, Guard!ValidateOptimisticLock(t)
  PROVE  /\ Others(t) /\ word' = word /\ held' = held /\ life' = life /\ seen' = seen
         /\ mode[t] = "OPTIMISTIC" /\ mode'[t] = "MOVED"
BY DEF GuardFacts, GuardTypes, Guard!ValidateOptimisticLock, Guard!lockVars, Others

LEMMA DestroyEffect ==
  ASSUME GuardFacts, NEW t \in Threads, Guard!Destroy(t)
  PROVE  /\ Others(t) /\ word' = word /\ held' = held
         /\ mode[t] = "MOVED" /\ mode'[t] = "MOVED" /\ life'[t] = "none"
BY DEF GuardFacts, GuardTypes, GuardsHold, Guard!Destroy, Guard!GoOutOfScope, Others
-----------------------------------------------------------------------------
(***************************************************************************)
(* The threads.                                                            *)
(***************************************************************************)
CounterTypes ==
  /\ counter \in Nat
  /\ DOMAIN reads = Threads
  /\ \A t \in Threads : reads[t] \in Seq(Nat) /\ Len(reads[t]) <= 2
  /\ at \in [Threads -> {"outside", "entering", "inside", "incrementing", "leaving", "left"}]
  /\ done \in [Threads -> 0 .. NO_OPS]
  /\ optimistic_restart_cnt \in [Threads -> Nat]

(* Where a thread is tells the state of its guard and what it has loaded.  *)
InPhase(t) ==
  /\ at[t] = "outside" => life[t] = "none" /\ reads[t] = <<>>
  /\ at[t] = "entering" => life[t] = "constructing" /\ reads[t] = <<>>
  /\ at[t] \in {"inside", "incrementing", "leaving"} => life[t] = "alive" /\ mode[t] # "MOVED"
  /\ at[t] = "inside" => reads[t] = <<>> \/ (t \in Readers /\ Len(reads[t]) = 1)
  /\ at[t] = "incrementing" => t \in Writers /\ reads[t] = <<counter>>
  /\ at[t] = "left" => life[t] = "alive" /\ mode[t] = "MOVED"
  /\ at[t] \in {"entering", "inside", "incrementing", "leaving"} =>
       done[t] < NO_OPS /\ (mode[t] = "EXCLUSIVE" <=> t \in Writers)

(* The guard of t would be validated now.                                  *)
StillValid(t) == ~IsExclusivelyLocked(word) /\ Version(word) = Version(seen[t])

SectionsBegun == Version(word) + IF IsExclusivelyLocked(word) THEN 1 ELSE 0

(* What a reader has loaded is current if its guard still protects it; and *)
(* it has not restarted more often than sections had begun when it took    *)
(* its snapshot.                                                           *)
IsCurrent(t) ==
  /\ at[t] \in {"inside", "leaving"} /\ mode[t] = "SHARED" =>
       \A i \in DOMAIN reads[t] : reads[t][i] = counter
  /\ at[t] \in {"inside", "leaving"} /\ mode[t] = "OPTIMISTIC" =>
       /\ Version(seen[t]) <= Version(word)
       /\ StillValid(t) => \A i \in DOMAIN reads[t] : reads[t][i] = counter
       /\ optimistic_restart_cnt[t] <= Version(seen[t])
  /\ optimistic_restart_cnt[t] <= SectionsBegun

(* The version is the number of sections the writers have ended.           *)
VersionCountsSections == Version(word) = Cardinality(Sections(done))

CInv ==
  /\ CounterTypes
  /\ \A t \in Threads : InPhase(t)
  /\ \A t \in Readers : IsCurrent(t)
  /\ VersionCountsSections
  /\ CounterCountsIncrements
-----------------------------------------------------------------------------
(* The number of sections, and what one more of a writer adds to it.       *)
LEMMA SectionsAreFinite ==
  ASSUME NEW n, \A w \in Writers : n[w] \in 0 .. NO_OPS
  PROVE  /\ IsFiniteSet(Sections(n)) /\ Cardinality(Sections(n)) \in Nat
         /\ Cardinality(Sections(n)) <= NO_OPS * Cardinality(Writers)
<1>1. IsFiniteSet(Writers) /\ Cardinality(Writers) \in Nat
  BY CounterAssumption, FS_Subset, FS_CardinalityType
<1>2. IsFiniteSet(1 .. NO_OPS) /\ Cardinality(1 .. NO_OPS) = NO_OPS
  BY CounterAssumption, FS_Interval
<1>3. /\ IsFiniteSet(Writers \X (1 .. NO_OPS))
      /\ Cardinality(Writers \X (1 .. NO_OPS)) = NO_OPS * Cardinality(Writers)
  <2>1. /\ IsFiniteSet(Writers \X (1 .. NO_OPS))
        /\ Cardinality(Writers \X (1 .. NO_OPS)) = Cardinality(Writers) * Cardinality(1 .. NO_OPS)
    BY <1>1, <1>2, FS_Product
  <2>2. Cardinality(Writers) * NO_OPS = NO_OPS * Cardinality(Writers)
    BY <1>1, CounterAssumption
  <2>3. QED
    BY <1>2, <2>1, <2>2
<1>4. Sections(n) \in SUBSET (Writers \X (1 .. NO_OPS))
  BY CounterAssumption DEF Sections
<1>5. QED
  BY <1>3, <1>4, FS_Subset, FS_CardinalityType

LEMMA OneMoreSection ==
  ASSUME NEW n, NEW m, \A v \in Writers : n[v] \in 0 .. NO_OPS,
         NEW w \in Writers, m[w] = n[w] + 1, \A v \in Writers \ {w} : m[v] = n[v]
  PROVE  Cardinality(Sections(m)) = Cardinality(Sections(n)) + 1
<1>1. n[w] \in Nat
  OBVIOUS
<1>2. 1 .. n[w] + 1 = (1 .. n[w]) \cup {n[w] + 1} /\ n[w] + 1 \notin 1 .. n[w]
  BY <1>1
<1>3. <<w, n[w] + 1>> \notin Sections(n)
  BY <1>2 DEF Sections
<1>4. Sections(m) = Sections(n) \cup {<<w, n[w] + 1>>}
  <2>1. \A v, i : <<v, i>> \in Sections(m) <=> v \in Writers /\ i \in 1 .. m[v]
    BY DEF Sections
  <2>2. \A v, i : <<v, i>> \in Sections(n) <=> v \in Writers /\ i \in 1 .. n[v]
    BY DEF Sections
  <2>3. \A x \in Sections(m) \cup Sections(n) : \E v, i : x = <<v, i>>
    BY DEF Sections
  <2>4. \A v, i : <<v, i>> \in Sections(m) <=>
          <<v, i>> \in Sections(n) \/ <<v, i>> = <<w, n[w] + 1>>
    BY <1>2, <2>1, <2>2
  <2>5. QED
    BY <2>3, <2>4
<1>5. IsFiniteSet(Sections(n))
  BY SectionsAreFinite
<1>6. Cardinality(Sections(n) \cup {<<w, n[w] + 1>>}) = Cardinality(Sections(n)) + 1
  BY <1>3, <1>5, FS_AddElement
<1>7. QED
  BY <1>4, <1>6
-----------------------------------------------------------------------------
(* What a step of t means for the other threads.                           *)
OthersWait(t) ==
  /\ Others(t)
  /\ \A u \in Threads \ {t} :
       /\ at'[u] = at[u] /\ reads'[u] = reads[u] /\ done'[u] = done[u]
       /\ optimistic_restart_cnt'[u] = optimistic_restart_cnt[u]

SameSection ==
  /\ Version(word)' = Version(word)
  /\ ~IsExclusivelyLocked(word)' => ~IsExclusivelyLocked(word)

NextSection == Version(word)' = Version(word) + 1

LEMMA MoreSectionsBegun ==
  ASSUME GuardFacts, SameSection \/ NextSection
  PROVE  SectionsBegun \in Nat /\ SectionsBegun' \in Nat /\ SectionsBegun <= SectionsBegun'
BY DEF GuardFacts, GuardTypes, SameSection, NextSection, SectionsBegun

LEMMA OthersKeepPhase ==
  ASSUME CInv, NEW t \in Threads, OthersWait(t), counter' = counter
  PROVE  \A u \in Threads \ {t} : InPhase(u)'
BY DEF CInv, InPhase, OthersWait, Others

LEMMA OthersStayCurrent ==
  ASSUME CInv, GuardFacts, NEW t \in Threads, OthersWait(t), counter' = counter,
         SameSection \/ NextSection
  PROVE  \A u \in Readers \ {t} : IsCurrent(u)'
<1> SUFFICES ASSUME NEW u \in Readers \ {t} PROVE IsCurrent(u)'
  OBVIOUS
<1>0. u \in Threads /\ IsCurrent(u) /\ optimistic_restart_cnt[u] \in Nat
  BY DEF CInv, CounterTypes, Readers
<1>1. SectionsBegun \in Nat /\ SectionsBegun' \in Nat /\ SectionsBegun <= SectionsBegun'
  BY MoreSectionsBegun
<1>2. /\ at'[u] = at[u] /\ reads'[u] = reads[u] /\ mode'[u] = mode[u] /\ seen'[u] = seen[u]
      /\ optimistic_restart_cnt'[u] = optimistic_restart_cnt[u]
  BY <1>0 DEF OthersWait, Others
<1>3. Version(word) \in Nat /\ Version(seen[u]) \in Nat /\ Version(seen[u])' = Version(seen[u])
  BY <1>0, <1>2, WordAssumption DEF GuardFacts, GuardTypes, Words, Version
<1>4. optimistic_restart_cnt'[u] <= SectionsBegun'
  BY <1>0, <1>1, <1>2 DEF IsCurrent
<1>5. Version(seen[u]) <= Version(word) =>
        /\ Version(seen[u])' <= Version(word)'
        /\ StillValid(u)' => StillValid(u)
  BY <1>3 DEF SameSection, NextSection, StillValid
<1>6. QED
  BY <1>0, <1>2, <1>3, <1>4, <1>5 DEF IsCurrent
-----------------------------------------------------------------------------
(* The steps that store no increment: what remains to show of t.           *)
LEMMA QuietStep ==
  ASSUME CInv, GuardFacts, NEW t \in Threads, OthersWait(t), counter' = counter,
         SameSection \/ NextSection, CounterTypes', InPhase(t)',
         t \in Readers => IsCurrent(t)',
         VersionCountsSections', CounterCountsIncrements'
  PROVE  CInv'
<1>1. \A u \in Threads : InPhase(u)'
  BY OthersKeepPhase
<1>2. \A u \in Readers : IsCurrent(u)'
  BY OthersStayCurrent
<1>3. QED
  BY <1>1, <1>2 DEF CInv

LEMMA SameCounts ==
  ASSUME CInv, NEW t \in Threads, OthersWait(t), counter' = counter,
         Version(word)' = Version(word), done'[t] = done[t],
         at[t] = "leaving" <=> at'[t] = "leaving"
  PROVE  VersionCountsSections' /\ CounterCountsIncrements'
<1>1. \A w \in Writers : w \in Threads
  BY CounterAssumption
<1>2. Sections(done)' = Sections(done)
  <2>1. \A w \in Writers : done'[w] = done[w]
    BY <1>1 DEF OthersWait
  <2>2. QED
    BY <2>1 DEF Sections
<1>3. Sections(Stored)' = Sections(Stored)
  <2>1. \A w \in Writers : Stored'[w] = Stored[w]
    BY <1>1 DEF OthersWait, Stored
  <2>2. QED
    BY <2>1 DEF Sections
<1>4. QED
  BY <1>2, <1>3 DEF CInv, VersionCountsSections, CounterCountsIncrements

LEMMA BeginStep ==
  ASSUME CInv, GuardFacts, NEW t \in Threads, Begin(t)
  PROVE  CInv'
<1>0. CounterTypes /\ InPhase(t) /\ (t \in Readers => IsCurrent(t))
  BY DEF CInv
<1>1. PICK m \in IF t \in Writers THEN {"EXCLUSIVE"} ELSE {"SHARED", "OPTIMISTIC"} :
        Guard!Construct(t, m)
  BY DEF Begin, Attempt
<1>2. /\ Others(t) /\ word' = word /\ mode'[t] = m /\ life'[t] = "constructing"
  BY <1>1, ConstructEffect
<1>3. /\ at[t] = "outside" /\ at' = [at EXCEPT ![t] = "entering"] /\ done[t] < NO_OPS
      /\ UNCHANGED <<counter, reads, done, optimistic_restart_cnt>>
  BY DEF Begin, Attempt, Go
<1>4. OthersWait(t) /\ CounterTypes' /\ at'[t] = "entering"
  BY <1>0, <1>2, <1>3 DEF CounterTypes, OthersWait
<1>5. InPhase(t)'
  BY <1>0, <1>1, <1>2, <1>3, <1>4 DEF InPhase
<1>6. t \in Readers => IsCurrent(t)'
  BY <1>0, <1>2, <1>3, <1>4 DEF IsCurrent, SectionsBegun
<1>7. SameSection
  BY <1>2 DEF SameSection
<1>8. VersionCountsSections' /\ CounterCountsIncrements'
  BY <1>2, <1>3, <1>4, SameCounts
<1>9. QED
  BY <1>3, <1>4, <1>5, <1>6, <1>7, <1>8, QuietStep

LEMMA EnterStep ==
  ASSUME CInv, GuardFacts, NEW t \in Threads, Enter(t)
  PROVE  CInv'
<1>0. CounterTypes /\ InPhase(t) /\ (t \in Readers => IsCurrent(t))
  BY DEF CInv
<1>1. /\ Others(t) /\ mode' = mode /\ life'[t] \in {"constructing", "alive"}
      /\ SameSection /\ mode[t] # "MOVED"
      /\ mode[t] = "OPTIMISTIC" /\ life'[t] = "alive" =>
           word' = word /\ seen'[t] = word /\ ~IsExclusivelyLocked(word)
  <2>1. CASE Guard!Acquire(t)
    BY <2>1, AcquireEffect DEF SameSection
  <2>2. CASE Guard!OptimisticLock(t)
    BY <2>2, OptimisticLockEffect DEF SameSection
  <2>3. QED
    BY <2>1, <2>2 DEF Enter
<1>2. /\ at[t] = "entering"
      /\ at' = [at EXCEPT ![t] = IF life'[t] = "alive" THEN "inside" ELSE "entering"]
      /\ UNCHANGED <<counter, reads, done, optimistic_restart_cnt>>
  BY DEF Enter, Go
<1>3. /\ OthersWait(t) /\ CounterTypes'
      /\ at'[t] = IF life'[t] = "alive" THEN "inside" ELSE "entering"
  BY <1>0, <1>1, <1>2 DEF CounterTypes, OthersWait
<1>4. InPhase(t)'
  BY <1>0, <1>1, <1>2, <1>3 DEF InPhase
<1>5. ASSUME t \in Readers PROVE IsCurrent(t)'
  <2>1. /\ SectionsBegun \in Nat /\ SectionsBegun' \in Nat /\ SectionsBegun <= SectionsBegun'
        /\ optimistic_restart_cnt[t] \in Nat /\ Version(word) \in Nat
    BY <1>0, <1>1, MoreSectionsBegun DEF CounterTypes, GuardFacts, GuardTypes
  <2>2. optimistic_restart_cnt'[t] <= SectionsBegun'
    BY <1>0, <1>2, <1>5, <2>1 DEF IsCurrent
  <2>3. DOMAIN reads'[t] = {}
    BY <1>0, <1>2 DEF InPhase
  <2>4. at'[t] = "inside" /\ mode'[t] = "OPTIMISTIC" =>
          /\ Version(seen[t])' = Version(word) /\ Version(word)' = Version(word)
          /\ optimistic_restart_cnt'[t] <= Version(word)
    BY <1>0, <1>1, <1>2, <1>3, <1>5, <2>1 DEF IsCurrent, SectionsBegun, Version
  <2>5. QED
    BY <1>3, <2>1, <2>2, <2>3, <2>4 DEF IsCurrent
<1>6. VersionCountsSections' /\ CounterCountsIncrements'
  BY <1>1, <1>2, <1>3, SameCounts DEF SameSection
<1>7. QED
  BY <1>1, <1>2, <1>3, <1>4, <1>5, <1>6, QuietStep

LEMMA LoadStep ==
  ASSUME CInv, GuardFacts, NEW t \in Threads, Check(t) \/ IncrementLoad(t)
  PROVE  CInv'
<1>0. CounterTypes /\ InPhase(t) /\ (t \in Readers => IsCurrent(t))
  BY DEF CInv
<1>1. /\ at[t] = "inside" /\ reads' = [reads EXCEPT ![t] = Append(reads[t], counter)]
      /\ UNCHANGED guardVars /\ UNCHANGED <<counter, done, optimistic_restart_cnt>>
      /\ \/ /\ t \in Writers /\ at' = [at EXCEPT ![t] = "incrementing"]
         \/ /\ t \in Readers /\ reads[t] = <<>> /\ at' = [at EXCEPT ![t] = "inside"]
         \/ /\ t \in Readers /\ reads[t] # <<>> /\ at' = [at EXCEPT ![t] = "leaving"]
  BY DEF Check, IncrementLoad, Load, Go
<1>2. /\ reads[t] \in Seq(Nat) /\ counter \in Nat /\ Len(reads[t]) \in {0, 1}
      /\ t \in Writers => reads[t] = <<>>
  <2>1. reads[t] \in Seq(Nat) /\ counter \in Nat
    BY <1>0 DEF CounterTypes
  <2>2. QED
    BY <1>0, <1>1, <2>1 DEF InPhase, Readers
<1>3. /\ Append(reads[t], counter) \in Seq(Nat)
      /\ Len(Append(reads[t], counter)) = Len(reads[t]) + 1
      /\ DOMAIN Append(reads[t], counter) = DOMAIN reads[t] \cup {Len(reads[t]) + 1}
      /\ Append(reads[t], counter)[Len(reads[t]) + 1] = counter
      /\ \A i \in DOMAIN reads[t] : Append(reads[t], counter)[i] = reads[t][i]
      /\ reads[t] = <<>> => Append(reads[t], counter) = <<counter>>
  <2> DEFINE s == reads[t]
  <2>1. s \in Seq(Nat) /\ counter \in Nat /\ Len(s) \in Nat /\ DOMAIN s = 1 .. Len(s)
    BY <1>2, LenProperties
  <2>2. s = <<>> => Append(s, counter) = <<counter>>
    OBVIOUS
  <2> HIDE DEF s
  <2>3. /\ Append(s, counter) \in Seq(Nat) /\ Len(Append(s, counter)) = Len(s) + 1
        /\ Append(s, counter)[Len(s) + 1] = counter
        /\ \A i \in 1 .. Len(s) : Append(s, counter)[i] = s[i]
    BY <2>1, AppendProperties
  <2>4. DOMAIN Append(s, counter) = 1 .. Len(s) + 1
    BY <2>1, <2>3, LenProperties
  <2>5. 1 .. Len(s) + 1 = (1 .. Len(s)) \cup {Len(s) + 1}
    BY <2>1
  <2>6. QED
    BY <2>1, <2>2, <2>3, <2>4, <2>5 DEF s
<1>4. reads'[t] = Append(reads[t], counter)
  BY <1>0, <1>1 DEF CounterTypes
<1>5. Others(t) /\ SameSection /\ UNCHANGED <<word, mode, seen, life>>
  BY <1>1 DEF guardVars, Others, SameSection
<1>6. OthersWait(t)
  BY <1>0, <1>1, <1>5 DEF CounterTypes, OthersWait
<1>7. CounterTypes'
  <2>1. at' \in [Threads -> {"outside", "entering", "inside", "incrementing", "leaving", "left"}]
    BY <1>0, <1>1 DEF CounterTypes
  <2>2. \A u \in Threads : reads'[u] \in Seq(Nat) /\ Len(reads'[u]) <= 2
    <3>1. reads'[t] \in Seq(Nat) /\ Len(reads'[t]) <= 2
      BY <1>2, <1>3, <1>4
    <3>2. \A u \in Threads \ {t} : reads'[u] = reads[u]
      BY <1>6 DEF OthersWait
    <3>3. QED
      BY <1>0, <3>1, <3>2 DEF CounterTypes
  <2>3. QED
    BY <1>0, <1>1, <2>1, <2>2 DEF CounterTypes
<1>8. InPhase(t)'
  <2>1. /\ life[t] = "alive" /\ mode[t] # "MOVED" /\ done[t] < NO_OPS
        /\ mode[t] = "EXCLUSIVE" <=> t \in Writers
    BY <1>0, <1>1 DEF InPhase
  <2>2. /\ at'[t] \in {"inside", "incrementing", "leaving"}
        /\ at'[t] = "incrementing" => t \in Writers /\ reads'[t] = <<counter>>
        /\ at'[t] = "inside" => t \in Readers /\ Len(reads'[t]) = 1
    <3>1. CASE t \in Writers
      BY <1>0, <1>1, <1>2, <1>3, <1>4, <3>1 DEF CounterTypes, Readers
    <3>2. CASE t \notin Writers
      <4>1. reads[t] = <<>> => Len(reads'[t]) = 1
        BY <1>2, <1>3, <1>4
      <4>2. QED
        BY <1>0, <1>1, <3>2, <4>1 DEF CounterTypes
    <3>3. QED
      BY <3>1, <3>2
  <2>3. QED
    BY <1>1, <1>5, <2>1, <2>2 DEF InPhase
<1>9. ASSUME t \in Readers PROVE IsCurrent(t)'
  <2>1. IsCurrent(t) /\ SectionsBegun' = SectionsBegun
        /\ (StillValid(t)' <=> StillValid(t)) /\ Version(seen[t])' = Version(seen[t])
    BY <1>0, <1>5, <1>9 DEF SectionsBegun, StillValid
  <2>2. (\A i \in DOMAIN reads[t] : reads[t][i] = counter) =>
          (\A i \in DOMAIN reads'[t] : reads'[t][i] = counter)
    BY <1>3, <1>4
  <2>3. QED
    BY <1>1, <1>5, <2>1, <2>2 DEF IsCurrent
<1>10. VersionCountsSections' /\ CounterCountsIncrements'
  <2>1. CASE t \in Readers
    <3>1. /\ \A w \in Writers : w \in Threads \ {t}
      BY <2>1, CounterAssumption DEF Readers
    <3>2. Sections(done)' = Sections(done)
      BY <1>1 DEF Sections
    <3>3. Sections(Stored)' = Sections(Stored)
      <4>1. \A w \in Writers : Stored'[w] = Stored[w]
        BY <1>6, <3>1 DEF OthersWait, Stored
      <4>2. QED
        BY <4>1 DEF Sections
    <3>4. QED
      BY <1>1, <1>5, <3>2, <3>3 DEF CInv, VersionCountsSections, CounterCountsIncrements
  <2>2. CASE t \notin Readers
    <3>1. at[t] = "inside" /\ at'[t] = "incrementing"
      BY <1>0, <1>1, <2>2 DEF CounterTypes
    <3>2. QED
      BY <1>1, <1>5, <1>6, <3>1, SameCounts
  <2>3. QED
    BY <2>1, <2>2
<1>11. QED
  BY <1>1, <1>5, <1>6, <1>7, <1>8, <1>9, <1>10, QuietStep

(* The exclusive holder is alone: the value it loaded is still the         *)
(* integer's, and no reader has a guard that would be validated.           *)
LEMMA IncrementStoreStep ==
  ASSUME CInv, GuardFacts, NEW t \in Threads, IncrementStore(t)
  PROVE  CInv' /\ counter' = counter + 1
<1>0. CounterTypes /\ InPhase(t)
  BY DEF CInv
<1>1. /\ at[t] = "incrementing" /\ at' = [at EXCEPT ![t] = "leaving"]
      /\ counter' = reads[t][1] + 1
      /\ UNCHANGED guardVars /\ UNCHANGED <<reads, done, optimistic_restart_cnt>>
  BY DEF IncrementStore, Go
<1>2. /\ t \in Writers /\ reads[t] = <<counter>> /\ life[t] = "alive" /\ mode[t] = "EXCLUSIVE"
      /\ done[t] < NO_OPS /\ counter \in Nat
  BY <1>0, <1>1 DEF InPhase, CounterTypes
<1>3. counter' = counter + 1
  BY <1>1, <1>2
<1>4. /\ held[t] = "exclusive" /\ IsExclusivelyLocked(word)
      /\ \A u \in Threads \ {t} : held[u] = "none"
  BY <1>2 DEF GuardFacts, GuardsHold, WordIsOwned
<1>5. UNCHANGED <<word, mode, seen, life, held>>
  BY <1>1 DEF guardVars
<1>6. CounterTypes'
  BY <1>0, <1>1, <1>3 DEF CounterTypes
<1>7. at'[t] = "leaving" /\ \A u \in Threads \ {t} : at'[u] = at[u]
  BY <1>0, <1>1 DEF CounterTypes
<1>8. ASSUME NEW u \in Threads PROVE InPhase(u)'
  <2>1. CASE u = t
    BY <1>1, <1>2, <1>5, <1>7, <2>1 DEF InPhase
  <2>2. CASE u # t
    <3>1. ~(life[u] = "alive" /\ mode[u] = "EXCLUSIVE")
      BY <1>4, <2>2 DEF GuardFacts, GuardsHold
    <3>2. at[u] # "incrementing"
      BY <3>1 DEF CInv, InPhase
    <3>3. QED
      BY <1>1, <1>5, <1>7, <2>2, <3>2 DEF CInv, InPhase
  <2>3. QED
    BY <2>1, <2>2
<1>9. ASSUME NEW u \in Readers PROVE IsCurrent(u)'
  <2>1. u \in Threads \ {t} /\ InPhase(u) /\ IsCurrent(u)
    BY <1>2, <1>9 DEF Readers, CInv
  <2>2. ~(at[u] \in {"inside", "leaving"} /\ mode[u] = "SHARED")
    BY <1>4, <2>1 DEF InPhase, GuardFacts, GuardsHold
  <2>3. ~StillValid(u)'
    BY <1>4, <1>5 DEF StillValid
  <2>4. SectionsBegun' = SectionsBegun /\ Version(seen[u])' = Version(seen[u])
        /\ Version(word)' = Version(word)
    BY <1>5 DEF SectionsBegun
  <2>5. QED
    BY <1>1, <1>5, <1>7, <2>1, <2>2, <2>3, <2>4 DEF IsCurrent
<1>10. VersionCountsSections'
  <2>1. Sections(done)' = Sections(done)
    BY <1>1 DEF Sections
  <2>2. QED
    BY <1>5, <2>1 DEF CInv, VersionCountsSections
<1>11. CounterCountsIncrements'
  <2>1. \A v \in Writers : Stored[v] \in 0 .. NO_OPS
    BY CounterAssumption DEF CInv, CounterTypes, InPhase, Stored
  <2>2. /\ Stored'[t] = Stored[t] + 1
        /\ \A v \in Writers \ {t} : Stored'[v] = Stored[v]
    BY <1>0, <1>1, <1>2, <1>7, CounterAssumption DEF Stored, CounterTypes
  <2>3. Cardinality(Sections(Stored')) = Cardinality(Sections(Stored)) + 1
    BY <1>2, <2>1, <2>2, OneMoreSection
  <2>4. Sections(Stored)' = Sections(Stored')
    BY DEF Sections
  <2>5. QED
    BY <1>3, <2>3, <2>4 DEF CInv, CounterCountsIncrements
<1>12. QED
  BY <1>3, <1>6, <1>8, <1>9, <1>10, <1>11 DEF CInv

(* An operation that ends and a section of a writer that ends with it.     *)
LEMMA LeavePessimisticStep ==
  ASSUME MostSections < VERSION_LIMIT,
         CInv, GuardFacts, NEW t \in Threads, LeavePessimistic(t)
  PROVE  CInv'
<1>0. CounterTypes /\ InPhase(t) /\ (t \in Readers => IsCurrent(t))
  BY DEF CInv
<1>1. /\ Others(t) /\ life' = life /\ seen' = seen
      /\ mode[t] \in {"SHARED", "EXCLUSIVE"} /\ mode'[t] \in {mode[t], "MOVED"}
      /\ ~(mode[t] = "EXCLUSIVE" /\ mode'[t] = "MOVED") => SameSection
      /\ mode[t] = "EXCLUSIVE" /\ mode'[t] = "MOVED" => NextSection
  BY UnlockEffect DEF LeavePessimistic, SameSection, NextSection
<1>2. /\ at[t] = "leaving" /\ UNCHANGED <<counter, reads, optimistic_restart_cnt>>
      /\ mode'[t] = "MOVED" =>
           at' = [at EXCEPT ![t] = "left"] /\ done' = [done EXCEPT ![t] = done[t] + 1]
      /\ mode'[t] # "MOVED" => at' = [at EXCEPT ![t] = "leaving"] /\ done' = done
  BY DEF LeavePessimistic, Go, Complete
<1>3. /\ life[t] = "alive" /\ done[t] \in 0 .. NO_OPS /\ done[t] < NO_OPS
      /\ mode[t] = "EXCLUSIVE" <=> t \in Writers
  BY <1>0, <1>2 DEF InPhase, CounterTypes
<1>4. OthersWait(t) /\ CounterTypes'
  <2>1. OthersWait(t)
    BY <1>0, <1>1, <1>2 DEF CounterTypes, OthersWait
  <2>2. done[t] + 1 \in 0 .. NO_OPS
    BY <1>3, CounterAssumption
  <2>3. done' \in [Threads -> 0 .. NO_OPS]
    BY <1>0, <1>2, <2>2 DEF CounterTypes
  <2>4. at' \in [Threads -> {"outside", "entering", "inside", "incrementing", "leaving", "left"}]
    BY <1>0, <1>2 DEF CounterTypes
  <2>5. optimistic_restart_cnt' \in [Threads -> Nat]
    BY <1>0, <1>2, <1>3 DEF CounterTypes
  <2>6. QED
    BY <1>0, <1>2, <2>1, <2>3, <2>4, <2>5 DEF CounterTypes
<1>5. /\ at'[t] = IF mode'[t] = "MOVED" THEN "left" ELSE "leaving"
      /\ done'[t] = IF mode'[t] = "MOVED" THEN done[t] + 1 ELSE done[t]
  BY <1>0, <1>2 DEF CounterTypes
<1>6. InPhase(t)'
  BY <1>0, <1>1, <1>2, <1>3, <1>5 DEF InPhase
<1>7. ASSUME t \in Readers PROVE IsCurrent(t)'
  <2>1. /\ SectionsBegun \in Nat /\ SectionsBegun' \in Nat /\ SectionsBegun <= SectionsBegun'
        /\ optimistic_restart_cnt[t] \in Nat
    BY <1>0, <1>1, MoreSectionsBegun DEF CounterTypes
  <2>2. optimistic_restart_cnt'[t] <= SectionsBegun'
    BY <1>0, <1>2, <1>7, <2>1 DEF IsCurrent
  <2>3. QED
    BY <1>0, <1>1, <1>2, <1>5, <1>7, <2>2 DEF IsCurrent
<1>8. VersionCountsSections' /\ CounterCountsIncrements'
  <2>1. CASE mode'[t] # "MOVED"
    BY <1>1, <1>2, <1>4, <1>5, <2>1, SameCounts DEF SameSection
  <2>2. CASE mode'[t] = "MOVED"
    <3>1. ASSUME NEW v \in Writers PROVE Stored'[v] = Stored[v]
      <4>1. done'[t] = done[t] + 1 /\ at'[t] = "left" /\ done[t] \in Nat
        BY <1>3, <1>5, <2>2
      <4>2. CASE v = t
        BY <1>2, <4>1, <4>2 DEF Stored
      <4>3. CASE v # t
        <5>1. done'[v] = done[v] /\ at'[v] = at[v]
          BY <1>4, <4>3, CounterAssumption DEF OthersWait
        <5>2. QED
          BY <5>1 DEF Stored
      <4>4. QED
        BY <4>2, <4>3
    <3>2. CounterCountsIncrements'
      <4>1. Sections(Stored)' = Sections(Stored)
        BY <3>1 DEF Sections
      <4>2. QED
        BY <1>2, <4>1 DEF CInv, CounterCountsIncrements
    <3>3. VersionCountsSections'
      <4>1. CASE t \in Writers
        <5>1. /\ \A v \in Writers : done[v] \in 0 .. NO_OPS
              /\ done'[t] = done[t] + 1 /\ \A v \in Writers \ {t} : done'[v] = done[v]
          BY <1>0, <1>4, <1>5, <2>2, CounterAssumption DEF CounterTypes, OthersWait
        <5>2. Cardinality(Sections(done')) = Cardinality(Sections(done)) + 1
          BY <4>1, <5>1, OneMoreSection
        <5>3. Sections(done)' = Sections(done')
          BY DEF Sections
        <5>4. Version(word)' = Version(word) + 1
          BY <1>1, <1>3, <2>2, <4>1 DEF NextSection
        <5>5. QED
          BY <5>2, <5>3, <5>4 DEF CInv, VersionCountsSections
      <4>2. CASE t \notin Writers
        <5>1. \A v \in Writers : done'[v] = done[v]
          BY <1>4, <4>2, CounterAssumption DEF OthersWait
        <5>2. Sections(done)' = Sections(done)
          BY <5>1 DEF Sections
        <5>3. Version(word)' = Version(word)
          BY <1>1, <1>3, <4>2 DEF SameSection
        <5>4. QED
          BY <5>2, <5>3 DEF CInv, VersionCountsSections
      <4>3. QED
        BY <4>1, <4>2
    <3>4. QED
      BY <3>2, <3>3
  <2>3. QED
    BY <2>1, <2>2
<1>9. QED
  BY <1>1, <1>2, <1>4, <1>6, <1>7, <1>8, QuietStep
-----------------------------------------------------------------------------
LEMMA ValidIsStillValid ==
  ASSUME NEW t
  PROVE  Guard!Valid(t) <=> StillValid(t)
BY DEF Guard!Valid, StillValid, Guard!IsExclusivelyLocked, IsExclusivelyLocked,
       Guard!LockState, LockState, Guard!EXCLUSIVE, EXCLUSIVE, Guard!Version, Version

LEMMA LeaveOptimisticStep ==
  ASSUME CInv, GuardFacts, NEW t \in Threads, LeaveOptimistic(t)
  PROVE  CInv'
<1>0. CounterTypes /\ InPhase(t)
  BY DEF CInv
<1>1. /\ Others(t) /\ UNCHANGED <<word, held, life, seen>>
      /\ mode[t] = "OPTIMISTIC" /\ mode'[t] = "MOVED"
  BY ValidateEffect DEF LeaveOptimistic
<1>2. /\ at[t] = "leaving" /\ at' = [at EXCEPT ![t] = "left"] /\ UNCHANGED <<counter, reads>>
      /\ \/ /\ done' = [done EXCEPT ![t] = done[t] + 1]
            /\ UNCHANGED optimistic_restart_cnt
         \/ /\ ~StillValid(t) /\ done' = done
            /\ optimistic_restart_cnt' =
                 [optimistic_restart_cnt EXCEPT ![t] = optimistic_restart_cnt[t] + 1]
  BY ValidIsStillValid DEF LeaveOptimistic, Go, Complete
<1>3. /\ t \in Readers /\ life[t] = "alive" /\ done[t] \in 0 .. NO_OPS /\ done[t] < NO_OPS
      /\ optimistic_restart_cnt[t] \in Nat
  BY <1>0, <1>1, <1>2 DEF InPhase, CounterTypes, Readers
<1>4. OthersWait(t) /\ CounterTypes'
  <2>1. OthersWait(t)
    BY <1>0, <1>1, <1>2 DEF CounterTypes, OthersWait
  <2>2. done[t] + 1 \in 0 .. NO_OPS
    BY <1>3, CounterAssumption
  <2>3. done' \in [Threads -> 0 .. NO_OPS]
    BY <1>0, <1>2, <2>2 DEF CounterTypes
  <2>4. at' \in [Threads -> {"outside", "entering", "inside", "incrementing", "leaving", "left"}]
    BY <1>0, <1>2 DEF CounterTypes
  <2>5. optimistic_restart_cnt' \in [Threads -> Nat]
    <3>1. optimistic_restart_cnt \in [Threads -> Nat] /\ optimistic_restart_cnt[t] + 1 \in Nat
      BY <1>0, <1>3 DEF CounterTypes
    <3>2. QED
      BY <1>2, <3>1
  <2>6. QED
    BY <1>0, <1>2, <2>1, <2>3, <2>4, <2>5 DEF CounterTypes
<1>5. at'[t] = "left" /\ SameSection
  BY <1>0, <1>1, <1>2 DEF CounterTypes, SameSection
<1>6. InPhase(t)'
  BY <1>0, <1>1, <1>2, <1>3, <1>5 DEF InPhase
<1>7. IsCurrent(t)'
  <2>1. /\ IsCurrent(t) /\ SectionsBegun' = SectionsBegun
        /\ Version(word) \in Nat /\ Version(seen[t]) \in Nat
    BY <1>1, <1>3, WordAssumption
       DEF CInv, SectionsBegun, GuardFacts, GuardTypes, Words, Version
  <2>2. optimistic_restart_cnt'[t] <= SectionsBegun
    <3>1. CASE optimistic_restart_cnt' = optimistic_restart_cnt
      BY <2>1, <3>1 DEF IsCurrent
    <3>2. CASE ~StillValid(t) /\ optimistic_restart_cnt'[t] = optimistic_restart_cnt[t] + 1
      <4>1. /\ Version(seen[t]) <= Version(word)
            /\ optimistic_restart_cnt[t] <= Version(seen[t])
        BY <1>1, <1>2, <2>1 DEF IsCurrent
      <4>2. Version(seen[t]) + 1 <= SectionsBegun
        BY <2>1, <3>2, <4>1 DEF StillValid, SectionsBegun
      <4>3. QED
        BY <1>3, <2>1, <3>2, <4>1, <4>2 DEF SectionsBegun
    <3>3. QED
      BY <1>0, <1>2, <3>1, <3>2 DEF CounterTypes
  <2>3. QED
    BY <1>5, <2>1, <2>2 DEF IsCurrent
<1>8. VersionCountsSections' /\ CounterCountsIncrements'
  <2>1. \A v \in Writers : done'[v] = done[v] /\ Stored'[v] = Stored[v]
    BY <1>3, <1>4, CounterAssumption DEF OthersWait, Stored, Readers
  <2>2. Sections(done)' = Sections(done) /\ Sections(Stored)' = Sections(Stored)
    BY <2>1 DEF Sections
  <2>3. QED
    BY <1>1, <1>2, <2>2 DEF CInv, VersionCountsSections, CounterCountsIncrements
<1>9. QED
  BY <1>2, <1>4, <1>5, <1>6, <1>7, <1>8, QuietStep

LEMMA EndStep ==
  ASSUME CInv, GuardFacts, NEW t \in Threads, End(t)
  PROVE  CInv'
<1>0. CounterTypes /\ InPhase(t) /\ (t \in Readers => IsCurrent(t))
  BY DEF CInv
<1>1. Others(t) /\ word' = word /\ mode'[t] = "MOVED" /\ life'[t] = "none"
  BY DestroyEffect DEF End
<1>2. /\ at[t] = "left" /\ at' = [at EXCEPT ![t] = "outside"]
      /\ reads' = [reads EXCEPT ![t] = <<>>]
      /\ UNCHANGED <<counter, done, optimistic_restart_cnt>>
  BY DEF End, Go
<1>3. OthersWait(t) /\ CounterTypes' /\ at'[t] = "outside" /\ reads'[t] = <<>>
  BY <1>0, <1>1, <1>2, EmptySeq DEF CounterTypes, OthersWait
<1>4. InPhase(t)' /\ SameSection
  BY <1>1, <1>3 DEF InPhase, SameSection
<1>5. t \in Readers => IsCurrent(t)'
  BY <1>0, <1>1, <1>2, <1>3 DEF IsCurrent, SectionsBegun
<1>6. VersionCountsSections' /\ CounterCountsIncrements'
  BY <1>1, <1>2, <1>3, SameCounts
<1>7. QED
  BY <1>2, <1>3, <1>4, <1>5, <1>6, QuietStep
-----------------------------------------------------------------------------
(***************************************************************************)
(* The invariant, and what follows from it.                                *)
(***************************************************************************)
LEMMA InitCInv == Init => CInv
<1> SUFFICES ASSUME Init PROVE CInv
  OBVIOUS
<1>1. /\ counter = 0 /\ reads = [t \in Threads |-> <<>>]
      /\ at = [t \in Threads |-> "outside"] /\ done = [t \in Threads |-> 0]
      /\ optimistic_restart_cnt = [t \in Threads |-> 0]
      /\ life = [t \in Threads |-> "none"]
  BY DEF Init, Guard!Init
<1>2. Version(word) = 0 /\ ~IsExclusivelyLocked(word)
  BY WordAssumption
     DEF Init, Guard!Init, Guard!Lock!Init, Guard!Lock!InitialWord, Guard!Lock!UNLOCKED,
         Version, IsExclusivelyLocked, LockState, EXCLUSIVE
<1>3. CounterTypes
  <2>1. \A t \in Threads : reads[t] \in Seq(Nat) /\ Len(reads[t]) <= 2
    BY <1>1, EmptySeq
  <2>2. QED
    BY <1>1, <2>1, CounterAssumption DEF CounterTypes
<1>4. \A t \in Threads : InPhase(t)
  BY <1>1 DEF InPhase
<1>5. \A t \in Readers : IsCurrent(t)
  BY <1>1, <1>2 DEF IsCurrent, Readers, SectionsBegun
<1>6. VersionCountsSections /\ CounterCountsIncrements
  <2>1. \A w \in Writers : done[w] = 0 /\ Stored[w] = 0
    BY <1>1, CounterAssumption DEF Stored
  <2>2. Sections(done) = {} /\ Sections(Stored) = {}
    BY <2>1 DEF Sections
  <2>3. Cardinality({}) = 0
    BY FS_EmptySet
  <2>4. QED
    BY <1>1, <1>2, <2>2, <2>3 DEF VersionCountsSections, CounterCountsIncrements
<1>7. QED
  BY <1>3, <1>4, <1>5, <1>6 DEF CInv

LEMMA NextCInv ==
  ASSUME MostSections < VERSION_LIMIT, CInv, GuardFacts, [Next]_counterVars
  PROVE  CInv'
<1>1. ASSUME NEW t \in Threads, Step(t) PROVE CInv'
  <2>1. CASE Begin(t)
    BY <2>1, BeginStep
  <2>2. CASE Enter(t)
    BY <2>2, EnterStep
  <2>3. CASE Check(t) \/ IncrementLoad(t)
    BY <2>3, LoadStep
  <2>4. CASE IncrementStore(t)
    BY <2>4, IncrementStoreStep
  <2>5. CASE LeavePessimistic(t)
    BY <2>5, LeavePessimisticStep
  <2>6. CASE LeaveOptimistic(t)
    BY <2>6, LeaveOptimisticStep
  <2>7. CASE End(t)
    BY <2>7, EndStep
  <2>8. QED
    BY <1>1, <2>1, <2>2, <2>3, <2>4, <2>5, <2>6, <2>7 DEF Step
<1>2. CASE UNCHANGED counterVars
  <2>1. UNCHANGED <<counter, reads, at, done, optimistic_restart_cnt>>
        /\ UNCHANGED <<word, mode, seen, life, held>>
    BY <1>2 DEF counterVars, guardVars
  <2>2. CounterTypes'
    BY <2>1 DEF CInv, CounterTypes
  <2>3. \A t \in Threads : InPhase(t)'
    BY <2>1 DEF CInv, InPhase
  <2>4. \A t \in Readers : IsCurrent(t)'
    BY <2>1 DEF CInv, IsCurrent, StillValid, SectionsBegun
  <2>5. VersionCountsSections' /\ CounterCountsIncrements'
    BY <2>1 DEF CInv, VersionCountsSections, CounterCountsIncrements, Sections, Stored
  <2>6. QED
    BY <2>2, <2>3, <2>4, <2>5 DEF CInv
<1>3. QED
  BY <1>1, <1>2 DEF Next, Joined

(* The invariant of the threads, beside what is proved of their guards.    *)
THEOREM Invariance ==
  ASSUME MostSections < VERSION_LIMIT
  PROVE  Spec => [](CInv /\ GuardFacts)
<1>1. CInv /\ GuardFacts /\ [Next]_counterVars => CInv'
  BY NextCInv
<1>2. Spec => []GuardFacts
  BY GuardFactsAlways
<1>3. QED
  BY <1>1, <1>2, InitCInv, PTL DEF Spec

(* What the writers have stored and what they have begun is bounded by     *)
(* their operations.                                                       *)
LEMMA StoredAndBegun ==
  ASSUME CInv, GuardFacts
  PROVE  \A w \in Writers : Stored[w] \in 0 .. NO_OPS /\ Begun[w] \in 0 .. NO_OPS
<1> SUFFICES ASSUME NEW w \in Writers
             PROVE  Stored[w] \in 0 .. NO_OPS /\ Begun[w] \in 0 .. NO_OPS
  OBVIOUS
<1>1. w \in Threads /\ InPhase(w) /\ done[w] \in 0 .. NO_OPS
  BY CounterAssumption DEF CInv, CounterTypes
<1>2. at[w] = "leaving" => done[w] < NO_OPS
  BY <1>1 DEF InPhase
<1>3. held[w] = "exclusive" => done[w] < NO_OPS
  BY <1>1 DEF InPhase, CInv, CounterTypes, GuardFacts, GuardTypes, GuardsHold
<1>4. Stored[w] \in 0 .. NO_OPS
  BY <1>1, <1>2, CounterAssumption DEF Stored
<1>5. Begun[w] \in 0 .. NO_OPS
  BY <1>1, <1>3, CounterAssumption DEF Begun
<1>6. QED
  BY <1>4, <1>5

(* Who holds the lock in mode EXCLUSIVE is a writer in its section.        *)
LEMMA HolderIsWriter ==
  ASSUME CInv, GuardFacts, NEW t \in Threads, held[t] = "exclusive"
  PROVE  t \in Writers
<1>1. life[t] = "alive" /\ mode[t] = "EXCLUSIVE"
  BY DEF GuardFacts, GuardTypes, GuardsHold
<1>2. InPhase(t) /\ at[t] \in {"outside", "entering", "inside", "incrementing", "leaving", "left"}
  BY DEF CInv, CounterTypes
<1>3. QED
  BY <1>1, <1>2 DEF InPhase

LEMMA SectionsBegunAreCounted ==
  ASSUME CInv, GuardFacts
  PROVE  SectionsBegun = Cardinality(Sections(Begun))
<1>1. \A v \in Writers : done[v] \in 0 .. NO_OPS /\ v \in Threads
  BY CounterAssumption DEF CInv, CounterTypes
<1>2. Version(word) = Cardinality(Sections(done))
  BY DEF CInv, VersionCountsSections
<1>3. CASE \E t \in Threads : held[t] = "exclusive"
  <2>1. PICK t \in Threads : held[t] = "exclusive"
    BY <1>3
  <2>2. t \in Writers
    BY <2>1, HolderIsWriter
  <2>3. IsExclusivelyLocked(word) /\ \A u \in Threads \ {t} : held[u] = "none"
    BY <2>1 DEF GuardFacts, WordIsOwned
  <2>4. /\ Begun[t] = done[t] + 1
        /\ \A v \in Writers \ {t} : Begun[v] = done[v]
    <3>1. Begun[t] = done[t] + 1
      BY <2>1, <2>2 DEF Begun
    <3>2. ASSUME NEW v \in Writers \ {t} PROVE Begun[v] = done[v]
      <4>1. held[v] = "none" /\ done[v] \in Nat
        BY <1>1, <2>3
      <4>2. QED
        BY <4>1 DEF Begun
    <3>3. QED
      BY <3>1, <3>2
  <2>5. Cardinality(Sections(Begun)) = Cardinality(Sections(done)) + 1
    BY <1>1, <2>2, <2>4, OneMoreSection
  <2>6. QED
    BY <1>2, <2>3, <2>5 DEF SectionsBegun
<1>4. CASE \A t \in Threads : held[t] # "exclusive"
  <2>1. ~IsExclusivelyLocked(word)
    BY <1>4 DEF GuardFacts, WordIsOwned
  <2>2. ASSUME NEW v \in Writers PROVE Begun[v] = done[v]
    <3>1. held[v] # "exclusive" /\ done[v] \in Nat
      BY <1>1, <1>4
    <3>2. QED
      BY <3>1 DEF Begun
  <2>3. Sections(Begun) = Sections(done)
    BY <2>2 DEF Sections
  <2>4. Version(word) \in Nat
    BY DEF GuardFacts, GuardTypes
  <2>5. QED
    BY <1>2, <2>1, <2>3, <2>4 DEF SectionsBegun
<1>5. QED
  BY <1>3, <1>4
-----------------------------------------------------------------------------
(* The variables have their types: in particular, the integer never        *)
(* exceeds what the writers add, and a thread never loads a third time.    *)
THEOREM TypeCorrectness ==
  ASSUME MostSections < VERSION_LIMIT
  PROVE  Spec => []TypeOK
<1>1. Proved!Spec => []Proved!TypeOK
  <2>1. {"MOVED"} \subseteq {"OPTIMISTIC", "MOVED"}
    OBVIOUS
  <2>2. QED
    BY <2>1, ProvedAssumptions, Proved!TypeCorrectness
<1>2. Proved!TypeOK => Guard!TypeOK
  BY DEF Proved!TypeOK, Proved!Lock!TypeOK, Proved!Lock!Words, Proved!Lock!UNLOCKED,
         Proved!Lock!EXCLUSIVE, Proved!Words, Proved!UNLOCKED, Proved!EXCLUSIVE, Proved!Modes,
         Guard!TypeOK, Guard!Lock!TypeOK, Guard!Lock!Words, Guard!Lock!UNLOCKED,
         Guard!Lock!EXCLUSIVE, Guard!Words, Guard!UNLOCKED, Guard!EXCLUSIVE, Guard!Modes
<1>3. CInv /\ GuardFacts /\ Guard!TypeOK => TypeOK
  <2> SUFFICES ASSUME CInv, GuardFacts, Guard!TypeOK PROVE TypeOK
    OBVIOUS
  <2>1. /\ Cardinality(Sections(Stored)) <= NO_OPS * Cardinality(Writers)
        /\ Cardinality(Sections(Stored)) \in Nat /\ IsFiniteSet(Writers)
    BY StoredAndBegun, SectionsAreFinite, CounterAssumption, FS_Subset
  <2>2. NO_OPS * Cardinality(Writers) \in Nat
    BY <2>1, CounterAssumption, FS_CardinalityType
  <2>3. counter \in 0 .. NO_OPS * Cardinality(Writers)
    BY <2>1, <2>2 DEF CInv, CounterCountsIncrements
  <2>4. QED
    BY <2>3 DEF CInv, CounterTypes, TypeOK
<1>4. QED
  BY <1>1, <1>2, <1>3, UsesGuards, Invariance, PTL

(* No increment is lost, whatever the threads, their modes and their       *)
(* spurious failures: the integer is the number of increments stored       *)
(* (epoch.cc:48-68).                                                       *)
THEOREM NoIncrementIsLost ==
  ASSUME MostSections < VERSION_LIMIT
  PROVE  Spec => []CounterCountsIncrements
<1>1. CInv => CounterCountsIncrements
  BY DEF CInv
<1>2. QED
  BY <1>1, Invariance, PTL

(* An exclusive section costs a reader at most one restart                 *)
(* (guard.cc:58-65).                                                       *)
THEOREM RestartsAreBounded ==
  ASSUME MostSections < VERSION_LIMIT
  PROVE  Spec => []OneRestartPerSection
<1>1. CInv /\ GuardFacts => OneRestartPerSection
  BY SectionsBegunAreCounted DEF CInv, IsCurrent, OneRestartPerSection
<1>2. QED
  BY <1>1, Invariance, PTL

(* What a reader loaded under a guard that ends without a restart is the   *)
(* integer's value at that moment (guard.cc:58-75).                        *)
THEOREM ReadsAreCurrent ==
  ASSUME MostSections < VERSION_LIMIT
  PROVE  Spec => CommittedReadsAreCurrent
<1> DEFINE Current ==
      \A t \in Readers : done'[t] # done[t] => \A i \in DOMAIN reads[t] : reads[t][i] = counter
<1>1. ASSUME CInv, GuardFacts, NEW t \in Readers, NEW u \in Threads, Step(u), done'[t] # done[t]
      PROVE  \A i \in DOMAIN reads[t] : reads[t][i] = counter
  <2>0. done \in [Threads -> 0 .. NO_OPS] /\ t \in Threads /\ IsCurrent(t) /\ InPhase(t)
    BY <1>1 DEF CInv, CounterTypes, Readers
  <2>1. CASE LeavePessimistic(u)
    <3>1. t = u /\ at[t] = "leaving" /\ mode[t] \in {"SHARED", "EXCLUSIVE"}
      BY <1>1, <2>0, <2>1 DEF LeavePessimistic, Go, Complete, Guard!Unlock, Guard!UnlockCall
    <3>2. mode[t] = "SHARED"
      BY <1>1, <2>0, <3>1 DEF InPhase, Readers
    <3>3. QED
      BY <2>0, <3>1, <3>2 DEF IsCurrent
  <2>2. CASE LeaveOptimistic(u)
    <3>1. t = u /\ at[t] = "leaving" /\ Guard!Valid(t) /\ mode[t] = "OPTIMISTIC"
      BY <1>1, <2>0, <2>2 DEF LeaveOptimistic, Go, Complete, Guard!ValidateOptimisticLock
    <3>2. QED
      BY <2>0, <3>1, ValidIsStillValid DEF IsCurrent
  <2>3. CASE ~(LeavePessimistic(u) \/ LeaveOptimistic(u))
    <3>1. done' = done
      BY <1>1, <2>3 DEF Step, Begin, Attempt, Enter, Check, IncrementLoad, Load, IncrementStore, End
    <3>2. QED
      BY <1>1, <3>1
  <2>4. QED
    BY <2>1, <2>2, <2>3
<1>2. CInv /\ GuardFacts /\ [Next]_counterVars => [Current]_counterVars
  <2> SUFFICES ASSUME CInv, GuardFacts, Next PROVE Current \/ UNCHANGED counterVars
    OBVIOUS
  <2>1. QED
    BY <1>1 DEF Next, Joined
<1>3. Spec => [][Current]_counterVars
  <2> HIDE DEF Current
  <2>1. QED
    BY <1>2, Invariance, PTL DEF Spec
<1>4. QED
  BY <1>3 DEF CommittedReadsAreCurrent
=============================================================================
