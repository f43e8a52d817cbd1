----------------------- MODULE EpochReclamationProofs -----------------------
(***************************************************************************)
(* The grace period of EpochHandler, the order of its bags, and that they  *)
(* neither lose a pointer nor free one twice, for any number of threads,   *)
(* pointers and epochs.                                                    *)
(***************************************************************************)
EXTENDS EpochReclamation, SequenceTheorems, FiniteSetTheorems, TLAPS

(* The slots a thread has loaded for its minimum.                          *)
Scanned(s) ==
  {t \in Threads : pc[s] = "freeing" \/ (pc[s] = "scanning" /\ t < idx[s])}

(* FreeOutdatedPtr stays within the slots.                                 *)
ScansInRange == \A t \in Threads : pc[t] = "scanning" => idx[t] \in Threads

(* Only a thread inside its guard reaches anything.                        *)
ReadersAreInside == \A t \in Threads : visible[t] # {} => pc[t] = "inside"

(* What was deferred or freed is out of the structure: who enters now does *)
(* not reach it.                                                           *)
RetiredAreUnlinked ==
  /\ \A t \in Threads : \A f \in ToSet(to_free_ptr[t]) : f.ptr \notin linked
  /\ \A f \in freed : f.ptr \notin linked

(* A reader that reaches a pointer of the bag was inside before it was     *)
(* deferred: the scan that came later has seen its slot.                   *)
MinimumCoversReaders ==
  \A s \in Threads : \A t \in Scanned(s) : \A f \in ToSet(to_free_ptr[s]) :
    f.ptr \in visible[t] => reg[s] <= local_epoch[t]

IInv ==
  /\ TypeOK
  /\ ScansInRange
  /\ ReadersAreInside
  /\ RetiredAreUnlinked
  /\ MinimumCoversReaders
  /\ GracePeriod

(* Every tag in the bag of t is at most e.                                 *)
TagsUpTo(t, e) == \A f \in ToSet(to_free_ptr[t]) : f.epoch <= e

(* A bag is in the order of its tags, and the next tag will be no smaller: *)
(* inside its guard a thread defers with an epoch it loaded after the      *)
(* earlier ones, outside with 0 and then with MAX_VALUE.                   *)
TagsAscend ==
  \A t \in Threads : \A i, j \in DOMAIN to_free_ptr[t] :
    i < j => to_free_ptr[t][i].epoch <= to_free_ptr[t][j].epoch

NextTagIsLargest ==
  \A t \in Threads :
    /\ "inside" \in RetireAt =>
         /\ TagsUpTo(t, global_epoch)
         /\ pc[t] = "entering" => reg[t] <= global_epoch /\ TagsUpTo(t, reg[t])
         /\ pc[t] = "inside" => local_epoch[t] <= global_epoch /\ TagsUpTo(t, local_epoch[t])
    /\ "outside" \in RetireAt => (pc[t] # "inside" => TagsUpTo(t, local_epoch[t]))

OInv == IInv /\ TagsAscend /\ NextTagIsLargest
-----------------------------------------------------------------------------
(* What the two changes of a bag do to its contents.                       *)
LEMMA BagAppend ==
  ASSUME NEW S, NEW s \in Seq(S), NEW e \in S
  PROVE  Append(s, e) \in Seq(S) /\ ToSet(Append(s, e)) = ToSet(s) \cup {e}
BY AppendProperties, LenProperties DEF ToSet

LEMMA BagErase ==
  ASSUME NEW S, NEW s \in Seq(S), NEW i \in Nat
  PROVE  /\ SubSeq(s, i + 1, Len(s)) \in Seq(S)
         /\ ToSet(SubSeq(s, i + 1, Len(s))) \subseteq ToSet(s)
         /\ Len(SubSeq(s, i + 1, Len(s))) = IF i < Len(s) THEN Len(s) - i ELSE 0
         /\ \A j \in 1 .. Len(s) - i : SubSeq(s, i + 1, Len(s))[j] = s[j + i]
BY LenProperties, SubSeqProperties DEF ToSet

LEMMA BagElement ==
  ASSUME TypeOK, NEW t \in Threads
  PROVE  /\ ToSet(to_free_ptr[t]) \subseteq ToFreePointer
         /\ \A i \in 1 .. Len(to_free_ptr[t]) : to_free_ptr[t][i] \in ToSet(to_free_ptr[t])
<1>1. to_free_ptr[t] \in Seq(ToFreePointer)
  BY DEF TypeOK, HandlerTypeOK
<1>2. QED
  BY <1>1, LenProperties DEF ToSet

LEMMA EpochsBelowMax ==
  /\ \A e \in Epochs \union {MAX_VALUE} : e \in Nat /\ e <= MAX_VALUE
  /\ 0 \in Epochs
BY EpochAssumption DEF Epochs

LEMMA SlotTypes ==
  ASSUME TypeOK, NEW t \in Threads
  PROVE  local_epoch[t] \in Nat /\ reg[t] \in Nat /\ reg[t] <= MAX_VALUE
BY EpochsBelowMax DEF TypeOK, HandlerTypeOK
-----------------------------------------------------------------------------
LEMMA EnterLoadStep ==
  ASSUME IInv, NEW t \in Threads, EnterLoad(t), UNCHANGED clientVars
  PROVE  IInv'
<1> USE DEF IInv, TypeOK, HandlerTypeOK, EnterLoad, Go, Set,
            slotVars, heapVars, clientVars
<1>1. TypeOK'
  OBVIOUS
<1>2. ScansInRange'
  BY DEF ScansInRange
<1>3. ReadersAreInside'
  BY DEF ReadersAreInside
<1>4. RetiredAreUnlinked'
  BY DEF RetiredAreUnlinked
<1>5. MinimumCoversReaders'
  BY DEF MinimumCoversReaders, Scanned
<1>6. GracePeriod'
  BY DEF GracePeriod
<1>7. QED
  BY <1>1, <1>2, <1>3, <1>4, <1>5, <1>6

LEMMA EnterStoreStep ==
  ASSUME IInv, NEW t \in Threads, EnterStore(t),
         visible' = [visible EXCEPT ![t] = linked], UNCHANGED linked
  PROVE  IInv'
<1> USE DEF IInv, TypeOK, HandlerTypeOK, EnterStore, Go, Set, heapVars
<1>1. TypeOK'
  BY EpochsBelowMax
<1>2. ScansInRange'
  BY DEF ScansInRange
<1>3. ReadersAreInside'
  BY DEF ReadersAreInside
<1>4. RetiredAreUnlinked'
  BY DEF RetiredAreUnlinked
<1>5. MinimumCoversReaders'
  BY DEF MinimumCoversReaders, Scanned, RetiredAreUnlinked
<1>6. GracePeriod'
  BY DEF GracePeriod, RetiredAreUnlinked
<1>7. QED
  BY <1>1, <1>2, <1>3, <1>4, <1>5, <1>6

LEMMA ExitStep ==
  ASSUME IInv, NEW t \in Threads, Exit(t)
  PROVE  IInv'
<1> USE DEF IInv, TypeOK, HandlerTypeOK, Exit, Leave, Go, heapVars
<1>1. TypeOK'
  OBVIOUS
<1>2. ScansInRange'
  BY DEF ScansInRange
<1>3. ReadersAreInside'
  BY DEF ReadersAreInside
<1>4. RetiredAreUnlinked'
  BY DEF RetiredAreUnlinked
<1>5. MinimumCoversReaders'
  BY DEF MinimumCoversReaders, Scanned
<1>6. GracePeriod'
  BY DEF GracePeriod
<1>7. QED
  BY <1>1, <1>2, <1>3, <1>4, <1>5, <1>6

LEMMA RetireStep ==
  ASSUME IInv, NEW t \in Threads, NEW p \in Ptrs, Retire(t, p)
  PROVE  IInv'
<1> USE DEF IInv, TypeOK, HandlerTypeOK, Retire, DeferFreePointer, slotVars, callVars
<1> DEFINE f == [ptr |-> p, epoch |-> local_epoch[t]]
<1>1. f \in ToFreePointer
  BY DEF ToFreePointer
<1>2. /\ to_free_ptr'[t] \in Seq(ToFreePointer)
      /\ ToSet(to_free_ptr'[t]) = ToSet(to_free_ptr[t]) \cup {f}
      /\ \A u \in Threads \ {t} : to_free_ptr'[u] = to_free_ptr[u]
  BY <1>1, BagAppend
<1>3. TypeOK'
  BY <1>2
<1>4. ScansInRange' /\ ReadersAreInside' /\ GracePeriod'
  BY DEF ScansInRange, ReadersAreInside, GracePeriod
<1>5. RetiredAreUnlinked'
  BY <1>2 DEF RetiredAreUnlinked
<1>6. pc[t] \in {"inside", "outside"}
  BY RetireAssumption
<1>7. MinimumCoversReaders'
  BY <1>2, <1>6 DEF MinimumCoversReaders, Scanned
<1>8. QED
  BY <1>3, <1>4, <1>5, <1>7

LEMMA ScanBeginStep ==
  ASSUME IInv, NEW t \in Threads, ScanBegin(t), UNCHANGED clientVars
  PROVE  IInv'
<1> USE DEF IInv, TypeOK, HandlerTypeOK, ScanBegin, Go, Set,
            slotVars, heapVars, clientVars
<1>1. TypeOK'
  OBVIOUS
<1>2. ScansInRange'
  BY EpochAssumption DEF ScansInRange, Threads
<1>3. ReadersAreInside'
  BY DEF ReadersAreInside
<1>4. RetiredAreUnlinked'
  BY DEF RetiredAreUnlinked
<1>5. MinimumCoversReaders'
  BY DEF MinimumCoversReaders, Scanned, Threads
<1>6. GracePeriod'
  BY DEF GracePeriod
<1>7. QED
  BY <1>1, <1>2, <1>3, <1>4, <1>5, <1>6

LEMMA ScanSlotStep ==
  ASSUME IInv, NEW t \in Threads, ScanSlot(t), UNCHANGED clientVars
  PROVE  IInv'
<1> USE DEF IInv, TypeOK, HandlerTypeOK, ScanSlot, Go, Set,
            slotVars, heapVars, clientVars
<1>1. idx[t] \in Threads /\ local_epoch[idx[t]] \in Epochs \union {MAX_VALUE}
  BY DEF ScansInRange
<1>2. reg'[t] \in Epochs \union {MAX_VALUE} /\ reg'[t] <= reg[t] /\ reg'[t] <= local_epoch[idx[t]]
  BY <1>1, EpochsBelowMax
<1>3. TypeOK'
  BY <1>1, <1>2
<1>4. ScansInRange'
  <2>1. pc'[t] = "scanning" => idx[t] # no_threads - 1 /\ idx'[t] = idx[t] + 1
    OBVIOUS
  <2>2. \A i \in Threads : i # no_threads - 1 => i + 1 \in Threads
    BY EpochAssumption DEF Threads
  <2>3. pc'[t] = "scanning" => idx'[t] \in Threads
    BY <1>1, <2>1, <2>2
  <2>4. QED
    BY <2>3 DEF ScansInRange
<1>5. ReadersAreInside'
  BY DEF ReadersAreInside
<1>6. RetiredAreUnlinked'
  BY DEF RetiredAreUnlinked
<1>7. \A u \in Scanned(t)' : u \in Scanned(t) \/ u = idx[t]
  BY <1>1, EpochAssumption DEF Scanned, Threads
<1>8. MinimumCoversReaders'
  <2> SUFFICES ASSUME NEW s \in Threads, NEW u \in Scanned(s)',
                      NEW f \in ToSet(to_free_ptr[s]), f.ptr \in visible[u]
               PROVE  reg'[s] <= local_epoch[u]
    BY DEF MinimumCoversReaders
  <2>1. CASE s # t
    BY <2>1 DEF MinimumCoversReaders, Scanned
  <2>2. CASE s = t /\ u = idx[t]
    BY <2>2, <1>2
  <2>3. CASE s = t /\ u \in Scanned(t)
    <3>1. reg[t] <= local_epoch[u] /\ u \in Threads
      BY <2>3 DEF MinimumCoversReaders, Scanned
    <3>2. QED
      BY <2>3, <3>1, <1>2, SlotTypes, EpochsBelowMax
  <2>4. QED
    BY <1>7, <2>1, <2>2, <2>3
<1>9. GracePeriod'
  BY DEF GracePeriod
<1>10. QED
  BY <1>3, <1>4, <1>5, <1>6, <1>8, <1>9

LEMMA FreeNextStep ==
  ASSUME IInv, NEW t \in Threads, FreeNext(t), UNCHANGED clientVars
  PROVE  IInv'
<1> USE DEF IInv, TypeOK, HandlerTypeOK, FreeNext, Set, slotVars, clientVars
<1> DEFINE f == to_free_ptr[t][idx[t] + 1]
<1>1. /\ f \in ToSet(to_free_ptr[t]) /\ f \in ToFreePointer
      /\ f.epoch < reg[t] /\ f.epoch \in Nat
  <2>1. to_free_ptr[t] \in Seq(ToFreePointer) /\ idx[t] + 1 \in 1 .. Len(to_free_ptr[t])
    BY DEF AtOutdated
  <2>2. QED
    BY <2>1, BagElement, EpochsBelowMax DEF AtOutdated, Outdated, ToFreePointer
<1>2. freed' = freed \union {f}
  OBVIOUS
<1>3. TypeOK'
  BY <1>1, <1>2
<1>4. ScansInRange'
  BY DEF ScansInRange
<1>5. ReadersAreInside'
  BY DEF ReadersAreInside
<1>6. RetiredAreUnlinked'
  BY <1>1, <1>2 DEF RetiredAreUnlinked
<1>7. MinimumCoversReaders'
  BY DEF MinimumCoversReaders, Scanned
<1>8. GracePeriod'
  <2> SUFFICES ASSUME NEW u \in Threads, f.ptr \in visible[u]
               PROVE  f.epoch < local_epoch[u]
    BY <1>2 DEF GracePeriod
  <2>1. reg[t] <= local_epoch[u]
    BY <1>1 DEF MinimumCoversReaders, Scanned
  <2>2. QED
    BY <1>1, <2>1, SlotTypes
<1>9. QED
  BY <1>3, <1>4, <1>5, <1>6, <1>7, <1>8

LEMMA EraseFreedStep ==
  ASSUME IInv, NEW t \in Threads, EraseFreed(t), UNCHANGED clientVars
  PROVE  IInv'
<1> USE DEF IInv, TypeOK, HandlerTypeOK, EraseFreed, Go, Set, slotVars, clientVars
<1>1. /\ to_free_ptr'[t] \in Seq(ToFreePointer)
      /\ ToSet(to_free_ptr'[t]) \subseteq ToSet(to_free_ptr[t])
      /\ \A u \in Threads \ {t} : to_free_ptr'[u] = to_free_ptr[u]
  BY BagErase
<1>2. TypeOK'
  BY <1>1, EpochsBelowMax
<1>3. ScansInRange'
  BY DEF ScansInRange
<1>4. ReadersAreInside'
  BY DEF ReadersAreInside
<1>5. RetiredAreUnlinked'
  BY <1>1 DEF RetiredAreUnlinked
<1>6. MinimumCoversReaders'
  BY <1>1 DEF MinimumCoversReaders, Scanned
<1>7. GracePeriod'
  BY DEF GracePeriod
<1>8. QED
  BY <1>2, <1>3, <1>4, <1>5, <1>6, <1>7

LEMMA AdvanceStep ==
  ASSUME IInv, AdvanceGlobalEpoch, UNCHANGED clientVars
  PROVE  IInv'
<1> USE DEF IInv, AdvanceGlobalEpoch, callVars, heapVars, clientVars
<1>1. TypeOK'
  BY EpochAssumption DEF TypeOK, HandlerTypeOK, Epochs
<1>2. QED
  BY <1>1 DEF ScansInRange, ReadersAreInside, RetiredAreUnlinked,
              MinimumCoversReaders, Scanned, GracePeriod

LEMMA DestructStep ==
  ASSUME IInv, Destruct, UNCHANGED clientVars
  PROVE  IInv'
<1> USE DEF IInv, Destruct, slotVars, callVars, clientVars
<1>1. \A t \in Threads : visible[t] = {}
  BY DEF ReadersAreInside
<1>2. \A f \in freed' : f \in freed \/ \E t \in Threads : f \in ToSet(to_free_ptr[t])
  OBVIOUS
<1>3. \A t \in Threads : to_free_ptr'[t] = <<>> /\ ToSet(to_free_ptr'[t]) = {}
  BY DEF ToSet
<1>4. TypeOK'
  BY <1>2, <1>3, BagElement, EmptySeq DEF TypeOK, HandlerTypeOK
<1>5. ScansInRange' /\ ReadersAreInside'
  BY DEF ScansInRange, ReadersAreInside
<1>6. RetiredAreUnlinked'
  BY <1>2, <1>3 DEF RetiredAreUnlinked
<1>7. MinimumCoversReaders' /\ GracePeriod'
  BY <1>1, <1>3 DEF MinimumCoversReaders, GracePeriod, Scanned
<1>8. QED
  BY <1>4, <1>5, <1>6, <1>7
-----------------------------------------------------------------------------
LEMMA InitIInv == Init => IInv
<1> SUFFICES ASSUME Init PROVE IInv
  OBVIOUS
<1> USE DEF Init, HandlerInit
<1>1. TypeOK
  BY EpochsBelowMax, EmptySeq DEF TypeOK, HandlerTypeOK
<1>2. \A t \in Threads : ToSet(to_free_ptr[t]) = {}
  BY DEF ToSet
<1>3. QED
  BY <1>1, <1>2 DEF IInv, ScansInRange, ReadersAreInside, RetiredAreUnlinked,
                    MinimumCoversReaders, GracePeriod

LEMMA NextIInv == IInv /\ [Next]_epochVars => IInv'
<1> SUFFICES ASSUME IInv, [Next]_epochVars PROVE IInv'
  OBVIOUS
<1>1. ASSUME NEW t \in Threads, Step(t) PROVE IInv'
  <2>1. CASE Enter(t)
    BY <2>1, EnterLoadStep, EnterStoreStep DEF Enter
  <2>2. CASE FreeOutdatedPtr(t) /\ UNCHANGED clientVars
    BY <2>2, ScanBeginStep, ScanSlotStep, FreeNextStep, EraseFreedStep DEF FreeOutdatedPtr
  <2>3. QED
    BY <1>1, <2>1, <2>2, ExitStep, RetireStep DEF Step
<1>2. CASE UNCHANGED epochVars
  BY <1>2 DEF epochVars, handlerVars, slotVars, callVars, heapVars, clientVars,
              IInv, TypeOK, HandlerTypeOK, ScansInRange, ReadersAreInside,
              RetiredAreUnlinked, MinimumCoversReaders, Scanned, GracePeriod
<1>3. QED
  BY <1>1, <1>2, AdvanceStep, DestructStep DEF Next, Destructed

(* The inductive invariant is an invariant of EpochReclamation.            *)
THEOREM Invariance == Spec => []IInv
BY InitIInv, NextIInv, PTL DEF Spec

(* The handler's slots, bags and calls always have their types: no scan    *)
(* leaves the slots, and a tag is an epoch or MAX_VALUE.                   *)
THEOREM TypeCorrectness == Spec => []TypeOK
<1>1. IInv => TypeOK
  BY DEF IInv
<1>2. QED
  BY <1>1, Invariance, PTL

(* What a thread can still reach is freed only with a tag below the epoch  *)
(* the thread entered with, for any number of threads, pointers and        *)
(* epochs, and wherever the clients defer.                                 *)
THEOREM GracePeriodHolds == Spec => []GracePeriod
<1>1. IInv => GracePeriod
  BY DEF IInv
<1>2. QED
  BY <1>1, Invariance, PTL
-----------------------------------------------------------------------------
(***************************************************************************)
(* The order of the bags, for clients that defer inside of their guards or *)
(* outside of them, but not both.                                          *)
(***************************************************************************)
LEMMA TagsAreNat ==
  ASSUME TypeOK, NEW t \in Threads, NEW f \in ToSet(to_free_ptr[t])
  PROVE  f.epoch \in Nat /\ f.epoch <= MAX_VALUE
BY BagElement, EpochsBelowMax DEF ToFreePointer

LEMMA EnterLoadOrder ==
  ASSUME OInv, NEW t \in Threads, EnterLoad(t), UNCHANGED clientVars
  PROVE  TagsAscend' /\ NextTagIsLargest'
<1> USE DEF OInv, IInv, TypeOK, HandlerTypeOK, EnterLoad, Go, Set, slotVars, heapVars
<1>1. TagsAscend'
  BY DEF TagsAscend
<1>2. NextTagIsLargest'
  BY EpochsBelowMax DEF NextTagIsLargest, TagsUpTo
<1>3. QED
  BY <1>1, <1>2

LEMMA EnterStoreOrder ==
  ASSUME OInv, NEW t \in Threads, EnterStore(t)
  PROVE  TagsAscend' /\ NextTagIsLargest'
<1> USE DEF OInv, IInv, TypeOK, HandlerTypeOK, EnterStore, Go, Set, heapVars
<1>1. TagsAscend'
  BY DEF TagsAscend
<1>2. NextTagIsLargest'
  BY DEF NextTagIsLargest, TagsUpTo
<1>3. QED
  BY <1>1, <1>2

LEMMA ExitOrder ==
  ASSUME OInv, NEW t \in Threads, Exit(t)
  PROVE  TagsAscend' /\ NextTagIsLargest'
<1> USE DEF OInv, IInv, TypeOK, HandlerTypeOK, Exit, Leave, Go, heapVars
<1>1. TagsAscend'
  BY DEF TagsAscend
<1>2. \A f \in ToSet(to_free_ptr[t]) : f.epoch <= MAX_VALUE
  BY TagsAreNat
<1>3. NextTagIsLargest'
  BY <1>2 DEF NextTagIsLargest, TagsUpTo
<1>4. QED
  BY <1>1, <1>3

LEMMA RetireOrder ==
  ASSUME RetireAt # {"inside", "outside"},
         OInv, NEW t \in Threads, NEW p \in Ptrs, Retire(t, p)
  PROVE  TagsAscend' /\ NextTagIsLargest'
<1> USE DEF OInv, IInv, TypeOK, HandlerTypeOK
<1> DEFINE f == [ptr |-> p, epoch |-> local_epoch[t]]
           bag == to_free_ptr[t]
<1>1. bag \in Seq(ToFreePointer) /\ f \in ToFreePointer
  BY DEF ToFreePointer
<1>2. /\ to_free_ptr' = [to_free_ptr EXCEPT ![t] = Append(bag, f)]
      /\ UNCHANGED <<global_epoch, local_epoch, pc, reg>>
      /\ pc[t] \in RetireAt
  BY DEF Retire, DeferFreePointer, slotVars, callVars
<1>3. TagsUpTo(t, local_epoch[t])
  BY <1>2, RetireAssumption DEF NextTagIsLargest
<1>4. local_epoch[t] \in Nat
  BY SlotTypes
<1>5. TagsAscend'
  <2> SUFFICES ASSUME NEW u \in Threads,
                      NEW i \in DOMAIN to_free_ptr'[u], NEW j \in DOMAIN to_free_ptr'[u], i < j
               PROVE  to_free_ptr'[u][i].epoch <= to_free_ptr'[u][j].epoch
    BY DEF TagsAscend
  <2>1. CASE u # t
    BY <1>2, <2>1 DEF TagsAscend
  <2>2. CASE u = t
    <3>1. /\ Len(bag) \in Nat /\ DOMAIN bag = 1 .. Len(bag)
          /\ to_free_ptr'[t] = Append(bag, f)
          /\ i \in 1 .. Len(bag) + 1 /\ j \in 1 .. Len(bag) + 1
      BY <1>1, <1>2, <2>2, AppendProperties, LenProperties
    <3>2. i \in 1 .. Len(bag) /\ to_free_ptr'[t][i] = bag[i]
      BY <1>1, <3>1, AppendProperties
    <3>3. CASE j = Len(bag) + 1
      <4>1. to_free_ptr'[t][j] = f
        BY <1>1, <3>1, <3>3, AppendProperties
      <4>2. bag[i].epoch <= local_epoch[t]
        BY <1>3, <3>1, <3>2 DEF TagsUpTo, ToSet
      <4>3. QED
        BY <2>2, <3>2, <4>1, <4>2
    <3>4. CASE j # Len(bag) + 1
      <4>1. j \in 1 .. Len(bag) /\ to_free_ptr'[t][j] = bag[j]
        BY <1>1, <3>1, <3>4, AppendProperties
      <4>2. QED
        BY <2>2, <3>1, <3>2, <4>1 DEF TagsAscend
    <3>5. QED
      BY <3>3, <3>4
  <2>3. QED
    BY <2>1, <2>2
<1>6. ToSet(to_free_ptr'[t]) = ToSet(bag) \cup {f}
  BY <1>1, <1>2, BagAppend
<1>7. "inside" \in RetireAt => local_epoch[t] <= global_epoch
  BY <1>2, RetireAssumption DEF NextTagIsLargest
<1>8. \A u \in Threads \ {t} : to_free_ptr'[u] = to_free_ptr[u]
  BY <1>2
<1>9. NextTagIsLargest'
  <2> SUFFICES ASSUME NEW u \in Threads
               PROVE  /\ "inside" \in RetireAt =>
                           /\ TagsUpTo(u, global_epoch)'
                           /\ pc[u] = "entering" => reg[u] <= global_epoch /\ TagsUpTo(u, reg[u])'
                           /\ pc[u] = "inside" =>
                                local_epoch[u] <= global_epoch /\ TagsUpTo(u, local_epoch[u])'
                      /\ "outside" \in RetireAt =>
                           (pc[u] # "inside" => TagsUpTo(u, local_epoch[u])')
    BY <1>2 DEF NextTagIsLargest
  <2>1. CASE u # t
    BY <1>2, <1>8, <2>1 DEF NextTagIsLargest, TagsUpTo
  <2>2. CASE u = t
    BY <1>2, <1>3, <1>4, <1>6, <1>7, <2>2, RetireAssumption DEF NextTagIsLargest, TagsUpTo
  <2>3. QED
    BY <2>1, <2>2
<1>10. QED
  BY <1>5, <1>9

LEMMA ReclaimOrder ==
  ASSUME OInv, NEW t \in Threads, ScanBegin(t) \/ ScanSlot(t) \/ FreeNext(t)
  PROVE  TagsAscend' /\ NextTagIsLargest'
<1> USE DEF OInv, IInv, TypeOK, HandlerTypeOK, slotVars, heapVars
<1>1. /\ UNCHANGED <<global_epoch, local_epoch, to_free_ptr>>
      /\ pc[t] \in {"outside", "scanning", "freeing"} /\ pc'[t] \in {"scanning", "freeing"}
      /\ \A u \in Threads \ {t} : pc'[u] = pc[u] /\ reg'[u] = reg[u]
  BY DEF ScanBegin, ScanSlot, FreeNext, Go, Set
<1>2. TagsAscend'
  BY <1>1 DEF TagsAscend
<1>3. NextTagIsLargest'
  BY <1>1 DEF NextTagIsLargest, TagsUpTo
<1>4. QED
  BY <1>2, <1>3

LEMMA EraseFreedOrder ==
  ASSUME OInv, NEW t \in Threads, EraseFreed(t)
  PROVE  /\ TagsAscend' /\ NextTagIsLargest'
         /\ \A f \in ToSet(to_free_ptr'[t]) : ~Outdated(t, f)
<1> USE DEF OInv, IInv, TypeOK, HandlerTypeOK
<1> DEFINE bag == to_free_ptr[t]
<1>1. bag \in Seq(ToFreePointer) /\ idx[t] \in Nat
  OBVIOUS
<1>2. /\ to_free_ptr'[t] = SubSeq(bag, idx[t] + 1, Len(bag))
      /\ \A u \in Threads \ {t} : to_free_ptr'[u] = to_free_ptr[u] /\ pc'[u] = pc[u]
                                  /\ reg'[u] = reg[u]
      /\ UNCHANGED <<global_epoch, local_epoch>>
      /\ pc[t] = "freeing" /\ pc'[t] = "outside" /\ ~AtOutdated(t)
  BY DEF EraseFreed, Go, Set, slotVars
<1>3. /\ DOMAIN bag = 1 .. Len(bag) /\ Len(bag) \in Nat
      /\ to_free_ptr'[t] \in Seq(ToFreePointer)
      /\ ToSet(to_free_ptr'[t]) \subseteq ToSet(bag)
      /\ DOMAIN to_free_ptr'[t] = 1 .. (IF idx[t] < Len(bag) THEN Len(bag) - idx[t] ELSE 0)
      /\ \A j \in 1 .. Len(bag) - idx[t] : to_free_ptr'[t][j] = bag[j + idx[t]]
  BY <1>1, <1>2, BagErase, LenProperties
<1>4. \A j \in DOMAIN to_free_ptr'[t] :
        j \in Nat /\ j + idx[t] \in DOMAIN bag /\ to_free_ptr'[t][j] = bag[j + idx[t]]
  BY <1>1, <1>3
<1>5. TagsAscend'
  <2> SUFFICES ASSUME NEW u \in Threads,
                      NEW i \in DOMAIN to_free_ptr'[u], NEW j \in DOMAIN to_free_ptr'[u], i < j
               PROVE  to_free_ptr'[u][i].epoch <= to_free_ptr'[u][j].epoch
    BY DEF TagsAscend
  <2>1. CASE u # t
    BY <1>2, <2>1 DEF TagsAscend
  <2>2. CASE u = t
    <3>1. i + idx[t] < j + idx[t]
      BY <1>1, <1>4, <2>2
    <3>2. QED
      BY <1>4, <2>2, <3>1 DEF TagsAscend
  <2>3. QED
    BY <2>1, <2>2
<1>6. NextTagIsLargest'
  BY <1>2, <1>3 DEF NextTagIsLargest, TagsUpTo
<1>7. ASSUME NEW f \in ToSet(to_free_ptr'[t]) PROVE ~Outdated(t, f)
  <2>1. PICK j \in DOMAIN to_free_ptr'[t] : f = to_free_ptr'[t][j]
    BY <1>7 DEF ToSet
  <2>2. idx[t] + 1 \in DOMAIN bag /\ j + idx[t] \in DOMAIN bag /\ f = bag[j + idx[t]]
    BY <1>1, <1>3, <1>4, <2>1
  <2>3. bag[idx[t] + 1].epoch <= f.epoch
    <3>1. CASE j = 1
      BY <2>2, <3>1, TagsAreNat DEF ToSet
    <3>2. CASE j # 1
      <4>1. idx[t] + 1 < j + idx[t]
        BY <1>1, <1>3, <3>2
      <4>2. QED
        BY <2>2, <4>1 DEF TagsAscend
    <3>3. QED
      BY <3>1, <3>2
  <2>4. ~(bag[idx[t] + 1].epoch < reg[t])
    BY <1>1, <1>2, <1>3, <2>2 DEF AtOutdated, Outdated
  <2>5. bag[idx[t] + 1].epoch \in Nat /\ f.epoch \in Nat /\ reg[t] \in Nat
    BY <2>2, TagsAreNat, SlotTypes DEF ToSet
  <2>6. QED
    BY <2>3, <2>4, <2>5 DEF Outdated
<1>8. QED
  BY <1>5, <1>6, <1>7

LEMMA AdvanceOrder ==
  ASSUME OInv, AdvanceGlobalEpoch
  PROVE  TagsAscend' /\ NextTagIsLargest'
<1> USE DEF OInv, IInv, AdvanceGlobalEpoch, callVars, heapVars
<1>1. TagsAscend'
  BY DEF TagsAscend
<1>2. global_epoch \in Nat /\ \A t \in Threads : reg[t] \in Nat /\ local_epoch[t] \in Nat
  BY SlotTypes, EpochsBelowMax DEF TypeOK, HandlerTypeOK
<1>3. \A t \in Threads : TagsUpTo(t, global_epoch) => TagsUpTo(t, global_epoch + 1)
  BY <1>2, TagsAreNat DEF TagsUpTo
<1>4. NextTagIsLargest'
  BY <1>2, <1>3 DEF NextTagIsLargest, TagsUpTo
<1>5. QED
  BY <1>1, <1>4

LEMMA DestructOrder ==
  ASSUME OInv, Destruct
  PROVE  TagsAscend' /\ NextTagIsLargest'
<1> USE DEF OInv, IInv, Destruct, slotVars, callVars
<1>1. \A t \in Threads : to_free_ptr'[t] = <<>> /\ ToSet(to_free_ptr'[t]) = {}
  BY DEF ToSet
<1>2. QED
  BY <1>1 DEF TagsAscend, NextTagIsLargest, TagsUpTo
-----------------------------------------------------------------------------
LEMMA InitOInv == Init => OInv
<1> SUFFICES ASSUME Init PROVE OInv
  OBVIOUS
<1>1. IInv
  BY InitIInv
<1>2. \A t \in Threads : DOMAIN to_free_ptr[t] = {} /\ ToSet(to_free_ptr[t]) = {}
  BY DEF Init, HandlerInit, ToSet
<1>3. TagsAscend /\ NextTagIsLargest
  BY <1>2 DEF Init, HandlerInit, TagsAscend, NextTagIsLargest, TagsUpTo
<1>4. QED
  BY <1>1, <1>3 DEF OInv

LEMMA UnchangedOrder ==
  ASSUME OInv, UNCHANGED epochVars
  PROVE  TagsAscend' /\ NextTagIsLargest'
BY DEF epochVars, handlerVars, slotVars, callVars, heapVars,
       OInv, TagsAscend, NextTagIsLargest, TagsUpTo

LEMMA NextOrder ==
  ASSUME RetireAt # {"inside", "outside"}, OInv, Next
  PROVE  TagsAscend' /\ NextTagIsLargest'
<1>1. ASSUME NEW t \in Threads, Step(t) PROVE TagsAscend' /\ NextTagIsLargest'
  <2>1. CASE Enter(t)
    BY <2>1, EnterLoadOrder, EnterStoreOrder DEF Enter
  <2>2. CASE \E p \in Ptrs : Retire(t, p)
    BY <2>2, RetireOrder
  <2>3. CASE FreeOutdatedPtr(t) /\ UNCHANGED clientVars
    BY <2>3, ReclaimOrder, EraseFreedOrder DEF FreeOutdatedPtr
  <2>4. QED
    BY <1>1, <2>1, <2>2, <2>3, ExitOrder DEF Step
<1>2. QED
  BY <1>1, AdvanceOrder, DestructOrder, UnchangedOrder DEF Next, Destructed

LEMMA NextOInv ==
  ASSUME RetireAt # {"inside", "outside"}
  PROVE  OInv /\ [Next]_epochVars => OInv'
<1> SUFFICES ASSUME OInv, [Next]_epochVars PROVE OInv'
  OBVIOUS
<1>1. IInv'
  BY NextIInv DEF OInv
<1>2. TagsAscend' /\ NextTagIsLargest'
  BY NextOrder, UnchangedOrder
<1>3. QED
  BY <1>1, <1>2 DEF OInv

(* The free loop may stop at the first pointer that is not outdated: if    *)
(* every client defers inside of its guards, or every client outside of    *)
(* them, nothing outdated is left in the bag when FreeOutdatedPtr returns. *)
THEOREM NothingOutdatedIsLeft ==
  ASSUME RetireAt # {"inside", "outside"}
  PROVE  Spec => NoOutdatedLeftBehind
<1> DEFINE Clean == \A t \in Threads : EraseFreed(t) =>
                      \A f \in ToSet(to_free_ptr'[t]) : ~Outdated(t, f)
<1>1. OInv => [Clean]_epochVars
  BY EraseFreedOrder
<1>2. OInv /\ [Next]_epochVars => OInv'
  BY NextOInv
<1>3. Spec => []OInv
  BY <1>2, InitOInv, PTL DEF Spec
<1>4. QED
  BY <1>1, <1>3, PTL DEF NoOutdatedLeftBehind
-----------------------------------------------------------------------------
(***************************************************************************)
(* Where the pointers are.                                                 *)
(***************************************************************************)
FreedOnce == \A f, g \in freed : f.ptr = g.ptr => f = g

WaitsOnce ==
  \A t, u \in Threads : \A i \in DOMAIN Waiting(t), j \in DOMAIN Waiting(u) :
    Waiting(t)[i].ptr = Waiting(u)[j].ptr => t = u /\ i = j

WaitsOrFreed ==
  \A t \in Threads : \A i \in DOMAIN Waiting(t), f \in freed : Waiting(t)[i].ptr # f.ptr

NoneIsLost ==
  \A p \in Ptrs \ linked :
    \/ \E f \in freed : f.ptr = p
    \/ \E t \in Threads : \E i \in DOMAIN Waiting(t) : Waiting(t)[i].ptr = p

Once == FreedOnce /\ WaitsOnce /\ WaitsOrFreed /\ NoneIsLost

PInv == IInv /\ Once
-----------------------------------------------------------------------------
LEMMA WaitingFacts ==
  ASSUME TypeOK, NEW t \in Threads
  PROVE  /\ Waiting(t) \in Seq(ToFreePointer)
         /\ Len(Waiting(t)) \in Nat
         /\ DOMAIN Waiting(t) = 1 .. Len(Waiting(t))
         /\ \A i \in DOMAIN Waiting(t) : Waiting(t)[i] \in ToSet(to_free_ptr[t])
<1>1. to_free_ptr[t] \in Seq(ToFreePointer) /\ idx[t] \in Nat
  BY DEF TypeOK, HandlerTypeOK
<1>2. Waiting(t) \in Seq(ToFreePointer) /\ ToSet(Waiting(t)) \subseteq ToSet(to_free_ptr[t])
  BY <1>1, BagErase DEF Waiting
<1>3. QED
  BY <1>2, LenProperties DEF ToSet

(* What waits, as what is freed, is no longer in the structure.            *)
LEMMA WaitingIsUnlinked ==
  ASSUME IInv, NEW t \in Threads, NEW i \in DOMAIN Waiting(t)
  PROVE  Waiting(t)[i].ptr \notin linked
BY WaitingFacts DEF IInv, RetiredAreUnlinked

(* The part of a bag from position m on, and what one element less of it   *)
(* holds.                                                                  *)
LEMMA Suffix ==
  ASSUME NEW S, NEW s \in Seq(S), NEW m \in 1 .. Len(s) + 1
  PROVE  /\ DOMAIN SubSeq(s, m, Len(s)) = 1 .. Len(s) + 1 - m
         /\ \A j \in 1 .. Len(s) + 1 - m : SubSeq(s, m, Len(s))[j] = s[j + m - 1]
<1>1. Len(s) \in Nat /\ m \in Nat \ {0} /\ \A j \in m .. Len(s) : s[j] \in S
  BY LenProperties
<1>2. /\ SubSeq(s, m, Len(s)) \in Seq(S)
      /\ Len(SubSeq(s, m, Len(s))) = Len(s) + 1 - m
      /\ \A j \in 1 .. Len(s) + 1 - m : SubSeq(s, m, Len(s))[j] = s[j + m - 1]
  BY <1>1, SubSeqProperties
<1>3. QED
  BY <1>2, LenProperties

(* v is w without its first element.                                      *)
IsRest(v, w, first) ==
  /\ 1 \in DOMAIN w /\ w[1] = first
  /\ \A j \in DOMAIN v : /\ j + 1 # 1 /\ j + 1 \in DOMAIN w /\ v[j] = w[j + 1]
                         /\ \A i \in DOMAIN v : i + 1 = j + 1 => i = j
  /\ \A i \in DOMAIN w \ {1} : i - 1 \in DOMAIN v /\ v[i - 1] = w[i]

LEMMA ShorterSuffix ==
  ASSUME NEW S, NEW s \in Seq(S), NEW m \in 1 .. Len(s), NEW n, n = m + 1,
         NEW w, w = SubSeq(s, m, Len(s)), NEW v, v = SubSeq(s, n, Len(s))
  PROVE  IsRest(v, w, s[m])
<1>1. Len(s) \in Nat /\ m \in Nat /\ m \in 1 .. Len(s) + 1 /\ n \in 1 .. Len(s) + 1
  BY LenProperties
<1>2. /\ DOMAIN w = 1 .. Len(s) + 1 - m
      /\ \A j \in 1 .. Len(s) + 1 - m : w[j] = s[j + m - 1]
  BY <1>1, Suffix
<1>3. /\ DOMAIN v = 1 .. Len(s) - m
      /\ \A j \in 1 .. Len(s) - m : v[j] = s[j + m]
  BY <1>1, Suffix
<1>4. 1 \in DOMAIN w /\ w[1] = s[m]
  BY <1>1, <1>2
<1>5. ASSUME NEW j \in DOMAIN v
      PROVE  /\ j + 1 # 1 /\ j + 1 \in DOMAIN w /\ v[j] = w[j + 1]
             /\ \A i \in DOMAIN v : i + 1 = j + 1 => i = j
  <2>1. j \in 1 .. Len(s) - m
    BY <1>3
  <2>2. j + 1 \in 1 .. Len(s) + 1 - m
    BY <1>1, <2>1
  <2>3. w[j + 1] = s[j + m]
    BY <1>1, <1>2, <2>1, <2>2
  <2>4. QED
    BY <1>2, <1>3, <2>1, <2>2, <2>3
<1>6. ASSUME NEW i \in DOMAIN w \ {1}
      PROVE  i - 1 \in DOMAIN v /\ v[i - 1] = w[i]
  <2>1. i \in 1 .. Len(s) + 1 - m
    BY <1>2
  <2>2. i - 1 \in 1 .. Len(s) - m
    BY <1>1, <2>1
  <2>3. v[i - 1] = s[i + m - 1]
    BY <1>1, <1>3, <2>1, <2>2
  <2>4. QED
    BY <1>2, <1>3, <2>1, <2>2, <2>3
<1>7. QED
  BY <1>4, <1>5, <1>6 DEF IsRest

(* The steps that move nothing: also the end of FreeOutdatedPtr, which     *)
(* erases the prefix of the bag that the free loop has left behind.        *)
LEMMA NothingMoves ==
  ASSUME Once, \A t \in Threads : Waiting(t)' = Waiting(t), UNCHANGED <<linked, freed>>
  PROVE  Once'
<1>1. FreedOnce' /\ WaitsOnce' /\ WaitsOrFreed' /\ NoneIsLost'
  BY DEF Once, FreedOnce, WaitsOnce, WaitsOrFreed, NoneIsLost
<1>2. QED
  BY <1>1 DEF Once

LEMMA RetireOnce ==
  ASSUME PInv, NEW t \in Threads, NEW p \in Ptrs, Retire(t, p)
  PROVE  Once'
<1>0. IInv /\ TypeOK /\ Once
  BY DEF PInv, IInv
<1> DEFINE f == [ptr |-> p, epoch |-> local_epoch[t]]
           last == Len(Waiting(t)) + 1
<1>1. /\ f \in ToFreePointer /\ p \in linked /\ linked' = linked \ {p} /\ freed' = freed
      /\ to_free_ptr' = [to_free_ptr EXCEPT ![t] = Append(@, f)]
      /\ UNCHANGED <<pc, idx>> /\ pc[t] # "freeing"
  BY <1>0, RetireAssumption DEF Retire, DeferFreePointer, callVars, ToFreePointer, TypeOK, HandlerTypeOK
<1>2. Waiting(t)' = Append(Waiting(t), f) /\ \A u \in Threads \ {t} : Waiting(u)' = Waiting(u)
  BY <1>0, <1>1 DEF Waiting, TypeOK, HandlerTypeOK
<1>3. /\ DOMAIN Waiting(t)' = DOMAIN Waiting(t) \cup {last} /\ last \notin DOMAIN Waiting(t)
      /\ Waiting(t)'[last] = f
      /\ \A i \in DOMAIN Waiting(t) : Waiting(t)'[i] = Waiting(t)[i]
  <2>1. Waiting(t) \in Seq(ToFreePointer) /\ DOMAIN Waiting(t) = 1 .. Len(Waiting(t))
        /\ Len(Waiting(t)) \in Nat
    BY <1>0, WaitingFacts
  <2>2. DOMAIN Waiting(t)' = 1 .. last
    BY <1>1, <1>2, <2>1, AppendProperties, LenProperties
  <2>3. QED
    BY <1>1, <1>2, <2>1, <2>2, AppendProperties
<1>4. /\ \A u \in Threads : \A i \in DOMAIN Waiting(u) : Waiting(u)[i].ptr # p
      /\ \A g \in freed : g.ptr # p
  BY <1>0, <1>1, WaitingIsUnlinked DEF IInv, RetiredAreUnlinked
<1>5. FreedOnce'
  BY <1>0, <1>1 DEF Once, FreedOnce
<1>6. WaitsOnce'
  BY <1>0, <1>2, <1>3, <1>4 DEF Once, WaitsOnce
<1>7. WaitsOrFreed'
  BY <1>0, <1>1, <1>2, <1>3, <1>4 DEF Once, WaitsOrFreed
<1>8. NoneIsLost'
  BY <1>0, <1>1, <1>2, <1>3 DEF Once, NoneIsLost
<1>9. QED
  BY <1>5, <1>6, <1>7, <1>8 DEF Once

LEMMA FreeNextOnce ==
  ASSUME PInv, NEW t \in Threads, FreeNext(t), UNCHANGED clientVars
  PROVE  Once'
<1>0. TypeOK /\ Once
  BY DEF PInv, IInv
<1> DEFINE bag  == to_free_ptr[t]
           f    == bag[idx[t] + 1]
           wait == Waiting(t)
           rest == Waiting(t)'
<1>1. /\ pc[t] = "freeing" /\ idx[t] < Len(bag)
      /\ freed' = freed \union {f} /\ linked' = linked
      /\ idx' = [idx EXCEPT ![t] = idx[t] + 1] /\ UNCHANGED <<pc, to_free_ptr>>
  BY <1>0 DEF FreeNext, AtOutdated, Set, clientVars
<1>2. bag \in Seq(ToFreePointer) /\ idx[t] \in Nat /\ Len(bag) \in Nat
  BY <1>0, LenProperties DEF TypeOK, HandlerTypeOK
<1>3. \A u \in Threads \ {t} : Waiting(u)' = Waiting(u)
  BY <1>0, <1>1 DEF Waiting, TypeOK, HandlerTypeOK
<1>4. /\ 1 \in DOMAIN wait /\ wait[1] = f
      /\ \A j \in DOMAIN rest : /\ j + 1 # 1 /\ j + 1 \in DOMAIN wait /\ rest[j] = wait[j + 1]
                                /\ \A i \in DOMAIN rest : i + 1 = j + 1 => i = j
      /\ \A i \in DOMAIN wait \ {1} : i - 1 \in DOMAIN rest /\ rest[i - 1] = wait[i]
  <2> DEFINE m == idx[t] + 1
             n == m + 1
  <2>1. wait = SubSeq(bag, m, Len(bag)) /\ rest = SubSeq(bag, n, Len(bag))
    BY <1>0, <1>1 DEF Waiting, TypeOK, HandlerTypeOK
  <2>2. m \in 1 .. Len(bag) /\ n = m + 1 /\ f = bag[m]
    BY <1>1, <1>2
  <2>3. bag \in Seq(ToFreePointer)
    BY <1>2
  <2> HIDE DEF bag, wait, rest, f, m, n
  <2>4. IsRest(rest, wait, bag[m])
    BY <2>1, <2>2, <2>3, ShorterSuffix
  <2>5. QED
    BY <2>2, <2>4 DEF IsRest
<1>5. FreedOnce'
  BY <1>0, <1>1, <1>4 DEF Once, FreedOnce, WaitsOrFreed
<1>6. WaitsOnce'
  <2> SUFFICES ASSUME NEW u \in Threads, NEW v \in Threads,
                      NEW i \in DOMAIN Waiting(u)', NEW j \in DOMAIN Waiting(v)',
                      Waiting(u)'[i].ptr = Waiting(v)'[j].ptr
               PROVE  u = v /\ i = j
    BY DEF WaitsOnce
  <2>1. CASE u = t /\ v = t
    BY <1>0, <1>4, <2>1 DEF Once, WaitsOnce
  <2>2. CASE u = t /\ v # t
    BY <1>0, <1>3, <1>4, <2>2 DEF Once, WaitsOnce
  <2>3. CASE u # t /\ v = t
    BY <1>0, <1>3, <1>4, <2>3 DEF Once, WaitsOnce
  <2>4. CASE u # t /\ v # t
    BY <1>0, <1>3, <2>4 DEF Once, WaitsOnce
  <2>5. QED
    BY <2>1, <2>2, <2>3, <2>4
<1>7. WaitsOrFreed'
  <2> SUFFICES ASSUME NEW u \in Threads, NEW i \in DOMAIN Waiting(u)', NEW g \in freed \union {f}
               PROVE  Waiting(u)'[i].ptr # g.ptr
    BY <1>1 DEF WaitsOrFreed
  <2>1. CASE u = t
    BY <1>0, <1>4, <2>1 DEF Once, WaitsOnce, WaitsOrFreed
  <2>2. CASE u # t
    BY <1>0, <1>3, <1>4, <2>2 DEF Once, WaitsOnce, WaitsOrFreed
  <2>3. QED
    BY <2>1, <2>2
<1>8. NoneIsLost'
  <2> SUFFICES ASSUME NEW p \in Ptrs \ linked, \A g \in freed \union {f} : g.ptr # p
               PROVE  \E u \in Threads : \E j \in DOMAIN Waiting(u)' : Waiting(u)'[j].ptr = p
    BY <1>1 DEF NoneIsLost
  <2>1. PICK u \in Threads : \E i \in DOMAIN Waiting(u) : Waiting(u)[i].ptr = p
    BY <1>0 DEF Once, NoneIsLost
  <2>2. CASE u = t
    BY <1>4, <2>1, <2>2
  <2>3. CASE u # t
    BY <1>3, <2>1, <2>3
  <2>4. QED
    BY <2>2, <2>3
<1>9. QED
  BY <1>5, <1>6, <1>7, <1>8 DEF Once

LEMMA EraseFreedOnce ==
  ASSUME PInv, NEW t \in Threads, EraseFreed(t), UNCHANGED clientVars
  PROVE  Once'
<1> USE DEF PInv, IInv, TypeOK, HandlerTypeOK
<1>1. \A u \in Threads : Waiting(u)' = Waiting(u)
  BY DEF EraseFreed, Go, Set, Waiting
<1>2. UNCHANGED <<linked, freed>>
  BY DEF EraseFreed, clientVars
<1>3. QED
  BY <1>1, <1>2, NothingMoves

LEMMA ScanOnce ==
  ASSUME PInv, NEW t \in Threads, ScanBegin(t) \/ ScanSlot(t), UNCHANGED clientVars
  PROVE  Once'
<1> USE DEF PInv, IInv, TypeOK, HandlerTypeOK
<1>1. /\ pc[t] # "freeing" /\ UNCHANGED <<to_free_ptr, freed>>
      /\ pc'[t] = "freeing" => idx'[t] = 0
      /\ \A u \in Threads \ {t} : pc'[u] = pc[u] /\ idx'[u] = idx[u]
  BY DEF ScanBegin, ScanSlot, Go, Set, heapVars
<1>2. Waiting(t)' = Waiting(t)
  <2>1. SubSeq(to_free_ptr[t], 0 + 1, Len(to_free_ptr[t])) = to_free_ptr[t]
    BY SubSeqFull
  <2>2. QED
    BY <1>1, <2>1 DEF Waiting
<1>3. \A u \in Threads : Waiting(u)' = Waiting(u)
  BY <1>1, <1>2 DEF Waiting
<1>4. QED
  BY <1>1, <1>3, NothingMoves DEF clientVars

LEMMA GuardOnce ==
  ASSUME PInv, NEW t \in Threads, Enter(t) \/ Exit(t)
  PROVE  Once'
<1> USE DEF PInv, IInv, TypeOK, HandlerTypeOK
<1>1. /\ UNCHANGED <<linked, to_free_ptr, freed>>
      /\ pc[t] # "freeing" /\ pc'[t] # "freeing"
      /\ \A u \in Threads \ {t} : pc'[u] = pc[u] /\ idx'[u] = idx[u]
  BY DEF Enter, EnterLoad, EnterStore, Exit, Leave, Go, Set, heapVars, clientVars
<1>2. \A u \in Threads : Waiting(u)' = Waiting(u)
  BY <1>1 DEF Waiting
<1>3. QED
  BY <1>1, <1>2, NothingMoves

LEMMA AdvanceOnce ==
  ASSUME PInv, AdvanceGlobalEpoch, UNCHANGED clientVars
  PROVE  Once'
<1>1. \A u \in Threads : Waiting(u)' = Waiting(u)
  BY DEF AdvanceGlobalEpoch, callVars, heapVars, Waiting
<1>2. QED
  BY <1>1, NothingMoves DEF PInv, AdvanceGlobalEpoch, heapVars, clientVars

(* The destructor frees what waits, and only that.                         *)
LEMMA DestructOnce ==
  ASSUME PInv, Destruct, UNCHANGED clientVars
  PROVE  Once'
<1> USE DEF PInv, IInv
<1>1. \A t \in Threads : Waiting(t) = to_free_ptr[t] /\ DOMAIN Waiting(t)' = {}
  BY DEF Destruct, callVars, Waiting
<1>2. linked' = linked
      /\ \A f : f \in freed' <=> f \in freed \/ \E t \in Threads : f \in ToSet(to_free_ptr[t])
  BY DEF Destruct, clientVars
<1>3. \A f : f \in freed' <=> \/ f \in freed
                              \/ \E t \in Threads : \E i \in DOMAIN Waiting(t) : f = Waiting(t)[i]
  BY <1>1, <1>2 DEF ToSet
<1>4. FreedOnce'
  <2> SUFFICES ASSUME NEW f \in freed', NEW g \in freed', f.ptr = g.ptr PROVE f = g
    BY DEF FreedOnce
  <2>1. CASE f \in freed /\ g \in freed
    BY <2>1 DEF Once, FreedOnce
  <2>2. CASE f \notin freed /\ g \notin freed
    BY <1>3, <2>2 DEF Once, WaitsOnce
  <2>3. CASE (f \in freed) # (g \in freed)
    BY <1>3, <2>3 DEF Once, WaitsOrFreed
  <2>4. QED
    BY <2>1, <2>2, <2>3
<1>5. WaitsOnce' /\ WaitsOrFreed'
  BY <1>1 DEF WaitsOnce, WaitsOrFreed
<1>6. NoneIsLost'
  BY <1>2, <1>3 DEF Once, NoneIsLost
<1>7. QED
  BY <1>4, <1>5, <1>6 DEF Once
-----------------------------------------------------------------------------
LEMMA InitPInv == Init => PInv
<1> SUFFICES ASSUME Init PROVE PInv
  OBVIOUS
<1>1. IInv
  BY InitIInv
<1>2. \A t \in Threads : Waiting(t) = <<>> /\ DOMAIN Waiting(t) = {}
  BY DEF Init, HandlerInit, Waiting
<1>3. Once
  BY <1>2 DEF Init, HandlerInit, Once, FreedOnce, WaitsOnce, WaitsOrFreed, NoneIsLost
<1>4. QED
  BY <1>1, <1>3 DEF PInv

LEMMA NextPInv == PInv /\ [Next]_epochVars => PInv'
<1> SUFFICES ASSUME PInv, [Next]_epochVars PROVE PInv'
  OBVIOUS
<1>0. Once
  BY DEF PInv
<1>1. IInv'
  BY NextIInv DEF PInv
<1>2. ASSUME NEW t \in Threads, Step(t) PROVE Once'
  <2>1. CASE Enter(t) \/ Exit(t)
    BY <2>1, GuardOnce
  <2>2. CASE \E p \in Ptrs : Retire(t, p)
    BY <2>2, RetireOnce
  <2>3. CASE FreeOutdatedPtr(t) /\ UNCHANGED clientVars
    BY <2>3, ScanOnce, FreeNextOnce, EraseFreedOnce DEF FreeOutdatedPtr
  <2>4. QED
    BY <1>2, <2>1, <2>2, <2>3 DEF Step
<1>3. ASSUME UNCHANGED epochVars PROVE Once'
  <2>1. \A t \in Threads : Waiting(t)' = Waiting(t)
    BY <1>3 DEF epochVars, handlerVars, callVars, heapVars, Waiting
  <2>2. UNCHANGED <<linked, freed>>
    BY <1>3 DEF epochVars, handlerVars, heapVars, clientVars
  <2>3. QED
    BY <1>0, <2>1, <2>2, NothingMoves
<1>4. Once'
  BY <1>2, <1>3, AdvanceOnce, DestructOnce DEF Next, Destructed
<1>5. QED
  BY <1>1, <1>4 DEF PInv

(* What holds of each pointer by itself gives what holds of the counts.    *)
LEMMA CountsFromOnce ==
  ASSUME PInv
  PROVE  EveryPointerOnce
<1> DEFINE Freed(p)  == {f \in freed : f.ptr = p}
           Places(p) == UNION {{<<t, i>> : i \in {j \in DOMAIN Waiting(t) : Waiting(t)[j].ptr = p}}
                                : t \in Threads}
<1>0. IInv /\ FreedOnce /\ WaitsOnce /\ WaitsOrFreed /\ NoneIsLost
  BY DEF PInv, Once
<1> SUFFICES ASSUME NEW p \in Ptrs
             PROVE  Cardinality(Freed(p)) + Cardinality(Places(p)) = IF p \in linked THEN 0 ELSE 1
  BY DEF EveryPointerOnce
<1>1. \A x : x \in Places(p) <=>
         \E t \in Threads : \E i \in DOMAIN Waiting(t) : Waiting(t)[i].ptr = p /\ x = <<t, i>>
  OBVIOUS
<1>2. Cardinality({}) = 0 /\ \A x : Cardinality({x}) = 1
  BY FS_EmptySet, FS_Singleton
<1>3. CASE p \in linked
  <2>1. Freed(p) = {}
    BY <1>0, <1>3 DEF IInv, RetiredAreUnlinked
  <2>2. Places(p) = {}
    BY <1>0, <1>1, <1>3, WaitingIsUnlinked
  <2>3. QED
    BY <1>2, <1>3, <2>1, <2>2
<1>4. CASE \E f \in freed : f.ptr = p
  <2>1. PICK f \in freed : f.ptr = p
    BY <1>4
  <2>2. Freed(p) = {f} /\ p \notin linked
    BY <1>0, <2>1 DEF FreedOnce, IInv, RetiredAreUnlinked
  <2>3. Places(p) = {}
    BY <1>0, <1>1, <2>1 DEF WaitsOrFreed
  <2>4. QED
    <3>1. Cardinality(Freed(p)) = 1 /\ Cardinality(Places(p)) = 0
      BY <1>2, <2>2, <2>3
    <3>2. QED
      BY <2>2, <3>1
<1>5. CASE p \notin linked /\ ~\E f \in freed : f.ptr = p
  <2>1. PICK t \in Threads : \E i \in DOMAIN Waiting(t) : Waiting(t)[i].ptr = p
    BY <1>0, <1>5 DEF NoneIsLost
  <2>2. PICK i \in DOMAIN Waiting(t) : Waiting(t)[i].ptr = p
    BY <2>1
  <2>3. Places(p) = {<<t, i>>}
    BY <1>0, <1>1, <2>1, <2>2 DEF WaitsOnce
  <2>4. Freed(p) = {}
    BY <1>5
  <2>5. QED
    <3>1. Cardinality(Freed(p)) = 0 /\ Cardinality(Places(p)) = 1
      BY <1>2, <2>3, <2>4
    <3>2. QED
      BY <1>5, <3>1
<1>6. QED
  BY <1>3, <1>4, <1>5

(* A pointer that was taken out of the structure waits in one place of one *)
(* bag or was freed, once: however the calls interleave, erasing a prefix  *)
(* of a bag loses none and the destructor frees none again.                *)
THEOREM PointersAreKept == Spec => []EveryPointerOnce
<1>1. Spec => []PInv
  BY InitPInv, NextPInv, PTL DEF Spec
<1>2. QED
  BY <1>1, CountsFromOnce, PTL
=============================================================================
