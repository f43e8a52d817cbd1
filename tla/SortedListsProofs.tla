-------------------------- MODULE SortedListsProofs -------------------------
(***************************************************************************)
(* Both sorted lists, for any list to start with, any calls of any number  *)
(* of threads, and any number of nodes.                                    *)
(***************************************************************************)
EXTENDS SortedLists, ListHeapProofs, SequenceTheorems

(* Where a thread is inside its EpochGuard, where it has the mutex shared, *)
(* and where it has either lock exclusively.                               *)
Guarded == {"snapshot", "root", "walk", "validate", "leave", "restart"}
Sharing == {"root", "walk", "unlock_shared"}
Writing == {"write", "assign", "link", "unlock", "crashed"}

ListTypes ==
  /\ kind \in Kinds
  /\ writers \subseteq Threads /\ readers \subseteq Threads /\ version \in Nat
  /\ deleted \subseteq Nodes /\ in_scope \in BOOLEAN
  /\ at \in [Threads -> {"idle", "lookup", "snapshot", "root", "walk", "validate",
                        "leave", "restart", "update", "write", "assign", "link",
                        "unlock", "unlock_shared", "return", "crashed"}]
  /\ call \in [Threads -> Calls \union {NoCall}]
  /\ made \in [Threads -> 0 .. NO_OPS]
  /\ cur \in [Threads -> Links]
  /\ seen \in [Threads -> Nat]
  /\ DOMAIN answer = Threads
  /\ result \in [Threads -> Data \union {Absent, Torn}]

(* Where a thread is tells what it calls and the state of its EpochGuard.  *)
CallPhase(t) ==
  /\ at[t] # "idle" => call[t] \in Calls /\ made[t] < NO_OPS
  /\ at[t] \in {"lookup"} \union Guarded \union Sharing => call[t].op = "LookUp"
  /\ at[t] \in {"update"} \union Writing => call[t].op # "LookUp"
  /\ at[t] = "assign" => call[t].op = "Insert" /\ Found(heap, call[t].key)
  /\ at[t] = "link" => /\ call[t].op = "Insert" /\ ~Found(heap, call[t].key)
                       /\ Built(heap, cur[t], call[t].key, call[t].data)
  /\ kind = "mutex" => at[t] \notin Guarded \ Sharing /\ epc[t] = "outside"
  /\ kind = "optimistic" =>
       /\ at[t] # "unlock_shared" /\ epc[t] \in {"outside", "entering", "inside"}
       /\ epc[t] = "entering" => at[t] = "lookup"
       /\ epc[t] = "inside" <=> at[t] \in Guarded

(* And who holds the lock.                                                 *)
LockPhase ==
  /\ \A t \in Threads : t \in writers <=> at[t] \in Writing
  /\ \A t \in Threads : t \in readers <=> kind = "mutex" /\ at[t] \in Sharing
  /\ \A t \in writers : writers = {t} /\ readers = {}

(* Nothing is freed before its time: the mutex list has no handler, and    *)
(* the destructors run after the last call.                                *)
ScopePhase ==
  /\ in_scope => alive /\ freed = {}
  /\ ~in_scope => AllReturned
  /\ kind = "optimistic" /\ in_scope => deleted = {}
  /\ kind = "mutex" => alive /\ freed = {} /\ \A t \in Threads : to_free_ptr[t] = <<>>

(* A lookup under the shared mutex stands on a node of the list.           *)
StandsInList(t) ==
  kind = "mutex" /\ at[t] = "walk" => cur[t] \in Chain(heap) \union {null}

PtrAt(t, i) == to_free_ptr[t][i].ptr

(* Every node that was allocated is in one place: the list, the ones that  *)
(* the list or the handler has freed, one place of one bag, or the hands   *)
(* of an Insert.                                                           *)
DeletedApart == deleted \intersect (Chain(heap) \union Fresh(heap)) = {}

FreedApart ==
  /\ \A f \in freed : f.ptr \notin Chain(heap) \union Fresh(heap) \union deleted
  /\ \A f, g \in freed : f.ptr = g.ptr => f = g

DeferredApart ==
  \A t \in Threads : \A i \in DOMAIN to_free_ptr[t] :
    /\ PtrAt(t, i) \notin Chain(heap) \union Fresh(heap) \union deleted
    /\ \A f \in freed : PtrAt(t, i) # f.ptr

DeferredOnce ==
  \A t, u \in Threads : \A i \in DOMAIN to_free_ptr[t], j \in DOMAIN to_free_ptr[u] :
    PtrAt(t, i) = PtrAt(u, j) => t = u /\ i = j

BuiltApart ==
  \A t \in Threads : at[t] = "link" =>
    /\ cur[t] \notin Chain(heap) \union Fresh(heap) \union deleted
    /\ \A f \in freed : f.ptr # cur[t]
    /\ \A u \in Threads : \A i \in DOMAIN to_free_ptr[u] : PtrAt(u, i) # cur[t]

NoneIsLost ==
  \A n \in Nodes \ Fresh(heap) :
    \/ n \in Chain(heap) \/ n \in deleted
    \/ \E f \in freed : f.ptr = n
    \/ \E t \in Threads : \E i \in DOMAIN to_free_ptr[t] : PtrAt(t, i) = n
    \/ \E t \in Threads : at[t] = "link" /\ cur[t] = n

InOnePlace ==
  DeletedApart /\ FreedApart /\ DeferredApart /\ DeferredOnce /\ BuiltApart /\ NoneIsLost

LInv ==
  /\ ListTypes /\ Epochs!HandlerTypeOK /\ Proper(heap)
  /\ \A t \in Threads : CallPhase(t) /\ StandsInList(t)
  /\ LockPhase /\ ScopePhase /\ InOnePlace
-----------------------------------------------------------------------------
(* What a step of t leaves to the other threads.                           *)
Others(t) ==
  \A u \in Threads \ {t} :
    /\ at'[u] = at[u] /\ call'[u] = call[u] /\ made'[u] = made[u]
    /\ cur'[u] = cur[u] /\ epc'[u] = epc[u]

NodesStay == UNCHANGED <<heapVars, to_free_ptr, freed, alive>>

LEMMA ThreadsOfLibraries == Threads = Epochs!Threads
BY DEF Threads, Epochs!Threads

(* Who takes a step is in a call, or about to begin one.                   *)
LEMMA StepInScope ==
  ASSUME LInv, NEW t \in Threads, at[t] # "idle" \/ made[t] < NO_OPS
  PROVE  in_scope
<1>1. ~in_scope => at[t] = "idle" /\ made[t] = NO_OPS
  BY DEF LInv, ScopePhase, AllReturned
<1>2. ~(NO_OPS < NO_OPS)
  BY ListAssumption
<1>3. QED
  BY <1>1, <1>2

LEMMA SamePlaces ==
  ASSUME InOnePlace, Chain(heap') = Chain(heap), Fresh(heap') = Fresh(heap),
         UNCHANGED <<deleted, freed, to_free_ptr>>,
         \A t \in Threads : /\ at'[t] = "link" <=> at[t] = "link"
                            /\ at[t] = "link" => cur'[t] = cur[t]
  PROVE  InOnePlace'
<1>1. DeletedApart' /\ FreedApart'
  BY DEF InOnePlace, DeletedApart, FreedApart
<1>2. DeferredApart' /\ DeferredOnce'
  BY DEF InOnePlace, DeferredApart, DeferredOnce, PtrAt
<1>3. BuiltApart'
  BY DEF InOnePlace, BuiltApart, PtrAt
<1>4. NoneIsLost'
  BY DEF InOnePlace, NoneIsLost, PtrAt
<1>5. QED
  BY <1>1, <1>2, <1>3, <1>4 DEF InOnePlace

(* The steps that change no node: what remains to show of t.               *)
LEMMA QuietStep ==
  ASSUME LInv, NEW t \in Threads, at[t] # "idle" \/ made[t] < NO_OPS,
         NodesStay, kind' = kind, Others(t), at[t] # "link", at'[t] # "link",
         ListTypes', Epochs!HandlerTypeOK', CallPhase(t)', StandsInList(t)', LockPhase'
  PROVE  LInv'
<1>1. in_scope
  BY StepInScope
<1>2. UNCHANGED <<heap, deleted, in_scope, to_free_ptr, freed, alive, kind>>
  BY DEF NodesStay, heapVars
<1>3. Proper(heap')
  BY <1>2 DEF LInv
<1>4. \A u \in Threads : CallPhase(u)' /\ StandsInList(u)'
  BY <1>2 DEF LInv, CallPhase, StandsInList, Others
<1>5. ScopePhase'
  BY <1>1, <1>2 DEF LInv, ScopePhase
<1>6. InOnePlace'
  <2>1. \A u \in Threads : (at'[u] = "link" <=> at[u] = "link") /\ (at[u] = "link" => cur'[u] = cur[u])
    BY DEF Others
  <2>2. QED
    BY <1>2, <2>1, SamePlaces DEF LInv
<1>7. QED
  BY <1>3, <1>4, <1>5, <1>6 DEF LInv

LEMMA HandlerStays ==
  ASSUME Epochs!HandlerTypeOK, UNCHANGED epochVars
  PROVE  Epochs!HandlerTypeOK' /\ epc' = epc
BY DEF Epochs!HandlerTypeOK, epochVars

LEMMA BeginStep ==
  ASSUME LInv, NEW t \in Threads, NEW c \in CallsOf[t], Begin(t, c), kind' = kind
  PROVE  LInv'
<1>0. ListTypes /\ Epochs!HandlerTypeOK /\ CallPhase(t) /\ LockPhase
  BY DEF LInv
<1>1. /\ at[t] = "idle" /\ made[t] < NO_OPS /\ epc[t] = "outside"
      /\ at' = [at EXCEPT ![t] = IF c.op = "LookUp" THEN "lookup" ELSE "update"]
      /\ call' = [call EXCEPT ![t] = c]
      /\ UNCHANGED <<lockVars, epochVars, heapVars, made, cur, seen, answer, result>>
  BY DEF Begin, Go
<1>2. c \in Calls
  BY ListAssumption DEF Threads
<1>3. NodesStay /\ epc' = epc /\ Epochs!HandlerTypeOK' /\ UNCHANGED lockVars
  BY <1>0, <1>1, HandlerStays DEF NodesStay, epochVars
<1>4. Others(t) /\ at'[t] = (IF c.op = "LookUp" THEN "lookup" ELSE "update") /\ call'[t] = c
  BY <1>0, <1>1, <1>3 DEF ListTypes, Others
<1>5. ListTypes'
  BY <1>0, <1>1, <1>2 DEF ListTypes, lockVars, heapVars
<1>6. CallPhase(t)' /\ StandsInList(t)'
  BY <1>0, <1>1, <1>2, <1>3, <1>4 DEF CallPhase, StandsInList, Guarded, Sharing, Writing
<1>7. LockPhase'
  BY <1>0, <1>1, <1>3, <1>4 DEF LockPhase, lockVars, Sharing, Writing, Others
<1>8. QED
  BY <1>1, <1>3, <1>4, <1>5, <1>6, <1>7, QuietStep

LEMMA ReturnStep ==
  ASSUME LInv, NEW t \in Threads, Return(t), kind' = kind
  PROVE  LInv'
<1>0. ListTypes /\ Epochs!HandlerTypeOK /\ CallPhase(t) /\ LockPhase
  BY DEF LInv
<1>1. /\ at[t] = "return" /\ at' = [at EXCEPT ![t] = "idle"]
      /\ made' = [made EXCEPT ![t] = made[t] + 1]
      /\ call' = [call EXCEPT ![t] = NoCall]
      /\ answer' = [answer EXCEPT ![t] = Absent]
      /\ result' = [result EXCEPT ![t] = Absent]
      /\ UNCHANGED <<lockVars, epochVars, heapVars, cur, seen>>
  BY DEF Return, Go
<1>2. made[t] + 1 \in 0 .. NO_OPS
  BY <1>0, <1>1, ListAssumption DEF CallPhase, ListTypes
<1>3. NodesStay /\ epc' = epc /\ Epochs!HandlerTypeOK' /\ UNCHANGED lockVars
  BY <1>0, <1>1, HandlerStays DEF NodesStay, epochVars
<1>4. Others(t) /\ at'[t] = "idle"
  BY <1>0, <1>1, <1>3 DEF ListTypes, Others
<1>5. ListTypes'
  BY <1>0, <1>1, <1>2 DEF ListTypes, lockVars, heapVars
<1>6. CallPhase(t)' /\ StandsInList(t)'
  BY <1>0, <1>1, <1>3, <1>4 DEF CallPhase, StandsInList, Guarded, Sharing, Writing
<1>7. LockPhase'
  BY <1>0, <1>1, <1>3, <1>4 DEF LockPhase, lockVars, Sharing, Writing, Others
<1>8. QED
  BY <1>1, <1>3, <1>4, <1>5, <1>6, <1>7, QuietStep

LEMMA LoadRootStep ==
  ASSUME LInv, NEW t \in Threads, LoadRoot(t), kind' = kind
  PROVE  LInv'
<1>0. ListTypes /\ Epochs!HandlerTypeOK /\ CallPhase(t) /\ LockPhase /\ Proper(heap)
  BY DEF LInv
<1>1. /\ at[t] = "root" /\ at' = [at EXCEPT ![t] = "walk"]
      /\ cur' = [cur EXCEPT ![t] = heap.root]
      /\ UNCHANGED <<lockVars, epochVars, heapVars, call, made, seen, answer, result>>
  BY DEF LoadRoot, Go
<1>2. heap.root \in Links /\ heap.root \in Chain(heap) \union {null}
  BY <1>0, ProperFacts DEF IsList
<1>3. NodesStay /\ epc' = epc /\ Epochs!HandlerTypeOK' /\ UNCHANGED lockVars
  BY <1>0, <1>1, HandlerStays DEF NodesStay, epochVars
<1>4. Others(t) /\ at'[t] = "walk" /\ cur'[t] = heap.root
  BY <1>0, <1>1, <1>3 DEF ListTypes, Others
<1>5. ListTypes'
  BY <1>0, <1>1, <1>2 DEF ListTypes, lockVars, heapVars
<1>6. CallPhase(t)' /\ StandsInList(t)'
  BY <1>0, <1>1, <1>2, <1>3, <1>4 DEF CallPhase, StandsInList, Guarded, Sharing, Writing, heapVars
<1>7. LockPhase'
  BY <1>0, <1>1, <1>3, <1>4 DEF LockPhase, lockVars, Sharing, Writing, Others
<1>8. QED
  BY <1>1, <1>3, <1>4, <1>5, <1>6, <1>7, QuietStep

LEMMA VisitStep ==
  ASSUME LInv, NEW t \in Threads, kind' = kind,
         NEW end, Visit(t, end),
         \/ kind = "optimistic" /\ end = "validate"
         \/ kind = "mutex" /\ end = "unlock_shared"
  PROVE  LInv'
<1>0. /\ ListTypes /\ Epochs!HandlerTypeOK /\ CallPhase(t) /\ LockPhase /\ Proper(heap)
      /\ StandsInList(t)
  BY DEF LInv
<1> DEFINE n == cur[t]
<1>1. /\ at[t] = "walk"
      /\ UNCHANGED <<lockVars, epochVars, heapVars, call, made, seen>>
      /\ \/ /\ at' = [at EXCEPT ![t] = end] /\ UNCHANGED cur
            /\ \/ answer' = [answer EXCEPT ![t] = Absent] /\ UNCHANGED result
               \/ /\ n # null
                  /\ answer' = [answer EXCEPT ![t] = DataOf(heap, n)]
                  /\ result' = [result EXCEPT ![t] = DataOf(heap, n)]
         \/ /\ n # null /\ cur' = [cur EXCEPT ![t] = NextOf(heap, n)]
            /\ UNCHANGED <<at, answer, result>>
  BY DEF Visit, Go, DataOf, NextOf
<1>2. n # null => /\ n \in Nodes /\ NextOf(heap, n) \in Links
                  /\ DataOf(heap, n) \in Data \union {Absent, Torn}
                  /\ n \in Chain(heap) => NextOf(heap, n) \in Chain(heap) \union {null}
  <2>1. n # null => n \in Nodes
    BY <1>0 DEF ListTypes, Links
  <2>2. n \in Nodes => DataOf(heap, n) \in Data \union {Absent, Torn}
    BY <1>0 DEF Proper, Heaps, DataOf
  <2>3. n \in Chain(heap) => NextOf(heap, n) \in Chain(heap) \union {null}
    BY <1>0, ProperFacts DEF IsList
  <2>4. n \in Nodes => NextOf(heap, n) \in Links
    BY <1>0, ProperFacts
  <2>5. QED
    BY <2>1, <2>2, <2>3, <2>4
<1>3. NodesStay /\ epc' = epc /\ Epochs!HandlerTypeOK' /\ UNCHANGED lockVars
  BY <1>0, <1>1, HandlerStays DEF NodesStay, epochVars
<1>4. Others(t) /\ at'[t] \in {"walk", end} /\ (at'[t] = "walk" => cur'[t] = NextOf(heap, n) /\ n # null)
  BY <1>0, <1>1, <1>3 DEF ListTypes, Others
<1>5. ListTypes'
  <2>1. at' \in [Threads -> {"idle", "lookup", "snapshot", "root", "walk", "validate",
                        "leave", "restart", "update", "write", "assign", "link",
                        "unlock", "unlock_shared", "return", "crashed"}]
    BY <1>0, <1>1 DEF ListTypes
  <2>2. cur' \in [Threads -> Links] /\ DOMAIN answer' = Threads
    BY <1>0, <1>1, <1>2 DEF ListTypes
  <2>3. result' \in [Threads -> Data \union {Absent, Torn}]
    BY <1>0, <1>1, <1>2 DEF ListTypes
  <2>4. QED
    BY <1>0, <1>1, <2>1, <2>2, <2>3 DEF ListTypes, lockVars, heapVars
<1>6. CallPhase(t)' /\ StandsInList(t)'
  <2>1. StandsInList(t)'
    BY <1>0, <1>1, <1>2, <1>4 DEF StandsInList, heapVars
  <2>2. CallPhase(t)'
    BY <1>0, <1>1, <1>3, <1>4 DEF CallPhase, Guarded, Sharing, Writing
  <2>3. QED
    BY <2>1, <2>2
<1>7. LockPhase'
  BY <1>0, <1>1, <1>3, <1>4 DEF LockPhase, lockVars, Sharing, Writing, Others
<1>8. QED
  BY <1>1, <1>3, <1>4, <1>5, <1>6, <1>7, QuietStep
-----------------------------------------------------------------------------
(***************************************************************************)
(* The steps that take or release the lock.                                *)
(***************************************************************************)
LEMMA LockExclusiveStep ==
  ASSUME LInv, NEW t \in Threads, LockExclusive(t), kind' = kind
  PROVE  LInv'
<1>0. ListTypes /\ Epochs!HandlerTypeOK /\ CallPhase(t) /\ LockPhase
  BY DEF LInv
<1>1. /\ at[t] = "update" /\ at' = [at EXCEPT ![t] = "write"]
      /\ writers = {} /\ readers = {} /\ writers' = {t} /\ readers' = {} /\ version' = version
      /\ UNCHANGED <<epochVars, heapVars, callVars>>
  BY DEF LockExclusive, Go, Lock!AcquireExclusive
<1>2. NodesStay /\ epc' = epc /\ Epochs!HandlerTypeOK'
  BY <1>0, <1>1, HandlerStays DEF NodesStay, epochVars
<1>3. Others(t) /\ at'[t] = "write"
  BY <1>0, <1>1, <1>2 DEF ListTypes, Others, callVars
<1>4. ListTypes'
  BY <1>0, <1>1 DEF ListTypes, callVars, heapVars
<1>5. CallPhase(t)' /\ StandsInList(t)'
  BY <1>0, <1>1, <1>2, <1>3 DEF CallPhase, StandsInList, Guarded, Sharing, Writing, callVars
<1>6. LockPhase'
  <2>1. \A u \in Threads \ {t} : at'[u] = at[u]
    BY <1>3 DEF Others
  <2>2. \A u \in Threads : at[u] \notin Writing /\ ~(kind = "mutex" /\ at[u] \in Sharing)
    BY <1>0, <1>1 DEF LockPhase
  <2>3. QED
    BY <1>1, <1>3, <2>1, <2>2 DEF LockPhase, Sharing, Writing
<1>7. QED
  BY <1>1, <1>2, <1>3, <1>4, <1>5, <1>6, QuietStep

LEMMA VersionStays ==
  ASSUME NEW v \in Nat
  PROVE  (v + 1) % (no_threads * NO_OPS + 1) \in Nat
<1> DEFINE b == no_threads * NO_OPS + 1
<1>1. no_threads * NO_OPS \in Nat
  BY ListAssumption
<1>2. b \in Nat /\ b > 0
  BY <1>1
<1> HIDE DEF b
<1>3. (v + 1) % b \in Nat
  BY <1>2
<1>4. QED
  BY <1>3 DEF b

LEMMA UnlockStep ==
  ASSUME LInv, NEW t \in Threads, Unlock(t), kind' = kind
  PROVE  LInv'
<1>0. ListTypes /\ Epochs!HandlerTypeOK /\ CallPhase(t) /\ LockPhase
  BY DEF LInv
<1>1. /\ at[t] = "unlock" /\ at' = [at EXCEPT ![t] = "return"]
      /\ writers = {t} /\ writers' = {} /\ readers' = readers
      /\ version' = (version + 1) % (no_threads * NO_OPS + 1)
      /\ UNCHANGED <<epochVars, heapVars, callVars>>
  BY DEF Unlock, Go, Lock!ReleaseExclusive, Lock!EndSection
<1>2. NodesStay /\ epc' = epc /\ Epochs!HandlerTypeOK'
  BY <1>0, <1>1, HandlerStays DEF NodesStay, epochVars
<1>3. Others(t) /\ at'[t] = "return"
  BY <1>0, <1>1, <1>2 DEF ListTypes, Others, callVars
<1>4. ListTypes'
  <2>1. version' \in Nat
    BY <1>0, <1>1, VersionStays DEF ListTypes
  <2>2. QED
    BY <1>0, <1>1, <2>1 DEF ListTypes, callVars, heapVars
<1>5. CallPhase(t)' /\ StandsInList(t)'
  BY <1>0, <1>1, <1>2, <1>3 DEF CallPhase, StandsInList, Guarded, Sharing, Writing, callVars
<1>6. LockPhase'
  BY <1>0, <1>1, <1>3 DEF LockPhase, Sharing, Writing, Others
<1>7. QED
  BY <1>1, <1>2, <1>3, <1>4, <1>5, <1>6, QuietStep

LEMMA LockSharedStep ==
  ASSUME LInv, NEW t \in Threads, LockShared(t), kind = "mutex", kind' = kind
  PROVE  LInv'
<1>0. ListTypes /\ Epochs!HandlerTypeOK /\ CallPhase(t) /\ LockPhase
  BY DEF LInv
<1>1. /\ at[t] = "lookup" /\ at' = [at EXCEPT ![t] = "root"]
      /\ writers = {} /\ writers' = {} /\ readers' = readers \union {t} /\ version' = version
      /\ UNCHANGED <<epochVars, heapVars, callVars>>
  BY DEF LockShared, Go, Lock!AcquireShared
<1>2. NodesStay /\ epc' = epc /\ Epochs!HandlerTypeOK'
  BY <1>0, <1>1, HandlerStays DEF NodesStay, epochVars
<1>3. Others(t) /\ at'[t] = "root"
  BY <1>0, <1>1, <1>2 DEF ListTypes, Others, callVars
<1>4. ListTypes'
  BY <1>0, <1>1 DEF ListTypes, callVars, heapVars
<1>5. CallPhase(t)' /\ StandsInList(t)'
  BY <1>0, <1>1, <1>2, <1>3 DEF CallPhase, StandsInList, Guarded, Sharing, Writing, callVars
<1>6. LockPhase'
  BY <1>0, <1>1, <1>3 DEF LockPhase, Sharing, Writing, Others
<1>7. QED
  BY <1>1, <1>2, <1>3, <1>4, <1>5, <1>6, QuietStep

LEMMA UnlockSharedStep ==
  ASSUME LInv, NEW t \in Threads, UnlockShared(t), kind' = kind
  PROVE  LInv'
<1>0. ListTypes /\ Epochs!HandlerTypeOK /\ CallPhase(t) /\ LockPhase
  BY DEF LInv
<1>1. /\ at[t] = "unlock_shared" /\ at' = [at EXCEPT ![t] = "return"]
      /\ t \in readers /\ readers' = readers \ {t} /\ UNCHANGED <<writers, version>>
      /\ cur' = [cur EXCEPT ![t] = null]
      /\ UNCHANGED <<epochVars, heapVars, call, made, seen, answer, result>>
  BY DEF UnlockShared, Go, Lock!ReleaseShared
<1>2. NodesStay /\ epc' = epc /\ Epochs!HandlerTypeOK'
  BY <1>0, <1>1, HandlerStays DEF NodesStay, epochVars
<1>3. Others(t) /\ at'[t] = "return"
  BY <1>0, <1>1, <1>2 DEF ListTypes, Others
<1>4. ListTypes'
  BY <1>0, <1>1 DEF ListTypes, heapVars, Links
<1>5. CallPhase(t)' /\ StandsInList(t)'
  BY <1>0, <1>1, <1>2, <1>3 DEF CallPhase, StandsInList, Guarded, Sharing, Writing
<1>6. LockPhase'
  <2>1. \A u \in Threads \ {t} : at'[u] = at[u]
    BY <1>3 DEF Others
  <2>2. writers = {}
    BY <1>0, <1>1 DEF LockPhase
  <2>3. \A u \in Threads : u \in readers' <=> kind' = "mutex" /\ at'[u] \in Sharing
    BY <1>0, <1>1, <1>3, <2>1 DEF LockPhase, Sharing
  <2>4. \A u \in Threads : at'[u] \notin Writing
    BY <1>0, <1>1, <1>3, <2>1, <2>2 DEF LockPhase, Writing
  <2>5. QED
    BY <1>1, <2>2, <2>3, <2>4 DEF LockPhase
<1>7. QED
  BY <1>1, <1>2, <1>3, <1>4, <1>5, <1>6, QuietStep
-----------------------------------------------------------------------------
(***************************************************************************)
(* The steps of a lookup that are the optimistic list's own.               *)
(***************************************************************************)
LEMMA EnterEpochStep ==
  ASSUME LInv, NEW t \in Threads, EnterEpoch(t), kind = "optimistic", kind' = kind
  PROVE  LInv'
<1>0. ListTypes /\ Epochs!HandlerTypeOK /\ CallPhase(t) /\ LockPhase
  BY DEF LInv
<1>1. /\ at[t] = "lookup" /\ UNCHANGED <<lockVars, heapVars, callVars, to_free_ptr, freed, alive>>
      /\ \/ epc' = [epc EXCEPT ![t] = "entering"] /\ UNCHANGED at
         \/ epc' = [epc EXCEPT ![t] = "inside"] /\ at' = [at EXCEPT ![t] = "snapshot"]
  BY DEF EnterEpoch, Go, Epochs!EnterLoad, Epochs!EnterStore, Epochs!Go, Epochs!heapVars
<1>2. Epochs!HandlerTypeOK'
  <2>1. t \in Epochs!Threads
    BY ThreadsOfLibraries
  <2>2. 0 \in Epochs!Epochs
    BY ListAssumption DEF Epochs!Epochs
  <2>3. CASE Epochs!EnterLoad(t)
    BY <1>0, <2>1, <2>3 DEF Epochs!HandlerTypeOK, Epochs!EnterLoad, Epochs!Go, Epochs!Set,
                            Epochs!slotVars, Epochs!heapVars
  <2>4. CASE Epochs!EnterStore(t)
    BY <1>0, <2>1, <2>2, <2>4 DEF Epochs!HandlerTypeOK, Epochs!EnterStore, Epochs!Go, Epochs!Set,
                                  Epochs!slotVars, Epochs!heapVars
  <2>5. QED
    BY <2>3, <2>4 DEF EnterEpoch
<1>3. epc \in [Threads -> {"outside", "entering", "inside", "scanning", "freeing"}]
  BY <1>0, ThreadsOfLibraries DEF Epochs!HandlerTypeOK
<1>4. NodesStay
  BY <1>1 DEF NodesStay
<1>5. Others(t) /\ \/ epc'[t] = "entering" /\ at'[t] = "lookup"
                   \/ epc'[t] = "inside" /\ at'[t] = "snapshot"
  BY <1>0, <1>1, <1>3 DEF ListTypes, Others, callVars
<1>6. ListTypes'
  BY <1>0, <1>1 DEF ListTypes, callVars, heapVars, lockVars
<1>7. CallPhase(t)' /\ StandsInList(t)'
  BY <1>0, <1>1, <1>5 DEF CallPhase, StandsInList, Guarded, Sharing, Writing, callVars
<1>8. LockPhase'
  BY <1>0, <1>1, <1>5 DEF LockPhase, lockVars, Sharing, Writing, Others
<1>9. QED
  BY <1>1, <1>2, <1>4, <1>5, <1>6, <1>7, <1>8, QuietStep

LEMMA OptimisticLockStep ==
  ASSUME LInv, NEW t \in Threads, OptimisticLock(t), kind = "optimistic", kind' = kind
  PROVE  LInv'
<1>0. ListTypes /\ Epochs!HandlerTypeOK /\ CallPhase(t) /\ LockPhase
  BY DEF LInv
<1>1. /\ at[t] = "snapshot" /\ at' = [at EXCEPT ![t] = "root"]
      /\ seen' = [seen EXCEPT ![t] = version]
      /\ UNCHANGED <<lockVars, epochVars, heapVars, call, made, cur, answer, result>>
  BY DEF OptimisticLock, Go
<1>2. NodesStay /\ epc' = epc /\ Epochs!HandlerTypeOK'
  BY <1>0, <1>1, HandlerStays DEF NodesStay, epochVars
<1>3. Others(t) /\ at'[t] = "root"
  BY <1>0, <1>1, <1>2 DEF ListTypes, Others
<1>4. ListTypes'
  BY <1>0, <1>1 DEF ListTypes, heapVars, lockVars
<1>5. CallPhase(t)' /\ StandsInList(t)'
  BY <1>0, <1>1, <1>2, <1>3 DEF CallPhase, StandsInList, Guarded, Sharing, Writing
<1>6. LockPhase'
  BY <1>0, <1>1, <1>3 DEF LockPhase, lockVars, Sharing, Writing, Others
<1>7. QED
  BY <1>1, <1>2, <1>3, <1>4, <1>5, <1>6, QuietStep

LEMMA ValidateStep ==
  ASSUME LInv, NEW t \in Threads, Validate(t), kind = "optimistic", kind' = kind
  PROVE  LInv'
<1>0. ListTypes /\ Epochs!HandlerTypeOK /\ CallPhase(t) /\ LockPhase
  BY DEF LInv
<1>1. /\ at[t] = "validate"
      /\ at' = [at EXCEPT ![t] = IF Valid(t) THEN "leave" ELSE "restart"]
      /\ cur' = [cur EXCEPT ![t] = null]
      /\ UNCHANGED <<lockVars, epochVars, heapVars, call, made, seen, answer, result>>
  BY DEF Validate, Go
<1>2. NodesStay /\ epc' = epc /\ Epochs!HandlerTypeOK'
  BY <1>0, <1>1, HandlerStays DEF NodesStay, epochVars
<1>3. Others(t) /\ at'[t] \in {"leave", "restart"}
  BY <1>0, <1>1, <1>2 DEF ListTypes, Others
<1>4. ListTypes'
  BY <1>0, <1>1 DEF ListTypes, heapVars, lockVars, Links
<1>5. CallPhase(t)' /\ StandsInList(t)'
  BY <1>0, <1>1, <1>2, <1>3 DEF CallPhase, StandsInList, Guarded, Sharing, Writing
<1>6. LockPhase'
  BY <1>0, <1>1, <1>3 DEF LockPhase, lockVars, Sharing, Writing, Others
<1>7. QED
  BY <1>1, <1>2, <1>3, <1>4, <1>5, <1>6, QuietStep

LEMMA LeaveEpochStep ==
  ASSUME LInv, NEW t \in Threads, LeaveEpoch(t), kind = "optimistic", kind' = kind
  PROVE  LInv'
<1>0. ListTypes /\ Epochs!HandlerTypeOK /\ CallPhase(t) /\ LockPhase
  BY DEF LInv
<1>1. /\ epc' = [epc EXCEPT ![t] = "outside"]
      /\ \/ at[t] = "leave" /\ at' = [at EXCEPT ![t] = "return"]
         \/ at[t] = "restart" /\ at' = [at EXCEPT ![t] = "lookup"]
      /\ UNCHANGED <<lockVars, heapVars, callVars, to_free_ptr, freed, alive>>
  BY DEF LeaveEpoch, Go, Epochs!Leave, Epochs!Go, Epochs!heapVars
<1>2. Epochs!HandlerTypeOK'
  <2>1. t \in Epochs!Threads
    BY ThreadsOfLibraries
  <2>2. Epochs!Leave(t)
    BY DEF LeaveEpoch
  <2>3. QED
    BY <1>0, <2>1, <2>2 DEF Epochs!HandlerTypeOK, Epochs!Leave, Epochs!Go, Epochs!heapVars
<1>3. epc \in [Threads -> {"outside", "entering", "inside", "scanning", "freeing"}]
  BY <1>0, ThreadsOfLibraries DEF Epochs!HandlerTypeOK
<1>4. NodesStay
  BY <1>1 DEF NodesStay
<1>5. Others(t) /\ epc'[t] = "outside" /\ at'[t] = (IF at[t] = "leave" THEN "return" ELSE "lookup")
  BY <1>0, <1>1, <1>3 DEF ListTypes, Others, callVars
<1>6. ListTypes'
  BY <1>0, <1>1 DEF ListTypes, callVars, heapVars, lockVars
<1>7. CallPhase(t)' /\ StandsInList(t)'
  BY <1>0, <1>1, <1>5 DEF CallPhase, StandsInList, Guarded, Sharing, Writing, callVars
<1>8. LockPhase'
  BY <1>0, <1>1, <1>5 DEF LockPhase, lockVars, Sharing, Writing, Others
<1>9. QED
  BY <1>1, <1>2, <1>4, <1>5, <1>6, <1>7, <1>8, QuietStep
-----------------------------------------------------------------------------
(***************************************************************************)
(* The steps of an update.  No lookup under the mutex is in progress, and  *)
(* no other update.                                                        *)
(***************************************************************************)
LEMMA OneWriter ==
  ASSUME LInv, NEW t \in Threads, at[t] \in Writing, NEW u \in Threads, at[u] \in Writing
  PROVE  t = u
BY DEF LInv, LockPhase

LEMMA NobodyLinks ==
  ASSUME LInv, NEW t \in Threads, at[t] \in Writing \ {"link"},
         NEW to, to # "link", at' = [at EXCEPT ![t] = to]
  PROVE  \A u \in Threads : at[u] # "link" /\ at'[u] # "link"
<1> SUFFICES ASSUME NEW u \in Threads PROVE at[u] # "link" /\ at'[u] # "link"
  OBVIOUS
<1>1. at[u] # "link"
  <2>1. at[u] = "link" => u = t
    BY OneWriter DEF Writing
  <2>2. QED
    BY <2>1
<1>2. QED
  BY <1>1 DEF LInv, ListTypes

LEMMA WriterStep ==
  ASSUME LInv, NEW t \in Threads, at[t] \in {"write", "assign", "link"},
         NEW to \in {"assign", "link", "unlock", "crashed"}, at' = [at EXCEPT ![t] = to],
         UNCHANGED <<kind, lockVars, call, made, in_scope, alive, freed, epc>>,
         \A u \in Threads \ {t} : cur'[u] = cur[u],
         to = "assign" => call[t].op = "Insert" /\ Found(heap', call[t].key),
         to = "link" => /\ call[t].op = "Insert" /\ ~Found(heap', call[t].key)
                        /\ Built(heap', cur'[t], call[t].key, call[t].data),
         kind = "optimistic" => deleted' = deleted,
         kind = "mutex" => to_free_ptr' = to_free_ptr,
         ListTypes', Epochs!HandlerTypeOK', Proper(heap'), InOnePlace'
  PROVE  LInv'
<1>0. ListTypes /\ CallPhase(t) /\ LockPhase /\ ScopePhase /\ \A u \in Threads : CallPhase(u)
  BY DEF LInv
<1>1. in_scope
  BY StepInScope
<1>2. Others(t) /\ at'[t] = to
  BY <1>0 DEF ListTypes, Others
<1>3. writers = {t} /\ readers = {} /\ \A u \in Threads \ {t} : at[u] \notin Writing
  BY <1>0 DEF LockPhase, Writing
<1>4. ASSUME NEW u \in Threads \ {t} PROVE CallPhase(u)' /\ StandsInList(u)'
  <2>1. at[u] \notin Writing /\ ~(kind = "mutex" /\ at[u] = "walk")
    BY <1>0, <1>3 DEF LockPhase, Sharing
  <2>2. at'[u] = at[u] /\ call'[u] = call[u] /\ made'[u] = made[u] /\ epc'[u] = epc[u]
    BY <1>2 DEF Others
  <2>3. CallPhase(u)
    BY <1>0
  <2>4. QED
    BY <2>1, <2>2, <2>3 DEF CallPhase, StandsInList, Writing
<1>5. CallPhase(t)' /\ StandsInList(t)'
  BY <1>0, <1>2 DEF CallPhase, StandsInList, Guarded, Sharing, Writing
<1>6. LockPhase'
  <2>1. \A u \in Threads \ {t} : at'[u] = at[u]
    BY <1>2 DEF Others
  <2>2. at[t] \in Writing /\ at'[t] \in Writing /\ at[t] \notin Sharing /\ at'[t] \notin Sharing
    BY <1>2 DEF Writing, Sharing
  <2>3. QED
    BY <1>0, <2>1, <2>2 DEF LockPhase, lockVars
<1>7. ScopePhase'
  BY <1>0, <1>1 DEF ScopePhase
<1>8. QED
  BY <1>4, <1>5, <1>6, <1>7 DEF LInv

(* Insert finds the key, or constructs a node, or links the one it has.    *)
LEMMA InsertNodeCases ==
  ASSUME LInv, NEW t \in Threads, InsertNode(t)
  PROVE  LET k == call[t].key
             d == call[t].data
         IN  /\ call[t].op = "Insert" /\ k \in Keys /\ d \in Data
             /\ UNCHANGED <<lockVars, epochVars, deleted, in_scope, call, made, seen, answer, result>>
             /\ \/ /\ at[t] = "write" /\ at' = [at EXCEPT ![t] = "crashed"]
                   /\ UNCHANGED <<heap, cur>>
                \/ /\ at[t] = "write" /\ Found(heap, k) /\ at' = [at EXCEPT ![t] = "assign"]
                   /\ heap' = Overwrite(heap, k, Torn) /\ cur' = cur
                \/ /\ at[t] = "write" /\ ~Found(heap, k) /\ at' = [at EXCEPT ![t] = "link"]
                   /\ \E n \in Fresh(heap) : /\ heap' = NewNode(heap, n, k, d, Current(heap, k))
                                             /\ cur' = [cur EXCEPT ![t] = n]
                \/ /\ at[t] = "link" /\ at' = [at EXCEPT ![t] = "unlock"]
                   /\ ~Found(heap, k) /\ Built(heap, cur[t], k, d)
                   /\ heap' = Link(heap, cur[t], k) /\ cur' = [cur EXCEPT ![t] = null]
<1>1. CallPhase(t) /\ call[t].op = "Insert" /\ at[t] \in {"write", "link"}
  BY DEF LInv, InsertNode, InsertFound, InsertNew, Go
<1>2. call[t].key \in Keys /\ call[t].data \in Data
  BY <1>1 DEF CallPhase, Calls
<1>3. at[t] = "link" => ~Found(heap, call[t].key) /\ Built(heap, cur[t], call[t].key, call[t].data)
  BY <1>1 DEF CallPhase
<1>4. QED
  BY <1>1, <1>2, <1>3 DEF InsertNode, InsertFound, InsertNew, Go

LEMMA InsertNodeStep ==
  ASSUME LInv, NEW t \in Threads, InsertNode(t), kind' = kind
  PROVE  LInv'
<1> DEFINE k == call[t].key
           d == call[t].data
<1>0. /\ ListTypes /\ Epochs!HandlerTypeOK /\ LockPhase /\ Proper(heap) /\ InOnePlace
  BY DEF LInv
<1>1. /\ call[t].op = "Insert" /\ k \in Keys /\ d \in Data /\ at[t] \in {"write", "link"}
      /\ UNCHANGED <<lockVars, epochVars, deleted, in_scope, call, made, seen, answer, result>>
  BY InsertNodeCases
<1>2. UNCHANGED <<alive, freed, epc, to_free_ptr>> /\ Epochs!HandlerTypeOK'
  BY <1>0, <1>1, HandlerStays DEF epochVars
<1>3. ASSUME NEW to \in {"assign", "link", "unlock", "crashed"}, at' = [at EXCEPT ![t] = to],
             cur' = cur \/ \E n \in Links : cur' = [cur EXCEPT ![t] = n]
      PROVE  ListTypes' /\ \A u \in Threads \ {t} : cur'[u] = cur[u] /\ at'[u] = at[u]
  <2>1. cur' \in [Threads -> Links] /\ \A u \in Threads \ {t} : cur'[u] = cur[u]
    BY <1>0, <1>3 DEF ListTypes
  <2>2. at' \in [Threads -> {"idle", "lookup", "snapshot", "root", "walk", "validate",
                        "leave", "restart", "update", "write", "assign", "link",
                        "unlock", "unlock_shared", "return", "crashed"}]
        /\ \A u \in Threads \ {t} : at'[u] = at[u]
    BY <1>0, <1>3 DEF ListTypes
  <2>3. QED
    BY <1>0, <1>1, <2>1, <2>2 DEF ListTypes, lockVars
<1> HIDE DEF k, d
<1>4. CASE /\ at[t] = "write" /\ at' = [at EXCEPT ![t] = "crashed"] /\ UNCHANGED <<heap, cur>>
  <2>1. \A u \in Threads : at[u] # "link" /\ at'[u] # "link"
    BY <1>4, NobodyLinks DEF Writing
  <2>2. Proper(heap') /\ InOnePlace'
    BY <1>0, <1>1, <1>2, <1>4, <2>1, SamePlaces
  <2>3. ListTypes' /\ \A u \in Threads \ {t} : cur'[u] = cur[u]
    BY <1>3, <1>4
  <2>4. QED
    BY <1>1, <1>2, <1>4, <2>2, <2>3, WriterStep
<1>5. CASE /\ at[t] = "write" /\ Found(heap, k) /\ at' = [at EXCEPT ![t] = "assign"]
           /\ heap' = Overwrite(heap, k, Torn) /\ cur' = cur
  <2>1. /\ Proper(heap') /\ Chain(heap') = Chain(heap) /\ Fresh(heap') = Fresh(heap)
        /\ Current(heap, k) \in Chain(heap) /\ KeyOf(heap, Current(heap, k)) = k
        /\ \A m \in Nodes : KeyOf(heap', m) = KeyOf(heap, m)
    BY <1>0, <1>1, <1>5, OverwriteKeepsList
  <2>2. Found(heap', k)
    <3>1. \E n \in Chain(heap') : KeyOf(heap', n) = k
      BY <1>0, <2>1, ProperFacts
    <3>2. QED
      BY <1>1, <2>1, <3>1, KeyType, StopSplits DEF Proper
  <2>3. \A u \in Threads : at[u] # "link" /\ at'[u] # "link"
    BY <1>5, NobodyLinks DEF Writing
  <2>4. InOnePlace'
    BY <1>0, <1>1, <1>2, <2>1, <2>3, SamePlaces
  <2>5. ListTypes' /\ \A u \in Threads \ {t} : cur'[u] = cur[u]
    BY <1>3, <1>5
  <2>6. QED
    BY <1>1, <1>2, <1>5, <2>1, <2>2, <2>4, <2>5, WriterStep DEF k
<1>6. CASE /\ at[t] = "write" /\ ~Found(heap, k) /\ at' = [at EXCEPT ![t] = "link"]
           /\ \E n \in Fresh(heap) : /\ heap' = NewNode(heap, n, k, d, Current(heap, k))
                                     /\ cur' = [cur EXCEPT ![t] = n]
  <2>1. PICK n \in Fresh(heap) : /\ heap' = NewNode(heap, n, k, d, Current(heap, k))
                                 /\ cur' = [cur EXCEPT ![t] = n]
    BY <1>6
  <2>2. /\ Proper(heap') /\ Chain(heap') = Chain(heap) /\ Fresh(heap') = Fresh(heap) \ {n}
        /\ Built(heap', n, k, d) /\ ~Found(heap', k) /\ n \in Nodes /\ n \notin Chain(heap)
    BY <1>0, <1>1, <1>6, <2>1, NewNodeKeepsList, ProperFacts DEF Fresh
  <2>3. n \in Links
    BY <2>2 DEF Links
  <2>4. ListTypes' /\ \A u \in Threads \ {t} : cur'[u] = cur[u] /\ at'[u] = at[u]
    BY <1>3, <1>6, <2>1, <2>3
  <2>5. cur'[t] = n /\ at'[t] = "link"
    BY <1>0, <1>6, <2>1 DEF ListTypes
  <2>6. \A u \in Threads : (at[u] = "link" => u = t) /\ at[t] # "link"
    BY <1>6, OneWriter DEF Writing
  <2>7. DeletedApart' /\ FreedApart' /\ DeferredApart' /\ DeferredOnce'
    BY <1>0, <1>1, <1>2, <2>2
       DEF InOnePlace, DeletedApart, FreedApart, DeferredApart, DeferredOnce, PtrAt
  <2>8. BuiltApart'
    <3>1. /\ n \notin deleted /\ \A f \in freed : f.ptr # n
          /\ \A u \in Threads : \A i \in DOMAIN to_free_ptr[u] : PtrAt(u, i) # n
      BY <1>0, <2>1 DEF InOnePlace, DeletedApart, FreedApart, DeferredApart
    <3>2. \A u \in Threads : at'[u] = "link" => cur'[u] = n
      BY <2>4, <2>5, <2>6
    <3>3. QED
      BY <1>1, <1>2, <2>2, <3>1, <3>2 DEF BuiltApart, PtrAt
  <2>9. NoneIsLost'
    BY <1>0, <1>1, <1>2, <2>2, <2>5, <2>6 DEF InOnePlace, NoneIsLost, PtrAt
  <2>10. InOnePlace'
    BY <2>7, <2>8, <2>9 DEF InOnePlace
  <2>11. QED
    BY <1>1, <1>2, <1>6, <2>2, <2>4, <2>5, <2>10, WriterStep DEF k, d
<1>7. CASE /\ at[t] = "link" /\ at' = [at EXCEPT ![t] = "unlock"]
           /\ ~Found(heap, k) /\ Built(heap, cur[t], k, d)
           /\ heap' = Link(heap, cur[t], k) /\ cur' = [cur EXCEPT ![t] = null]
  <2>1. /\ Proper(heap') /\ Chain(heap') = Chain(heap) \union {cur[t]}
        /\ Fresh(heap') = Fresh(heap)
    BY <1>0, <1>1, <1>7, LinkKeepsList, LinkFields DEF Built
  <2>2. ListTypes' /\ \A u \in Threads \ {t} : cur'[u] = cur[u] /\ at'[u] = at[u]
    BY <1>3, <1>7 DEF Links
  <2>3. \A u \in Threads : (at[u] = "link" => u = t) /\ at'[u] # "link"
    <3>1. \A u \in Threads : at[u] = "link" => u = t
      BY <1>7, OneWriter DEF Writing
    <3>2. QED
      BY <1>0, <1>7, <3>1 DEF ListTypes
  <2>4. /\ cur[t] \notin Fresh(heap) \union deleted
        /\ \A f \in freed : f.ptr # cur[t]
        /\ \A u \in Threads : \A i \in DOMAIN to_free_ptr[u] : PtrAt(u, i) # cur[t]
    BY <1>0, <1>7 DEF InOnePlace, BuiltApart
  <2>5. DeletedApart' /\ FreedApart' /\ DeferredApart' /\ DeferredOnce'
    BY <1>0, <1>1, <1>2, <2>1, <2>4
       DEF InOnePlace, DeletedApart, FreedApart, DeferredApart, DeferredOnce, PtrAt
  <2>6. BuiltApart' /\ NoneIsLost'
    BY <1>0, <1>1, <1>2, <2>1, <2>3 DEF InOnePlace, BuiltApart, NoneIsLost, PtrAt
  <2>7. InOnePlace'
    BY <2>5, <2>6 DEF InOnePlace
  <2>8. QED
    BY <1>1, <1>2, <1>7, <2>1, <2>2, <2>7, WriterStep
<1>8. QED
  BY <1>4, <1>5, <1>6, <1>7, InsertNodeCases DEF k, d

LEMMA AssignStep ==
  ASSUME LInv, NEW t \in Threads, Assign(t), kind' = kind
  PROVE  LInv'
<1>0. /\ ListTypes /\ Epochs!HandlerTypeOK /\ CallPhase(t) /\ LockPhase /\ Proper(heap)
      /\ InOnePlace
  BY DEF LInv
<1>1. /\ at[t] = "assign" /\ at' = [at EXCEPT ![t] = "unlock"]
      /\ heap' = Overwrite(heap, call[t].key, call[t].data)
      /\ UNCHANGED <<lockVars, epochVars, deleted, in_scope, callVars>>
  BY DEF Assign, Go
<1>2. call[t].key \in Keys /\ call[t].data \in Data /\ Found(heap, call[t].key)
  BY <1>0, <1>1 DEF CallPhase, Calls
<1>3. UNCHANGED <<call, made, cur, seen, answer, result, alive, freed, epc, to_free_ptr>>
  BY <1>1 DEF callVars, epochVars
<1>4. Epochs!HandlerTypeOK'
  BY <1>0, <1>1, HandlerStays
<1>5. ListTypes'
  BY <1>0, <1>1, <1>3 DEF ListTypes, lockVars
<1>6. Proper(heap') /\ Chain(heap') = Chain(heap) /\ Fresh(heap') = Fresh(heap)
  BY <1>0, <1>1, <1>2, OverwriteKeepsList
<1>7. InOnePlace'
  <2>1. \A u \in Threads : at[u] # "link" /\ at'[u] # "link"
    BY <1>1, NobodyLinks DEF Writing
  <2>2. QED
    BY <1>0, <1>1, <1>3, <1>6, <2>1, SamePlaces
<1>8. QED
  BY <1>1, <1>3, <1>4, <1>5, <1>6, <1>7, WriterStep

(* What Delete takes out of the list was allocated, and is nowhere else.   *)
LEMMA CurrentIsInList ==
  ASSUME LInv, NEW k \in Keys, Found(heap, k), NEW c, c = Current(heap, k)
  PROVE  /\ c \in Chain(heap) /\ c \in Nodes /\ c \notin Fresh(heap) /\ c \notin deleted
         /\ \A f \in freed : f.ptr # c
         /\ \A t \in Threads : \A i \in DOMAIN to_free_ptr[t] : PtrAt(t, i) # c
<1>1. Proper(heap) /\ InOnePlace
  BY DEF LInv
<1>2. c \in Chain(heap) /\ c \in Nodes /\ c \notin Fresh(heap)
  BY <1>1, UnlinkKeepsList, ProperFacts
<1>3. QED
  BY <1>1, <1>2 DEF InOnePlace, DeletedApart, FreedApart, DeferredApart

LEMMA OptimisticDeleteStep ==
  ASSUME LInv, NEW t \in Threads, OptimisticDelete(t), kind = "optimistic", kind' = kind
  PROVE  LInv'
<1> DEFINE k == call[t].key
           c == Current(heap, k)
           x == [ptr |-> c, epoch |-> local_epoch[t]]
           last == Len(to_free_ptr[t]) + 1
<1>0. /\ ListTypes /\ Epochs!HandlerTypeOK /\ CallPhase(t) /\ LockPhase /\ Proper(heap)
      /\ InOnePlace
  BY DEF LInv
<1>1. /\ at[t] = "write" /\ at' = [at EXCEPT ![t] = "unlock"]
      /\ answer' = [answer EXCEPT ![t] = Found(heap, k)]
      /\ UNCHANGED <<lockVars, deleted, in_scope, call, made, cur, seen, result>>
  BY DEF OptimisticDelete, Go
<1>2. k \in Keys
  BY <1>0, <1>1 DEF CallPhase, Calls
<1>3. UNCHANGED <<alive, freed, epc>>
  BY DEF OptimisticDelete, epochVars, Epochs!DeferFreePointer, Epochs!callVars
<1>4. ListTypes'
  BY <1>0, <1>1 DEF ListTypes, lockVars
<1>5. \A u \in Threads : at[u] # "link" /\ at'[u] # "link"
  BY <1>1, NobodyLinks DEF Writing
<1> HIDE DEF k, c, x, last
<1>6. CASE ~Found(heap, k)
  <2>1. UNCHANGED <<heap, epochVars>>
    BY <1>6 DEF OptimisticDelete, k
  <2>2. Epochs!HandlerTypeOK' /\ UNCHANGED <<deleted, freed, to_free_ptr>>
    BY <1>0, <1>1, <2>1, HandlerStays DEF epochVars
  <2>3. Proper(heap') /\ InOnePlace'
    BY <1>0, <1>5, <2>1, <2>2, SamePlaces
  <2>4. QED
    BY <1>1, <1>3, <1>4, <2>2, <2>3, WriterStep
<1>7. CASE Found(heap, k)
  <2>1. /\ heap' = Unlink(heap, k) /\ Epochs!DeferFreePointer(t, c)
    BY <1>7 DEF OptimisticDelete, k, c
  <2>2. /\ c \in Chain(heap) /\ c \in Nodes /\ c \notin Fresh(heap) /\ c \notin deleted
        /\ \A f \in freed : f.ptr # c
        /\ \A u \in Threads : \A i \in DOMAIN to_free_ptr[u] : PtrAt(u, i) # c
    BY <1>2, <1>7, CurrentIsInList DEF c
  <2>3. Proper(heap') /\ Chain(heap') = Chain(heap) \ {c} /\ Fresh(heap') = Fresh(heap)
    BY <1>0, <1>2, <1>7, <2>1, UnlinkKeepsList DEF c
  <2>4. /\ to_free_ptr' = [to_free_ptr EXCEPT ![t] = Append(to_free_ptr[t], x)]
        /\ UNCHANGED <<global_epoch, local_epoch, reg, idx>>
    BY <2>1 DEF Epochs!DeferFreePointer, Epochs!slotVars, Epochs!callVars, x
  <2>5. /\ to_free_ptr[t] \in Seq(Epochs!ToFreePointer) /\ x \in Epochs!ToFreePointer
        /\ DOMAIN to_free_ptr = Threads /\ x.ptr = c
        /\ \A u \in Threads : to_free_ptr[u] \in Seq(Epochs!ToFreePointer)
    BY <1>0, <2>2, ThreadsOfLibraries DEF Epochs!HandlerTypeOK, Epochs!ToFreePointer, x
  <2>6. Append(to_free_ptr[t], x) \in Seq(Epochs!ToFreePointer)
    BY <2>5
  <2>7. /\ to_free_ptr'[t] = Append(to_free_ptr[t], x) /\ DOMAIN to_free_ptr' = Threads
        /\ \A u \in Threads \ {t} : to_free_ptr'[u] = to_free_ptr[u]
    BY <2>4, <2>5
  <2>8. Epochs!HandlerTypeOK'
    <3>1. \A u \in Threads : to_free_ptr'[u] \in Seq(Epochs!ToFreePointer)
      BY <2>5, <2>6, <2>7
    <3>2. QED
      BY <1>0, <1>3, <2>4, <2>7, <3>1, ThreadsOfLibraries DEF Epochs!HandlerTypeOK
  <2>9. /\ DOMAIN to_free_ptr'[t] = DOMAIN to_free_ptr[t] \union {last}
        /\ last \notin DOMAIN to_free_ptr[t]
        /\ to_free_ptr'[t][last].ptr = c
        /\ \A i \in DOMAIN to_free_ptr[t] : PtrAt(t, i)' = PtrAt(t, i)
    <3> DEFINE s == to_free_ptr[t]
    <3>1. s \in Seq(Epochs!ToFreePointer) /\ Len(s) \in Nat /\ DOMAIN s = 1 .. Len(s)
      BY <2>5, LenProperties
    <3>2. /\ DOMAIN Append(s, x) = 1 .. Len(s) + 1 /\ Append(s, x)[Len(s) + 1] = x
          /\ \A i \in 1 .. Len(s) : Append(s, x)[i] = s[i]
      BY <2>5, <3>1, AppendProperties
    <3>3. 1 .. Len(s) + 1 = (1 .. Len(s)) \union {Len(s) + 1} /\ Len(s) + 1 \notin 1 .. Len(s)
      BY <3>1
    <3>4. QED
      BY <2>5, <2>7, <3>1, <3>2, <3>3 DEF PtrAt, last
  <2>10. \A u \in Threads \ {t} : /\ DOMAIN to_free_ptr'[u] = DOMAIN to_free_ptr[u]
                                  /\ \A i \in DOMAIN to_free_ptr[u] : PtrAt(u, i)' = PtrAt(u, i)
    BY <2>7 DEF PtrAt
  <2>11. DeletedApart' /\ FreedApart'
    BY <1>0, <1>1, <1>3, <2>2, <2>3 DEF InOnePlace, DeletedApart, FreedApart
  <2>12. DeferredApart'
    <3>1. \A i \in DOMAIN to_free_ptr'[t] :
            /\ PtrAt(t, i)' \notin Chain(heap') \union Fresh(heap') \union deleted'
            /\ \A f \in freed' : PtrAt(t, i)' # f.ptr
      BY <1>0, <1>1, <1>3, <2>2, <2>3, <2>9 DEF InOnePlace, DeferredApart, PtrAt
    <3>2. \A u \in Threads \ {t} : \A i \in DOMAIN to_free_ptr'[u] :
            /\ PtrAt(u, i)' \notin Chain(heap') \union Fresh(heap') \union deleted'
            /\ \A f \in freed' : PtrAt(u, i)' # f.ptr
      BY <1>0, <1>1, <1>3, <2>2, <2>3, <2>10 DEF InOnePlace, DeferredApart
    <3>3. QED
      BY <3>1, <3>2 DEF DeferredApart
  <2>13. DeferredOnce'
    <3>1. DeferredOnce
      BY <1>0 DEF InOnePlace
    <3>2. ASSUME NEW u \in Threads, NEW v \in Threads,
                 NEW i \in DOMAIN to_free_ptr'[u], NEW j \in DOMAIN to_free_ptr'[v],
                 PtrAt(u, i)' = PtrAt(v, j)'
          PROVE  u = v /\ i = j
      <4>1. CASE u = t /\ i = last
        <5>1. v # t => FALSE
          BY <2>2, <2>9, <2>10, <3>2, <4>1 DEF PtrAt
        <5>2. v = t => j = last
          BY <2>2, <2>9, <3>2, <4>1 DEF PtrAt
        <5>3. QED
          BY <4>1, <5>1, <5>2
      <4>2. CASE v = t /\ j = last
        <5>1. u # t => FALSE
          BY <2>2, <2>9, <2>10, <3>2, <4>2 DEF PtrAt
        <5>2. u = t => i = last
          BY <2>2, <2>9, <3>2, <4>2 DEF PtrAt
        <5>3. QED
          BY <4>2, <5>1, <5>2
      <4>3. CASE ~(u = t /\ i = last) /\ ~(v = t /\ j = last)
        <5>1. i \in DOMAIN to_free_ptr[u] /\ PtrAt(u, i)' = PtrAt(u, i)
          BY <2>9, <2>10, <4>3
        <5>2. j \in DOMAIN to_free_ptr[v] /\ PtrAt(v, j)' = PtrAt(v, j)
          BY <2>9, <2>10, <4>3
        <5>3. PtrAt(u, i) = PtrAt(v, j)
          BY <3>2, <5>1, <5>2
        <5>4. QED
          BY <3>1, <3>2, <5>1, <5>2, <5>3 DEF DeferredOnce
      <4>4. QED
        BY <4>1, <4>2, <4>3
    <3>3. QED
      BY <3>2 DEF DeferredOnce
  <2>14. NoneIsLost'
    <3>1. ASSUME NEW n \in Nodes \ Fresh(heap)
          PROVE  \/ n \in Chain(heap') \/ n \in deleted' \/ \E f \in freed' : f.ptr = n
                 \/ \E u \in Threads : \E i \in DOMAIN to_free_ptr'[u] : PtrAt(u, i)' = n
      <4>1. CASE n = c
        BY <2>9, <4>1 DEF PtrAt
      <4>2. CASE n # c /\ (n \in Chain(heap) \/ n \in deleted \/ \E f \in freed : f.ptr = n)
        BY <1>1, <1>3, <2>3, <4>2
      <4>3. ASSUME NEW u \in Threads, NEW i \in DOMAIN to_free_ptr[u], PtrAt(u, i) = n
            PROVE  i \in DOMAIN to_free_ptr'[u] /\ PtrAt(u, i)' = n
        BY <2>9, <2>10, <4>3
      <4>4. \/ n \in Chain(heap) \/ n \in deleted \/ \E f \in freed : f.ptr = n
            \/ \E u \in Threads : \E i \in DOMAIN to_free_ptr[u] : PtrAt(u, i) = n
        BY <1>0, <1>5 DEF InOnePlace, NoneIsLost
      <4>5. QED
        BY <4>1, <4>2, <4>3, <4>4
    <3>2. QED
      BY <2>3, <3>1 DEF NoneIsLost
  <2>15. InOnePlace'
    BY <1>5, <2>11, <2>12, <2>13, <2>14 DEF InOnePlace, BuiltApart
  <2>16. QED
    BY <1>1, <1>3, <1>4, <2>3, <2>8, <2>15, WriterStep
<1>8. QED
  BY <1>6, <1>7

LEMMA MutexDeleteStep ==
  ASSUME LInv, NEW t \in Threads, MutexDelete(t), kind = "mutex", kind' = kind
  PROVE  LInv'
<1> DEFINE k == call[t].key
           c == Current(heap, k)
<1>0. /\ ListTypes /\ Epochs!HandlerTypeOK /\ CallPhase(t) /\ LockPhase /\ Proper(heap)
      /\ InOnePlace
  BY DEF LInv
<1>1. /\ at[t] = "write" /\ at' = [at EXCEPT ![t] = "unlock"]
      /\ answer' = [answer EXCEPT ![t] = Found(heap, k)]
      /\ UNCHANGED <<lockVars, epochVars, in_scope, call, made, cur, seen, result>>
  BY DEF MutexDelete, Go
<1>2. k \in Keys
  BY <1>0, <1>1 DEF CallPhase, Calls
<1>3. UNCHANGED <<alive, freed, epc, to_free_ptr>> /\ Epochs!HandlerTypeOK'
  BY <1>0, <1>1, HandlerStays DEF epochVars
<1> HIDE DEF k, c
<1>4. \A u \in Threads : at[u] # "link" /\ at'[u] # "link"
  BY <1>1, NobodyLinks DEF Writing
<1>5. ASSUME deleted' \subseteq Nodes PROVE ListTypes'
  BY <1>0, <1>1, <1>5 DEF ListTypes, lockVars
<1>6. CASE ~Found(heap, k)
  <2>1. UNCHANGED <<heap, deleted>>
    BY <1>6 DEF MutexDelete, k
  <2>2. Proper(heap') /\ InOnePlace' /\ ListTypes'
    BY <1>0, <1>3, <1>5, <1>4, <2>1, SamePlaces DEF ListTypes
  <2>3. QED
    BY <1>1, <1>3, <2>2, WriterStep
<1>7. CASE Found(heap, k)
  <2>1. heap' = Unlink(heap, k) /\ deleted' = deleted \union {c}
    BY <1>7 DEF MutexDelete, k, c
  <2>2. /\ c \in Chain(heap) /\ c \in Nodes /\ c \notin Fresh(heap) /\ c \notin deleted
        /\ \A f \in freed : f.ptr # c
        /\ \A u \in Threads : \A i \in DOMAIN to_free_ptr[u] : PtrAt(u, i) # c
    BY <1>2, <1>7, CurrentIsInList DEF c
  <2>3. Proper(heap') /\ Chain(heap') = Chain(heap) \ {c} /\ Fresh(heap') = Fresh(heap)
    BY <1>0, <1>2, <1>7, <2>1, UnlinkKeepsList DEF c
  <2>4. ListTypes'
    BY <1>0, <1>5, <2>1, <2>2 DEF ListTypes
  <2>5. InOnePlace'
    BY <1>0, <1>3, <1>4, <2>1, <2>2, <2>3
       DEF InOnePlace, DeletedApart, FreedApart, DeferredApart, DeferredOnce, BuiltApart,
           NoneIsLost, PtrAt
  <2>6. QED
    BY <1>1, <1>3, <2>3, <2>4, <2>5, WriterStep
<1>8. QED
  BY <1>6, <1>7
-----------------------------------------------------------------------------
(***************************************************************************)
(* The destructors.                                                        *)
(***************************************************************************)
LEMMA DestroyListStep ==
  ASSUME LInv, DestroyList, kind' = kind
  PROVE  LInv'
<1>0. /\ ListTypes /\ Epochs!HandlerTypeOK /\ LockPhase /\ Proper(heap) /\ InOnePlace /\ ScopePhase
      /\ \A t \in Threads : CallPhase(t) /\ StandsInList(t)
  BY DEF LInv
<1>1. /\ AllReturned /\ in_scope' = FALSE
      /\ deleted' = deleted \union Chain(heap) /\ heap' = [heap EXCEPT !.root = null]
      /\ UNCHANGED <<lockVars, epochVars, at, call, made, cur, seen, answer, result>>
  BY DEF DestroyList, callVars
<1>2. Proper(heap') /\ Chain(heap') = {} /\ Fresh(heap') = Fresh(heap)
  BY <1>0, <1>1, EmptyList
<1>3. Chain(heap) \subseteq Nodes /\ Chain(heap) \intersect Fresh(heap) = {}
  BY <1>0, ProperFacts
<1>4. UNCHANGED <<to_free_ptr, freed, alive, epc>> /\ Epochs!HandlerTypeOK'
  BY <1>0, <1>1, HandlerStays DEF epochVars
<1>5. ListTypes'
  BY <1>0, <1>1, <1>3 DEF ListTypes, lockVars
<1>6. \A t \in Threads : at[t] = "idle"
  BY <1>1 DEF AllReturned
<1>7. \A t \in Threads : CallPhase(t)' /\ StandsInList(t)'
  BY <1>0, <1>1, <1>4, <1>6 DEF CallPhase, StandsInList, Guarded, Sharing, Writing
<1>8. LockPhase' /\ ScopePhase'
  BY <1>0, <1>1, <1>4 DEF LockPhase, ScopePhase, lockVars, AllReturned
<1>9. InOnePlace'
  BY <1>0, <1>1, <1>2, <1>3, <1>4, <1>6
     DEF InOnePlace, DeletedApart, FreedApart, DeferredApart, DeferredOnce, BuiltApart,
         NoneIsLost, PtrAt
<1>10. QED
  BY <1>2, <1>4, <1>5, <1>7, <1>8, <1>9 DEF LInv

LEMMA DestroyHandlerStep ==
  ASSUME LInv, DestroyHandler, kind = "optimistic", kind' = kind
  PROVE  LInv'
<1>0. /\ ListTypes /\ Epochs!HandlerTypeOK /\ LockPhase /\ Proper(heap) /\ InOnePlace /\ ScopePhase
      /\ \A t \in Threads : CallPhase(t) /\ StandsInList(t)
  BY DEF LInv
<1> DEFINE deferred == UNION {{to_free_ptr[t][i] : i \in DOMAIN to_free_ptr[t]} : t \in Threads}
<1>1. /\ ~in_scope /\ AllReturned /\ alive' = FALSE
      /\ UNCHANGED <<lockVars, heapVars, at, callVars>>
      /\ UNCHANGED <<global_epoch, local_epoch, epc, reg, idx>>
      /\ freed' = freed \union deferred
      /\ to_free_ptr' = [t \in Threads |-> <<>>]
  BY ThreadsOfLibraries
     DEF DestroyHandler, Epochs!Destruct, Epochs!slotVars, Epochs!callVars, Epochs!ToSet
<1>2. UNCHANGED <<heap, deleted, in_scope, call, made, cur, seen, answer, result>>
  BY <1>1 DEF heapVars, callVars
<1>3. \A f : f \in deferred <=> \E t \in Threads : \E i \in DOMAIN to_free_ptr[t] : f = to_free_ptr[t][i]
  OBVIOUS
<1>4. deferred \subseteq Epochs!ToFreePointer
  <2>1. \A t \in Threads : to_free_ptr[t] \in Seq(Epochs!ToFreePointer)
    BY <1>0, ThreadsOfLibraries DEF Epochs!HandlerTypeOK
  <2>2. \A t \in Threads : \A i \in DOMAIN to_free_ptr[t] : to_free_ptr[t][i] \in Epochs!ToFreePointer
    BY <2>1, ElementOfSeq, LenProperties
  <2>3. QED
    BY <1>3, <2>2
<1> HIDE DEF deferred
<1>5. Epochs!HandlerTypeOK'
  <2>1. <<>> \in Seq(Epochs!ToFreePointer)
    OBVIOUS
  <2>2. freed' \subseteq Epochs!ToFreePointer
    BY <1>0, <1>1, <1>4 DEF Epochs!HandlerTypeOK
  <2>3. DOMAIN to_free_ptr' = Epochs!Threads
        /\ \A t \in Epochs!Threads : to_free_ptr'[t] \in Seq(Epochs!ToFreePointer)
    BY <1>1, <2>1, ThreadsOfLibraries
  <2>4. QED
    BY <1>0, <1>1, <2>2, <2>3 DEF Epochs!HandlerTypeOK
<1>6. ListTypes'
  BY <1>0, <1>1, <1>2 DEF ListTypes, lockVars
<1>7. \A t \in Threads : CallPhase(t)' /\ StandsInList(t)'
  BY <1>0, <1>1, <1>2 DEF CallPhase, StandsInList
<1>8. LockPhase' /\ ScopePhase'
  BY <1>0, <1>1, <1>2 DEF LockPhase, ScopePhase, lockVars, AllReturned
<1>9. Proper(heap')
  BY <1>0, <1>2
<1>10. \A t \in Threads : DOMAIN to_free_ptr'[t] = {}
  BY <1>1
<1>11. InOnePlace'
  <2>1. /\ \A f \in deferred : f.ptr \notin Chain(heap) \union Fresh(heap) \union deleted
        /\ \A f \in deferred, g \in freed : f.ptr # g.ptr
    BY <1>0, <1>3 DEF InOnePlace, DeferredApart, PtrAt
  <2>2. \A f, g \in deferred : f.ptr = g.ptr => f = g
    BY <1>0, <1>3 DEF InOnePlace, DeferredOnce, PtrAt
  <2>3. FreedApart'
    BY <1>0, <1>1, <1>2, <2>1, <2>2 DEF InOnePlace, FreedApart
  <2>4. NoneIsLost'
    <3>1. \A t \in Threads : \A i \in DOMAIN to_free_ptr[t] : \E f \in deferred : f.ptr = PtrAt(t, i)
      BY <1>3 DEF PtrAt
    <3>2. QED
      BY <1>0, <1>1, <1>2, <3>1 DEF InOnePlace, NoneIsLost
  <2>5. DeletedApart' /\ DeferredApart' /\ DeferredOnce'
    BY <1>0, <1>2, <1>10 DEF InOnePlace, DeletedApart, DeferredApart, DeferredOnce
  <2>6. BuiltApart'
    BY <1>1 DEF AllReturned, BuiltApart
  <2>7. QED
    BY <2>3, <2>4, <2>5, <2>6 DEF InOnePlace
<1>12. QED
  BY <1>5, <1>6, <1>7, <1>8, <1>9, <1>11 DEF LInv
-----------------------------------------------------------------------------
(***************************************************************************)
(* The invariant holds of every behaviour.                                 *)
(***************************************************************************)
LEMMA InitLInv == Init => LInv
<1> SUFFICES ASSUME Init PROVE LInv
  OBVIOUS
<1>1. /\ writers = {} /\ readers = {} /\ version = 0 /\ kind \in Kinds
      /\ heap = InitialHeap /\ deleted = {} /\ in_scope = TRUE
      /\ at = [t \in Threads |-> "idle"] /\ call = [t \in Threads |-> NoCall]
      /\ made = [t \in Threads |-> 0] /\ cur = [t \in Threads |-> null]
      /\ seen = [t \in Threads |-> 0] /\ answer = [t \in Threads |-> Absent]
      /\ result = [t \in Threads |-> Absent]
  BY DEF Init, Lock!Init
<1>2. /\ to_free_ptr = [t \in Threads |-> <<>>] /\ epc = [t \in Threads |-> "outside"]
      /\ freed = {} /\ alive = TRUE
  BY ThreadsOfLibraries DEF Init, Epochs!HandlerInit
<1>3. Epochs!HandlerTypeOK
  <2>1. 0 \in Epochs!Epochs
    BY ListAssumption DEF Epochs!Epochs
  <2>2. QED
    BY <2>1 DEF Init, Epochs!HandlerInit, Epochs!HandlerTypeOK
<1>4. Proper(heap) /\ Fresh(heap) = Nodes \ Chain(heap)
  <2>1. InitialHeap \in Heaps /\ Ascending(InitialHeap)
        /\ Fresh(InitialHeap) = Nodes \ Chain(InitialHeap)
    BY ListAssumption
  <2>2. Chain(InitialHeap) \subseteq Nodes
    BY <2>1, ChainMembers
  <2>3. \A n \in Nodes : KeyOf(InitialHeap, n) \in Keys \union {0}
    BY <2>1 DEF Heaps, KeyOf
  <2>4. \A n \in Chain(InitialHeap) : KeyOf(InitialHeap, n) \in Keys
    BY <2>1, <2>2, <2>3 DEF Fresh, KeyOf
  <2>5. QED
    BY <1>1, <2>1, <2>4 DEF Proper
<1>5. ListTypes
  BY <1>1, ListAssumption DEF ListTypes, Links
<1>6. \A t \in Threads : CallPhase(t) /\ StandsInList(t)
  BY <1>1, <1>2 DEF CallPhase, StandsInList, Guarded, Sharing, Writing
<1>7. LockPhase
  BY <1>1 DEF LockPhase, Sharing, Writing
<1>8. ScopePhase
  BY <1>1, <1>2 DEF ScopePhase
<1>9. InOnePlace
  BY <1>1, <1>2, <1>4
     DEF InOnePlace, DeletedApart, FreedApart, DeferredApart, DeferredOnce, BuiltApart, NoneIsLost
<1>10. QED
  BY <1>3, <1>4, <1>5, <1>6, <1>7, <1>8, <1>9 DEF LInv

LEMMA NextLInv == LInv /\ [Next]_listVars => LInv'
<1> SUFFICES ASSUME LInv, [Next]_listVars PROVE LInv'
  OBVIOUS
<1>1. CASE UNCHANGED listVars
  <2>1. /\ UNCHANGED <<kind, lockVars, epochVars, heapVars, at, callVars>>
        /\ UNCHANGED <<heap, deleted, in_scope, call, made, cur, seen, answer, result>>
        /\ UNCHANGED <<to_free_ptr, epc, freed, alive, writers, readers, version>>
    BY <1>1 DEF listVars, lockVars, epochVars, heapVars, callVars
  <2>2. Epochs!HandlerTypeOK'
    BY <2>1, HandlerStays DEF LInv
  <2>3. ListTypes' /\ LockPhase'
    BY <2>1 DEF LInv, ListTypes, LockPhase
  <2>4. ScopePhase'
    BY <2>1 DEF LInv, ScopePhase, AllReturned
  <2>5. \A t \in Threads : CallPhase(t)' /\ StandsInList(t)'
    BY <2>1 DEF LInv, CallPhase, StandsInList
  <2>6. InOnePlace' /\ Proper(heap')
    BY <2>1, SamePlaces DEF LInv
  <2>7. QED
    BY <2>2, <2>3, <2>4, <2>5, <2>6 DEF LInv
<1>2. ASSUME NEW t \in Threads, Step(t) PROVE LInv'
  <2>1. kind' = kind
    BY <1>2 DEF Step
  <2>2. CASE \E c \in CallsOf[t] : Begin(t, c)
    BY <2>1, <2>2, BeginStep
  <2>3. CASE Return(t)
    BY <2>1, <2>3, ReturnStep
  <2>4. CASE kind = "optimistic" /\ OptimisticStep(t)
    BY <2>1, <2>4, EnterEpochStep, OptimisticLockStep, LoadRootStep, VisitStep, ValidateStep,
       LeaveEpochStep, LockExclusiveStep, InsertNodeStep, AssignStep, OptimisticDeleteStep,
       UnlockStep DEF OptimisticStep, OptimisticInsert
  <2>5. CASE kind = "mutex" /\ MutexStep(t)
    BY <2>1, <2>5, LockSharedStep, LoadRootStep, VisitStep, UnlockSharedStep,
       LockExclusiveStep, InsertNodeStep, AssignStep, MutexDeleteStep, UnlockStep
       DEF MutexStep, MutexInsert
  <2>6. QED
    BY <1>2, <2>2, <2>3, <2>4, <2>5 DEF Step
<1>3. CASE DestroyList /\ UNCHANGED kind
  BY <1>3, DestroyListStep
<1>4. CASE kind = "optimistic" /\ DestroyHandler /\ UNCHANGED kind
  BY <1>4, DestroyHandlerStep
<1>5. QED
  BY <1>1, <1>2, <1>3, <1>4 DEF Next, Ended
-----------------------------------------------------------------------------
LEMMA Invariance == Spec => []LInv
BY InitLInv, NextLInv, PTL DEF Spec

(* The variables of both lists have their types in every behaviour         *)
(* (list.cc:20-180).                                                       *)
THEOREM TypeCorrectness == Spec => []TypeOK
<1>1. LInv => TypeOK
  BY DEF LInv, ListTypes, Proper, TypeOK
<1>2. QED
  BY <1>1, Invariance, PTL

(* Whatever the order of the updates, either list stays in ascending order *)
(* without duplicates (list.cc:28-50, 67-92, 107-129, 155-180).            *)
THEOREM ListsStayAscending == Spec => []StaysAscending
<1>1. LInv => StaysAscending
  BY DEF LInv, Proper, StaysAscending
<1>2. QED
  BY <1>1, Invariance, PTL

(* The chain of nodes from root_ never grows a cycle: a loop over the next *)
(* pointers is behind the last node after at most as many steps as there   *)
(* are nodes (list.cc:21-25, 32-40, 71-80, 97-103, 111-119, 139-146,       *)
(* 159-168).                                                               *)
LoopsEnd == Walk(heap)[Cardinality(Nodes)] = null

THEOREM TheChainHasAnEnd == Spec => []LoopsEnd
<1>1. LInv => LoopsEnd
  BY WalkEnds DEF LInv, Proper, LoopsEnd, Steps
<1>2. QED
  BY <1>1, Invariance, PTL

(* Nobody stands on a node that was freed: in the mutex list a lookup      *)
(* stands on a node of the list, from which Delete has taken what it       *)
(* frees; the optimistic one frees nothing before the destructors          *)
(* (list.cc:56, 89, 139-146, 176).                                         *)
THEOREM NobodyUsesAFreedNode == Spec => []NoUseAfterFree
<1>1. LInv => NoUseAfterFree
  <2> SUFFICES ASSUME LInv, NEW t \in Threads, at[t] = "walk"
               PROVE  cur[t] \notin deleted \union {f.ptr : f \in freed}
    BY DEF NoUseAfterFree
  <2>0. /\ kind \in {"mutex", "optimistic"} /\ deleted \subseteq Nodes /\ null \notin Nodes
        /\ ScopePhase /\ StandsInList(t) /\ DeletedApart
    BY ListAssumption, HeapAssumption DEF LInv, ListTypes, InOnePlace
  <2>1. in_scope
    BY StepInScope
  <2>2. freed = {}
    BY <2>0, <2>1 DEF ScopePhase
  <2>3. CASE kind = "mutex"
    BY <2>0, <2>2, <2>3 DEF StandsInList, DeletedApart
  <2>4. CASE kind = "optimistic"
    BY <2>0, <2>1, <2>2, <2>4 DEF ScopePhase
  <2>5. QED
    BY <2>0, <2>3, <2>4
<1>2. QED
  BY <1>1, Invariance, PTL

(* What holds of each node by itself gives what holds of the counts.       *)
LEMMA NodesAreCounted ==
  ASSUME LInv
  PROVE  EveryNodeOnce
<1> DEFINE Deferred(n) == UNION {{<<t, i>> : i \in {j \in DOMAIN Epochs!Waiting(t) :
                                                    Epochs!Waiting(t)[j].ptr = n}} : t \in Threads}
           C(n) == {n} \intersect Chain(heap)
           D(n) == {n} \intersect deleted
           F(n) == {f \in freed : f.ptr = n}
           B(n) == {t \in Threads : at[t] = "link" /\ cur[t] = n}
           Places(n) == Cardinality(C(n)) + Cardinality(D(n)) + Cardinality(F(n))
                          + Cardinality(Deferred(n)) + Cardinality(B(n))
<1>0. /\ DeletedApart /\ FreedApart /\ DeferredApart /\ DeferredOnce /\ BuiltApart /\ NoneIsLost
      /\ Chain(heap) \intersect Fresh(heap) = {} /\ deleted \subseteq Nodes
  BY ProperFacts DEF LInv, InOnePlace, ListTypes
<1>1. \A t \in Threads : Epochs!Waiting(t) = to_free_ptr[t]
  <2>1. \A t \in Threads : epc[t] # "freeing"
    BY ListAssumption DEF LInv, CallPhase, ListTypes
  <2>2. QED
    BY <2>1 DEF Epochs!Waiting
<1>2. \A n, x : x \in Deferred(n) <=>
        \E t \in Threads : \E i \in DOMAIN to_free_ptr[t] : PtrAt(t, i) = n /\ x = <<t, i>>
  BY <1>1 DEF PtrAt
<1>3. Cardinality({}) = 0 /\ \A x : Cardinality({x}) = 1
  BY FS_EmptySet, FS_Singleton
<1> SUFFICES ASSUME NEW n \in Nodes
             PROVE  Places(n) = IF n \in Fresh(heap) THEN 0 ELSE 1
  BY DEF EveryNodeOnce
<1> HIDE DEF Deferred
<1>4. (n \notin Chain(heap) => C(n) = {}) /\ (n \in Chain(heap) => C(n) = {n})
  OBVIOUS
<1>5. (n \notin deleted => D(n) = {}) /\ (n \in deleted => D(n) = {n})
  OBVIOUS
<1>6. (\A f \in freed : f.ptr # n) => F(n) = {}
  OBVIOUS
<1>7. (\A t \in Threads : \A i \in DOMAIN to_free_ptr[t] : PtrAt(t, i) # n) => Deferred(n) = {}
  BY <1>2
<1>8. (n \in Chain(heap) \union Fresh(heap) \union deleted => B(n) = {})
      /\ (\A f \in freed : f.ptr = n => B(n) = {})
      /\ \A t \in Threads : \A i \in DOMAIN to_free_ptr[t] : PtrAt(t, i) = n => B(n) = {}
  BY <1>0 DEF BuiltApart
<1> HIDE DEF C, D, F, B
<1>9. CASE n \in Fresh(heap)
  <2>1. C(n) = {} /\ D(n) = {} /\ F(n) = {} /\ Deferred(n) = {} /\ B(n) = {}
    BY <1>0, <1>4, <1>5, <1>6, <1>7, <1>8, <1>9 DEF DeletedApart, FreedApart, DeferredApart
  <2>2. QED
    BY <1>3, <1>9, <2>1
<1>10. CASE n \in Chain(heap)
  <2>1. /\ C(n) = {n} /\ D(n) = {} /\ F(n) = {} /\ Deferred(n) = {} /\ B(n) = {}
        /\ n \notin Fresh(heap)
    BY <1>0, <1>4, <1>5, <1>6, <1>7, <1>8, <1>10 DEF DeletedApart, FreedApart, DeferredApart
  <2>2. QED
    <3>1. Cardinality(C(n)) = 1 /\ Cardinality(D(n)) = 0 /\ Cardinality(F(n)) = 0
          /\ Cardinality(Deferred(n)) = 0 /\ Cardinality(B(n)) = 0
      BY <1>3, <2>1
    <3>2. QED
      BY <2>1, <3>1
<1>11. CASE n \in deleted
  <2>1. /\ C(n) = {} /\ D(n) = {n} /\ F(n) = {} /\ Deferred(n) = {} /\ B(n) = {}
        /\ n \notin Fresh(heap)
    BY <1>0, <1>4, <1>5, <1>6, <1>7, <1>8, <1>11 DEF DeletedApart, FreedApart, DeferredApart
  <2>2. QED
    <3>1. Cardinality(C(n)) = 0 /\ Cardinality(D(n)) = 1 /\ Cardinality(F(n)) = 0
          /\ Cardinality(Deferred(n)) = 0 /\ Cardinality(B(n)) = 0
      BY <1>3, <2>1
    <3>2. QED
      BY <2>1, <3>1
<1>12. ASSUME NEW f \in freed, f.ptr = n
       PROVE  Places(n) = IF n \in Fresh(heap) THEN 0 ELSE 1
  <2>1. C(n) = {} /\ D(n) = {} /\ Deferred(n) = {} /\ B(n) = {} /\ n \notin Fresh(heap)
    BY <1>0, <1>4, <1>5, <1>7, <1>8, <1>12 DEF FreedApart, DeferredApart
  <2>2. F(n) = {f}
    BY <1>0, <1>12 DEF FreedApart, F
  <2>3. QED
    <3>1. Cardinality(C(n)) = 0 /\ Cardinality(D(n)) = 0 /\ Cardinality(F(n)) = 1
          /\ Cardinality(Deferred(n)) = 0 /\ Cardinality(B(n)) = 0
      BY <1>3, <2>1, <2>2
    <3>2. QED
      BY <2>1, <3>1
<1>13. ASSUME NEW t \in Threads, NEW i \in DOMAIN to_free_ptr[t], PtrAt(t, i) = n
       PROVE  Places(n) = IF n \in Fresh(heap) THEN 0 ELSE 1
  <2>1. C(n) = {} /\ D(n) = {} /\ F(n) = {} /\ B(n) = {} /\ n \notin Fresh(heap)
    BY <1>0, <1>4, <1>5, <1>6, <1>8, <1>13 DEF DeferredApart
  <2>2. Deferred(n) = {<<t, i>>}
    BY <1>0, <1>2, <1>13 DEF DeferredOnce
  <2>3. QED
    <3>1. Cardinality(C(n)) = 0 /\ Cardinality(D(n)) = 0 /\ Cardinality(F(n)) = 0
          /\ Cardinality(Deferred(n)) = 1 /\ Cardinality(B(n)) = 0
      BY <1>3, <2>1, <2>2
    <3>2. QED
      BY <2>1, <3>1
<1>14. ASSUME NEW t \in Threads, at[t] = "link", cur[t] = n
       PROVE  Places(n) = IF n \in Fresh(heap) THEN 0 ELSE 1
  <2>1. C(n) = {} /\ D(n) = {} /\ F(n) = {} /\ Deferred(n) = {} /\ n \notin Fresh(heap)
    BY <1>0, <1>4, <1>5, <1>6, <1>7, <1>14 DEF BuiltApart
  <2>2. B(n) = {t}
    <3>1. \A u \in Threads : at[u] = "link" => u = t
      BY <1>14, OneWriter DEF Writing
    <3>2. QED
      BY <1>14, <3>1 DEF B
  <2>3. QED
    <3>1. Cardinality(C(n)) = 0 /\ Cardinality(D(n)) = 0 /\ Cardinality(F(n)) = 0
          /\ Cardinality(Deferred(n)) = 0 /\ Cardinality(B(n)) = 1
      BY <1>3, <2>1, <2>2
    <3>2. QED
      BY <2>1, <3>1
<1>15. QED
  BY <1>0, <1>9, <1>10, <1>11, <1>12, <1>13, <1>14 DEF NoneIsLost

(* Every node that was allocated is in the hands of an Insert, in the      *)
(* list, in one place of one bag, or freed, and in one of them only:       *)
(* neither Insert, nor Delete, nor the list's destructor, nor the          *)
(* handler's loses a node or frees it twice (list.cc:20-26, 48, 89,        *)
(* 97-104, 127, 176; epoch.cc:11-17).                                      *)
THEOREM NodesAreKept == Spec => []EveryNodeOnce
BY Invariance, NodesAreCounted, PTL
-----------------------------------------------------------------------------
(***************************************************************************)
(* Lookups read constructed nodes only.                                    *)
(***************************************************************************)
NInv == LInv /\ LeadsToNodes(heap) /\ ReadsConstructedNodes

(* A step that brings no lookup to another node.                           *)
LEMMA NobodyMoves ==
  ASSUME NInv, LInv', LeadsToNodes(heap'), Fresh(heap') \subseteq Fresh(heap),
         \A u \in Threads : at'[u] = "walk" => at[u] = "walk" /\ cur'[u] = cur[u]
  PROVE  NInv'
BY DEF NInv, ReadsConstructedNodes

(* A step of t that leaves the nodes alone, and does not bring it to one.  *)
LEMMA NodesUnchanged ==
  ASSUME NInv, LInv', heap' = heap, NEW t \in Threads, NEW to, to # "walk",
         at' = [at EXCEPT ![t] = to], cur' = cur \/ \E n : cur' = [cur EXCEPT ![t] = n]
  PROVE  NInv'
<1>1. DOMAIN at = Threads /\ DOMAIN cur = Threads
  BY DEF NInv, LInv, ListTypes
<1>2. ASSUME NEW u \in Threads, at'[u] = "walk" PROVE at[u] = "walk" /\ cur'[u] = cur[u]
  <2>1. u # t
    BY <1>1, <1>2
  <2>2. QED
    BY <1>1, <1>2, <2>1
<1>3. QED
  BY <1>2, NobodyMoves DEF NInv

LEMMA LoadRootReads ==
  ASSUME NInv, LInv', NEW t \in Threads, LoadRoot(t)
  PROVE  NInv'
<1>1. /\ cur' = [cur EXCEPT ![t] = heap.root] /\ at' = [at EXCEPT ![t] = "walk"] /\ heap' = heap
      /\ DOMAIN at = Threads /\ DOMAIN cur = Threads /\ heap.root \notin Fresh(heap)
  BY DEF NInv, LInv, ListTypes, LeadsToNodes, LoadRoot, Go, heapVars
<1>2. ReadsConstructedNodes'
  <2> SUFFICES ASSUME NEW u \in Threads, at'[u] = "walk" PROVE cur'[u] \notin Fresh(heap)
    BY <1>1 DEF ReadsConstructedNodes
  <2>1. CASE u = t
    BY <1>1, <2>1
  <2>2. CASE u # t
    BY <1>1, <2>2 DEF NInv, ReadsConstructedNodes
  <2>3. QED
    BY <2>1, <2>2
<1>3. QED
  BY <1>1, <1>2 DEF NInv

LEMMA VisitReads ==
  ASSUME NInv, LInv', NEW t \in Threads, NEW end, end # "walk", Visit(t, end)
  PROVE  NInv'
<1>1. /\ heap' = heap /\ at[t] = "walk"
      /\ \/ at' = [at EXCEPT ![t] = end] /\ cur' = cur
         \/ /\ cur[t] # null /\ cur' = [cur EXCEPT ![t] = NextOf(heap, cur[t])] /\ at' = at
  BY DEF Visit, Go, heapVars, NextOf
<1>2. /\ DOMAIN at = Threads /\ DOMAIN cur = Threads
      /\ cur[t] # null => cur[t] \in Nodes \ Fresh(heap)
  BY <1>1 DEF NInv, LInv, ListTypes, ReadsConstructedNodes, Links
<1>3. CASE at' = [at EXCEPT ![t] = end] /\ cur' = cur
  BY <1>1, <1>3, NodesUnchanged
<1>4. CASE cur[t] # null /\ cur' = [cur EXCEPT ![t] = NextOf(heap, cur[t])] /\ at' = at
  <2>1. NextOf(heap, cur[t]) \notin Fresh(heap)
    BY <1>2, <1>4 DEF NInv, LeadsToNodes
  <2>2. ReadsConstructedNodes'
    <3> SUFFICES ASSUME NEW u \in Threads, at'[u] = "walk" PROVE cur'[u] \notin Fresh(heap)
      BY <1>1 DEF ReadsConstructedNodes
    <3>1. CASE u = t
      BY <1>2, <1>4, <2>1, <3>1
    <3>2. CASE u # t
      BY <1>2, <1>4, <3>2 DEF NInv, ReadsConstructedNodes
    <3>3. QED
      BY <3>1, <3>2
  <2>3. QED
    BY <1>1, <2>2 DEF NInv
<1>5. QED
  BY <1>1, <1>3, <1>4

(* The stores in the list, all but the first one by a thread that holds    *)
(* the lock and does not walk.                                             *)
LEMMA StoreReads ==
  ASSUME NInv, LInv', NEW t \in Threads, NEW to, to # "walk", at' = [at EXCEPT ![t] = to],
         \A u \in Threads \ {t} : cur'[u] = cur[u],
         LeadsToNodes(heap'), Fresh(heap') \subseteq Fresh(heap)
  PROVE  NInv'
<1>1. DOMAIN at = Threads
  BY DEF NInv, LInv, ListTypes
<1>2. ASSUME NEW u \in Threads, at'[u] = "walk" PROVE at[u] = "walk" /\ cur'[u] = cur[u]
  <2>1. u # t
    BY <1>1, <1>2
  <2>2. QED
    BY <1>1, <1>2, <2>1
<1>3. QED
  BY <1>2, NobodyMoves

LEMMA OverwriteLeads ==
  ASSUME NInv, NEW k \in Keys, Found(heap, k), NEW d \in Data \union {Torn}
  PROVE  /\ LeadsToNodes(Overwrite(heap, k, d))
         /\ Fresh(Overwrite(heap, k, d)) = Fresh(heap)
<1> DEFINE g == Overwrite(heap, k, d)
<1>1. /\ g.root = heap.root /\ Fresh(g) = Fresh(heap)
      /\ \A m \in Nodes : NextOf(g, m) = NextOf(heap, m)
  BY OverwriteKeepsList DEF NInv, LInv
<1> HIDE DEF g
<1>2. LeadsToNodes(g)
  BY <1>1 DEF NInv, LeadsToNodes
<1>3. QED
  BY <1>1, <1>2 DEF g

LEMMA InsertNodeReads ==
  ASSUME NInv, LInv', NEW t \in Threads, InsertNode(t)
  PROVE  NInv'
<1> DEFINE k == call[t].key
           d == call[t].data
<1>0. LInv /\ Proper(heap) /\ LeadsToNodes(heap) /\ DOMAIN cur = Threads
  BY DEF NInv, LInv, ListTypes
<1>1. k \in Keys /\ d \in Data
  BY <1>0, InsertNodeCases
<1> HIDE DEF k, d
<1>2. CASE /\ at[t] = "write" /\ at' = [at EXCEPT ![t] = "crashed"] /\ UNCHANGED <<heap, cur>>
  BY <1>2, NodesUnchanged
<1>3. CASE /\ at[t] = "write" /\ Found(heap, k) /\ at' = [at EXCEPT ![t] = "assign"]
           /\ heap' = Overwrite(heap, k, Torn) /\ cur' = cur
  <2>1. LeadsToNodes(heap') /\ Fresh(heap') = Fresh(heap)
    BY <1>1, <1>3, OverwriteLeads
  <2>2. QED
    BY <1>3, <2>1, StoreReads
<1>4. CASE /\ at[t] = "write" /\ ~Found(heap, k) /\ at' = [at EXCEPT ![t] = "link"]
           /\ \E n \in Fresh(heap) : /\ heap' = NewNode(heap, n, k, d, Current(heap, k))
                                     /\ cur' = [cur EXCEPT ![t] = n]
  <2>1. PICK n \in Fresh(heap) : /\ heap' = NewNode(heap, n, k, d, Current(heap, k))
                                 /\ cur' = [cur EXCEPT ![t] = n]
    BY <1>4
  <2>2. LeadsToNodes(heap') /\ Fresh(heap') \subseteq Fresh(heap)
    BY <1>0, <1>1, <2>1, NewNodeLeads, NewNodeKeepsList
  <2>3. \A u \in Threads \ {t} : cur'[u] = cur[u]
    BY <1>0, <2>1
  <2>4. QED
    BY <1>4, <2>2, <2>3, StoreReads
<1>5. CASE /\ at[t] = "link" /\ at' = [at EXCEPT ![t] = "unlock"]
           /\ ~Found(heap, k) /\ Built(heap, cur[t], k, d)
           /\ heap' = Link(heap, cur[t], k) /\ cur' = [cur EXCEPT ![t] = null]
  <2>1. cur[t] \in Nodes \ Chain(heap) /\ cur[t] \notin Fresh(heap)
    BY <1>0, <1>5 DEF Built, LInv, InOnePlace, BuiltApart
  <2>2. LeadsToNodes(heap') /\ Fresh(heap') = Fresh(heap)
    BY <1>0, <1>1, <1>5, <2>1, LinkLeads, LinkFields
  <2>3. \A u \in Threads \ {t} : cur'[u] = cur[u]
    BY <1>0, <1>5
  <2>4. QED
    BY <1>5, <2>2, <2>3, StoreReads
<1>6. QED
  BY <1>0, <1>2, <1>3, <1>4, <1>5, InsertNodeCases DEF k, d

LEMMA AssignReads ==
  ASSUME NInv, LInv', NEW t \in Threads, Assign(t)
  PROVE  NInv'
<1>1. /\ at[t] = "assign" /\ at' = [at EXCEPT ![t] = "unlock"] /\ cur' = cur
      /\ heap' = Overwrite(heap, call[t].key, call[t].data)
  BY DEF Assign, Go, callVars
<1>2. call[t].key \in Keys /\ call[t].data \in Data /\ Found(heap, call[t].key)
  BY <1>1 DEF NInv, LInv, CallPhase, Calls
<1>3. LeadsToNodes(heap') /\ Fresh(heap') = Fresh(heap)
  BY <1>1, <1>2, OverwriteLeads
<1>4. QED
  BY <1>1, <1>3, StoreReads

LEMMA DeleteReads ==
  ASSUME NInv, LInv', NEW t \in Threads, OptimisticDelete(t) \/ MutexDelete(t)
  PROVE  NInv'
<1>1. /\ at[t] = "write" /\ at' = [at EXCEPT ![t] = "unlock"] /\ cur' = cur
      /\ heap' = IF Found(heap, call[t].key) THEN Unlink(heap, call[t].key) ELSE heap
  BY DEF OptimisticDelete, MutexDelete, Go
<1>2. call[t].key \in Keys /\ Proper(heap) /\ LeadsToNodes(heap)
  BY <1>1 DEF NInv, LInv, CallPhase, Calls
<1>3. LeadsToNodes(heap') /\ Fresh(heap') = Fresh(heap)
  BY <1>1, <1>2, UnlinkLeads, UnlinkKeepsList
<1>4. QED
  BY <1>1, <1>3, StoreReads

LEMMA DestroyListReads ==
  ASSUME NInv, LInv', DestroyList
  PROVE  NInv'
<1>1. heap' = [heap EXCEPT !.root = null] /\ at' = at /\ cur' = cur /\ Proper(heap)
  BY DEF NInv, LInv, DestroyList, callVars
<1>2. /\ Fresh(heap') = Fresh(heap) /\ heap'.root = null
      /\ \A m \in Nodes : NextOf(heap', m) = NextOf(heap, m)
  BY <1>1, EmptyList
<1>3. LeadsToNodes(heap')
  BY <1>2, HeapAssumption DEF NInv, LeadsToNodes, Fresh
<1>4. QED
  BY <1>1, <1>2, <1>3, NobodyMoves

LEMMA NextNInv == NInv /\ [Next]_listVars => NInv'
<1> SUFFICES ASSUME NInv, [Next]_listVars PROVE NInv'
  OBVIOUS
<1>0. LInv'
  BY NextLInv DEF NInv
<1>1. ASSUME heap' = heap, at' = at, cur' = cur PROVE NInv'
  BY <1>0, <1>1 DEF NInv, ReadsConstructedNodes
<1>2. ASSUME NEW t \in Threads, Step(t) PROVE NInv'
  <2>1. CASE \E c \in CallsOf[t] : Begin(t, c)
    <3>1. /\ heap' = heap /\ cur' = cur
          /\ at' = [at EXCEPT ![t] = "lookup"] \/ at' = [at EXCEPT ![t] = "update"]
      BY <2>1 DEF Begin, Go, heapVars
    <3>2. QED
      BY <1>0, <3>1, NodesUnchanged
  <2>2. CASE Return(t)
    BY <1>0, <2>2, NodesUnchanged DEF Return, Go, heapVars
  <2>3. CASE OptimisticStep(t)
    <3>1. CASE EnterEpoch(t)
      <4>1. /\ heap' = heap /\ cur' = cur
            /\ at' = at \/ at' = [at EXCEPT ![t] = "snapshot"]
        BY <3>1 DEF EnterEpoch, Go, heapVars, callVars
      <4>2. QED
        BY <1>0, <1>1, <4>1, NodesUnchanged
    <3>2. CASE OptimisticLock(t)
      BY <1>0, <3>2, NodesUnchanged DEF OptimisticLock, Go, heapVars
    <3>3. CASE Validate(t)
      <4>1. /\ heap' = heap /\ cur' = [cur EXCEPT ![t] = null]
            /\ at' = [at EXCEPT ![t] = "leave"] \/ at' = [at EXCEPT ![t] = "restart"]
        BY <3>3 DEF Validate, Go, heapVars
      <4>2. QED
        BY <1>0, <4>1, NodesUnchanged
    <3>4. CASE LeaveEpoch(t)
      <4>1. /\ heap' = heap /\ cur' = cur
            /\ at' = [at EXCEPT ![t] = "return"] \/ at' = [at EXCEPT ![t] = "lookup"]
        BY <3>4 DEF LeaveEpoch, Go, heapVars, callVars
      <4>2. QED
        BY <1>0, <4>1, NodesUnchanged
    <3>5. CASE LockExclusive(t) \/ Unlock(t)
      BY <1>0, <3>5, NodesUnchanged DEF LockExclusive, Unlock, Go, heapVars, callVars
    <3>6. QED
      BY <1>0, <2>3, <3>1, <3>2, <3>3, <3>4, <3>5, LoadRootReads, VisitReads, InsertNodeReads,
         AssignReads, DeleteReads DEF OptimisticStep, OptimisticInsert
  <2>4. CASE MutexStep(t)
    <3>1. CASE LockShared(t)
      BY <1>0, <3>1, NodesUnchanged DEF LockShared, Go, heapVars, callVars
    <3>2. CASE UnlockShared(t)
      BY <1>0, <3>2, NodesUnchanged DEF UnlockShared, Go, heapVars
    <3>3. CASE LockExclusive(t) \/ Unlock(t)
      BY <1>0, <3>3, NodesUnchanged DEF LockExclusive, Unlock, Go, heapVars, callVars
    <3>4. QED
      BY <1>0, <2>4, <3>1, <3>2, <3>3, LoadRootReads, VisitReads, InsertNodeReads,
         AssignReads, DeleteReads DEF MutexStep, MutexInsert
  <2>5. QED
    BY <1>2, <2>1, <2>2, <2>3, <2>4 DEF Step
<1>3. CASE DestroyList
  BY <1>0, <1>3, DestroyListReads
<1>4. CASE DestroyHandler
  BY <1>1, <1>4 DEF DestroyHandler, heapVars, callVars
<1>5. CASE UNCHANGED listVars
  BY <1>1, <1>5 DEF listVars, heapVars, callVars
<1>6. QED
  BY <1>2, <1>3, <1>4, <1>5 DEF Next, Ended

(* In the list to start with, links lead along the chain.                  *)
LEMMA InitNInv == Init => NInv
<1> SUFFICES ASSUME Init PROVE NInv
  OBVIOUS
<1>1. LInv /\ Proper(heap)
  BY InitLInv DEF LInv
<1>2. heap = InitialHeap /\ at = [t \in Threads |-> "idle"]
  BY DEF Init
<1>3. IsList(heap, Chain(heap)) /\ null \notin Nodes /\ Fresh(heap) = Nodes \ Chain(heap)
  BY <1>1, <1>2, ProperFacts, ListAssumption, HeapAssumption
<1>4. LeadsToNodes(heap)
  BY <1>3 DEF IsList, LeadsToNodes
<1>5. QED
  BY <1>1, <1>2, <1>4 DEF NInv, ReadsConstructedNodes

(* A lookup never stands on memory that Insert has not yet made a node of, *)
(* also where it walks over nodes that were unlinked under it: links are   *)
(* stored when the node they lead to is constructed, and a node that has   *)
(* left the list keeps its link (list.cc:13-17, 48, 127, 139-146).         *)
THEOREM LookupsReadNodes == Spec => []ReadsConstructedNodes
<1>1. NInv => ReadsConstructedNodes
  BY DEF NInv
<1>2. QED
  BY <1>1, InitNInv, NextNInv, PTL DEF Spec
-----------------------------------------------------------------------------
(***************************************************************************)
(* Both lists implement SortedSet.                                         *)
(***************************************************************************)
(* What the list holds under its exclusive lock, and under a snapshot that *)
(* is still valid, does not change for a lookup.                           *)
Fixed(t) == kind = "mutex" \/ (writers = {} /\ version = seen[t])

(* A lookup has passed no node that has its key, or a greater one.         *)
OnTheWay(t) ==
  /\ cur[t] \in Chain(heap) \union {null}
  /\ \A m \in Chain(heap) : KeyOf(heap, m) >= call[t].key =>
                              cur[t] # null /\ KeyOf(heap, cur[t]) <= KeyOf(heap, m)

LookupIsRight(t) ==
  Fixed(t) => /\ at[t] = "walk" => OnTheWay(t)
              /\ at[t] = "validate" => answer[t] = Contents(heap)[call[t].key]

(* An update has no answer before its first store in the list.             *)
NoAnswerYet ==
  \A t \in Threads : at[t] \in {"idle", "update", "write", "link"} => answer[t] = Absent

(* Only the data that is being assigned is torn.                           *)
DataInList ==
  \A n \in Chain(heap) :
    DataOf(heap, n) \in Data \/ \E t \in Threads : at[t] = "assign" /\ call[t].key = KeyOf(heap, n)

(* The calls that have returned or are about to: the version counts some   *)
(* of them, and cannot wrap.                                               *)
Completed ==
  {x \in Threads \X (1 .. NO_OPS) :
     x[2] <= made[x[1]] \/ (x[2] = made[x[1]] + 1 /\ at[x[1]] = "return")}

VersionCounts == version <= Cardinality(Completed) /\ \A t \in Threads : seen[t] <= version

RInv ==
  /\ LInv /\ NoAnswerYet /\ DataInList /\ VersionCounts
  /\ \A t \in Threads : LookupIsRight(t)
-----------------------------------------------------------------------------
(***************************************************************************)
(* The list as it is when the assignment in progress has ended.            *)
(***************************************************************************)
SettledOf(h, a, c) ==
  IF \E t \in Threads : a[t] = "assign"
  THEN LET d == c[CHOOSE t \in Threads : a[t] = "assign"] IN Overwrite(h, d.key, d.data)
  ELSE h

LEMMA SettledOne ==
  ASSUME NEW h, NEW a, NEW c, NEW w \in Threads, a[w] = "assign",
         \A u \in Threads : a[u] = "assign" => u = w
  PROVE  SettledOf(h, a, c) = Overwrite(h, c[w].key, c[w].data)
<1>1. (CHOOSE t \in Threads : a[t] = "assign") = w
  OBVIOUS
<1>2. QED
  BY <1>1 DEF SettledOf

LEMMA SettledNone ==
  ASSUME NEW h, NEW a, NEW c, \A u \in Threads : a[u] # "assign"
  PROVE  SettledOf(h, a, c) = h
BY DEF SettledOf

(* What a step of t leaves to the other threads.                           *)
OthersInCall(t) ==
  \A u \in Threads \ {t} :
    /\ at'[u] = at[u] /\ call'[u] = call[u] /\ made'[u] = made[u]
    /\ cur'[u] = cur[u] /\ seen'[u] = seen[u] /\ answer'[u] = answer[u]

LEMMA SettledStays ==
  ASSUME LInv, NEW t \in Threads, OthersInCall(t), heap' = heap,
         at[t] # "assign", at'[t] # "assign"
  PROVE  Settled' = Settled
<1>1. Settled = SettledOf(heap, at, call) /\ Settled' = SettledOf(heap', at', call')
  BY DEF Settled, SettledOf
<1>2. CASE \A u \in Threads : at[u] # "assign"
  <2>1. \A u \in Threads : at'[u] # "assign"
    BY <1>2 DEF OthersInCall
  <2>2. QED
    BY <1>1, <1>2, <2>1, SettledNone
<1>3. CASE \E u \in Threads : at[u] = "assign"
  <2>1. PICK w \in Threads : at[w] = "assign"
    BY <1>3
  <2>2. \A u \in Threads : at[u] = "assign" => u = w
    BY <2>1, OneWriter DEF Writing
  <2>3. w # t /\ at'[w] = "assign" /\ call'[w] = call[w] /\ \A u \in Threads : at'[u] = "assign" => u = w
    BY <2>1, <2>2 DEF OthersInCall
  <2>4. SettledOf(heap, at, call) = Overwrite(heap, call[w].key, call[w].data)
    BY <2>1, <2>2, SettledOne
  <2>5. SettledOf(heap', at', call') = Overwrite(heap', call'[w].key, call'[w].data)
    BY <2>3, SettledOne
  <2>6. QED
    BY <1>1, <2>3, <2>4, <2>5
<1>4. QED
  BY <1>2, <1>3

(* With nobody in an assignment.                                           *)
LEMMA SettledIsHeap ==
  ASSUME \A u \in Threads : at[u] # "assign"
  PROVE  Settled = heap
BY SettledNone DEF Settled, SettledOf
-----------------------------------------------------------------------------
(***************************************************************************)
(* The version counts completed calls, and does not wrap.                  *)
(***************************************************************************)
LEMMA CompletedIsFinite ==
  /\ IsFiniteSet(Threads \X (1 .. NO_OPS))
  /\ Cardinality(Threads \X (1 .. NO_OPS)) = no_threads * NO_OPS
<1>1. no_threads \in Nat /\ NO_OPS \in Nat
  BY ListAssumption
<1>2. IsFiniteSet(Threads) /\ Cardinality(Threads) = no_threads
  <2>1. IsFiniteSet(0 .. no_threads - 1)
        /\ Cardinality(0 .. no_threads - 1) = IF 0 > no_threads - 1 THEN 0 ELSE (no_threads - 1) - 0 + 1
    BY <1>1, FS_Interval
  <2>2. QED
    BY <1>1, <2>1, ListAssumption DEF Threads
<1>3. IsFiniteSet(1 .. NO_OPS) /\ Cardinality(1 .. NO_OPS) = NO_OPS
  <2>1. IsFiniteSet(1 .. NO_OPS)
        /\ Cardinality(1 .. NO_OPS) = IF 1 > NO_OPS THEN 0 ELSE NO_OPS - 1 + 1
    BY <1>1, FS_Interval
  <2>2. QED
    BY <1>1, <2>1
<1>4. QED
  BY <1>2, <1>3, FS_Product

LEMMA CompletedGrows ==
  ASSUME RInv, NEW t \in Threads, OthersInCall(t),
         \/ made'[t] = made[t] /\ (at[t] = "return" => at'[t] = "return")
         \/ made'[t] = made[t] + 1
  PROVE  Completed \subseteq Completed'
<1>1. \A u \in Threads : made[u] \in Nat
  BY ListAssumption DEF RInv, LInv, ListTypes
<1>2. ASSUME NEW u \in Threads, NEW i \in 1 .. NO_OPS,
             i <= made[u] \/ (i = made[u] + 1 /\ at[u] = "return")
      PROVE  i <= made'[u] \/ (i = made'[u] + 1 /\ at'[u] = "return")
  BY <1>1, <1>2 DEF OthersInCall
<1>3. QED
  BY <1>2 DEF Completed

LEMMA VersionStillCounts ==
  ASSUME RInv, NEW t \in Threads, OthersInCall(t), Completed \subseteq Completed',
         version' = version, seen'[t] \in {seen[t], version}
  PROVE  VersionCounts'
<1>1. version \in Nat /\ version <= Cardinality(Completed) /\ \A u \in Threads : seen[u] <= version
  BY DEF RInv, LInv, ListTypes, VersionCounts
<1>2. IsFiniteSet(Completed) /\ IsFiniteSet(Completed')
  BY CompletedIsFinite, FS_Subset DEF Completed
<1>3. Cardinality(Completed) <= Cardinality(Completed') /\ Cardinality(Completed) \in Nat
      /\ Cardinality(Completed') \in Nat
  BY <1>2, FS_Subset, FS_CardinalityType
<1>4. version' <= Cardinality(Completed')
  BY <1>1, <1>3
<1>5. \A u \in Threads : seen'[u] <= version'
  BY <1>1 DEF OthersInCall
<1>6. QED
  BY <1>4, <1>5 DEF VersionCounts

(* The release at the end of an update: the next version is a new one.     *)
LEMMA VersionAdvances ==
  ASSUME RInv, NEW t \in Threads, OthersInCall(t), at[t] = "unlock", at'[t] = "return",
         made'[t] = made[t], seen'[t] = seen[t],
         version' = (version + 1) % (no_threads * NO_OPS + 1)
  PROVE  VersionCounts' /\ version' = version + 1
<1>0. /\ version \in Nat /\ version <= Cardinality(Completed) /\ \A u \in Threads : seen[u] <= version
      /\ made[t] \in Nat /\ made[t] < NO_OPS /\ NO_OPS \in Nat
      /\ \A u \in Threads : seen[u] \in Nat
  BY ListAssumption DEF RInv, LInv, ListTypes, VersionCounts, CallPhase
<1> DEFINE x == <<t, made[t] + 1>>
<1>1. made[t] + 1 \in 1 .. NO_OPS
  BY <1>0
<1>2. x \in Threads \X (1 .. NO_OPS) /\ x[1] = t /\ x[2] = made[t] + 1
  BY <1>1
<1> HIDE DEF x
<1>3. x \in Completed' /\ x \notin Completed
  <2>1. x \in Completed'
    BY <1>2 DEF Completed
  <2>2. ~(x[2] <= made[x[1]]) /\ at[x[1]] # "return"
    BY <1>0, <1>2
  <2>3. QED
    BY <2>1, <2>2 DEF Completed
<1>4. Completed \subseteq Completed'
  BY <1>0, CompletedGrows
<1>5. IsFiniteSet(Completed) /\ IsFiniteSet(Completed') /\ Cardinality(Completed) \in Nat
      /\ Cardinality(Completed') \in Nat /\ Cardinality(Completed') <= no_threads * NO_OPS
  <2>1. Completed \in SUBSET (Threads \X (1 .. NO_OPS)) /\ Completed' \in SUBSET (Threads \X (1 .. NO_OPS))
    BY DEF Completed
  <2>2. QED
    BY <2>1, CompletedIsFinite, FS_Subset, FS_CardinalityType
<1>6. Cardinality(Completed) + 1 <= Cardinality(Completed')
  <2>1. IsFiniteSet(Completed \union {x}) /\ Cardinality(Completed \union {x}) = Cardinality(Completed) + 1
    BY <1>3, <1>5, FS_AddElement
  <2>2. Completed \union {x} \in SUBSET Completed'
    BY <1>3, <1>4
  <2>3. QED
    BY <1>5, <2>1, <2>2, FS_Subset
<1>7. version' = version + 1
  <2> DEFINE b == no_threads * NO_OPS
  <2>1. b \in Nat
    BY ListAssumption
  <2>2. version + 1 <= b
    BY <1>0, <1>5, <1>6, <2>1
  <2> HIDE DEF b
  <2>3. (version + 1) % (b + 1) = version + 1
    BY <1>0, <2>1, <2>2
  <2>4. QED
    BY <2>3 DEF b
<1>8. version' <= Cardinality(Completed')
  BY <1>0, <1>5, <1>6, <1>7
<1>9. \A u \in Threads : seen'[u] = seen[u]
  BY DEF OthersInCall
<1>10. \A u \in Threads : seen'[u] <= version'
  BY <1>0, <1>7, <1>9
<1>11. QED
  BY <1>7, <1>8, <1>10 DEF VersionCounts
-----------------------------------------------------------------------------
(***************************************************************************)
(* Steps that store nothing in the list.                                   *)
(***************************************************************************)
StatusOfAll == [t \in Threads |-> Status(t)]

LEMMA StatusChanges ==
  ASSUME NEW t \in Threads, OthersInCall(t)
  PROVE  StatusOfAll' = [StatusOfAll EXCEPT ![t] = Status(t)']
<1>1. \A u \in Threads \ {t} : Status(u)' = Status(u)
  BY DEF OthersInCall, Status
<1>2. QED
  BY <1>1 DEF StatusOfAll

LEMMA Unseen ==
  ASSUME NEW t \in Threads, OthersInCall(t), Status(t)' = Status(t),
         Contents(Settled)' = Contents(Settled), in_scope' = in_scope
  PROVE  UNCHANGED Set!setVars
<1>1. StatusOfAll' = StatusOfAll
  BY StatusChanges DEF StatusOfAll
<1>2. QED
  BY <1>1 DEF Set!setVars, StatusOfAll

LEMMA QuietRInv ==
  ASSUME RInv, LInv', NEW t \in Threads, OthersInCall(t), UNCHANGED <<kind, heap>>,
         at[t] # "assign", at'[t] # "assign",
         at'[t] \in {"idle", "update", "write", "link"} => answer'[t] = Absent,
         \A u \in Threads \ {t} : Fixed(u)' => Fixed(u),
         VersionCounts', LookupIsRight(t)'
  PROVE  RInv' /\ Settled' = Settled
<1>1. NoAnswerYet'
  BY DEF RInv, NoAnswerYet, OthersInCall
<1>2. DataInList'
  <2> SUFFICES ASSUME NEW n \in Chain(heap)
               PROVE  DataOf(heap, n) \in Data
                      \/ \E u \in Threads : at'[u] = "assign" /\ call'[u].key = KeyOf(heap, n)
    BY DEF DataInList, RInv
  <2>1. DataOf(heap, n) \in Data \/ \E u \in Threads : at[u] = "assign" /\ call[u].key = KeyOf(heap, n)
    BY DEF RInv, DataInList
  <2>2. \A u \in Threads : at[u] = "assign" => at'[u] = at[u] /\ call'[u] = call[u]
    BY DEF OthersInCall
  <2>3. QED
    BY <2>1, <2>2
<1>3. \A u \in Threads \ {t} : LookupIsRight(u)'
  <2> SUFFICES ASSUME NEW u \in Threads \ {t} PROVE LookupIsRight(u)'
    OBVIOUS
  <2>1. LookupIsRight(u)
    BY DEF RInv
  <2>2. OnTheWay(u) => OnTheWay(u)'
    BY DEF OnTheWay, OthersInCall
  <2>3. QED
    BY <2>1, <2>2 DEF LookupIsRight, OthersInCall
<1>4. Settled' = Settled
  BY SettledStays DEF RInv
<1>5. QED
  BY <1>1, <1>2, <1>3, <1>4 DEF RInv
-----------------------------------------------------------------------------
(***************************************************************************)
(* The beginning and the end of a call.                                    *)
(***************************************************************************)
LEMMA BeginRefines ==
  ASSUME RInv, LInv', NEW t \in Threads, NEW c \in CallsOf[t], Begin(t, c), kind' = kind
  PROVE  RInv' /\ Set!Call(t)
<1>0. ListTypes /\ LInv /\ NoAnswerYet
  BY DEF RInv, LInv
<1>1. /\ at[t] = "idle" /\ made[t] < NO_OPS
      /\ at' = [at EXCEPT ![t] = IF c.op = "LookUp" THEN "lookup" ELSE "update"]
      /\ call' = [call EXCEPT ![t] = c]
      /\ UNCHANGED <<lockVars, epochVars, heapVars, made, cur, seen, answer, result>>
  BY DEF Begin, Go
<1>2. OthersInCall(t) /\ at'[t] = (IF c.op = "LookUp" THEN "lookup" ELSE "update") /\ call'[t] = c
  BY <1>0, <1>1 DEF ListTypes, OthersInCall
<1>3. answer'[t] = Absent /\ UNCHANGED <<kind, heap, in_scope, writers, version, made, seen>>
  BY <1>0, <1>1 DEF NoAnswerYet, heapVars, lockVars
<1>4. VersionCounts'
  BY <1>1, <1>2, <1>3, CompletedGrows, VersionStillCounts
<1>5. \A u \in Threads \ {t} : Fixed(u)' => Fixed(u)
  BY <1>2, <1>3 DEF Fixed, OthersInCall
<1>6. LookupIsRight(t)'
  BY <1>2 DEF LookupIsRight
<1>7. RInv' /\ Settled' = Settled
  BY <1>1, <1>2, <1>3, <1>4, <1>5, <1>6, QuietRInv
<1>8. Set!Call(t)
  <2>1. in_scope /\ in_scope' = in_scope
    BY <1>0, <1>1, <1>3, StepInScope
  <2>2. StatusOfAll[t] = Set!Idle /\ Status(t)' = Set!Pending(c)
    BY <1>1, <1>2 DEF StatusOfAll, Status, Set!Idle, Set!Pending
  <2>3. StatusOfAll' = [StatusOfAll EXCEPT ![t] = Set!Pending(c)]
    BY <1>2, <2>2, StatusChanges
  <2>4. c \in Set!Calls
    BY ListAssumption DEF Threads, Calls, Set!Calls
  <2>5. Contents(Settled)' = Contents(Settled)
    BY <1>7
  <2>6. QED
    BY <2>1, <2>2, <2>3, <2>4, <2>5 DEF Set!Call, StatusOfAll
<1>9. QED
  BY <1>7, <1>8

LEMMA ReturnRefines ==
  ASSUME RInv, LInv', NEW t \in Threads, Return(t), kind' = kind
  PROVE  RInv' /\ Set!Return(t)
<1>0. ListTypes /\ LInv
  BY DEF RInv, LInv
<1>1. /\ at[t] = "return" /\ at' = [at EXCEPT ![t] = "idle"]
      /\ made' = [made EXCEPT ![t] = made[t] + 1]
      /\ call' = [call EXCEPT ![t] = NoCall]
      /\ answer' = [answer EXCEPT ![t] = Absent]
      /\ UNCHANGED <<lockVars, epochVars, heapVars, cur, seen>>
  BY DEF Return, Go
<1>2. OthersInCall(t) /\ at'[t] = "idle" /\ answer'[t] = Absent /\ made'[t] = made[t] + 1
  BY <1>0, <1>1 DEF ListTypes, OthersInCall
<1>3. UNCHANGED <<kind, heap, in_scope, writers, version, seen>>
  BY <1>1 DEF heapVars, lockVars
<1>4. VersionCounts'
  BY <1>2, <1>3, CompletedGrows, VersionStillCounts
<1>5. \A u \in Threads \ {t} : Fixed(u)' => Fixed(u)
  BY <1>2, <1>3 DEF Fixed, OthersInCall
<1>6. LookupIsRight(t)'
  BY <1>2 DEF LookupIsRight
<1>7. RInv' /\ Settled' = Settled
  BY <1>1, <1>2, <1>3, <1>4, <1>5, <1>6, QuietRInv
<1>8. Set!Return(t)
  <2>1. StatusOfAll[t].at = "done" /\ Status(t)' = Set!Idle
    BY <1>1, <1>2 DEF StatusOfAll, Status, Set!Idle
  <2>2. StatusOfAll' = [StatusOfAll EXCEPT ![t] = Set!Idle]
    BY <1>2, <2>1, StatusChanges
  <2>3. Contents(Settled)' = Contents(Settled)
    BY <1>7
  <2>4. QED
    BY <1>3, <2>1, <2>2, <2>3 DEF Set!Return, StatusOfAll
<1>9. QED
  BY <1>7, <1>8
-----------------------------------------------------------------------------
(***************************************************************************)
(* Steps that change nothing a caller sees.                                *)
(***************************************************************************)
(* Where the status of a thread depends on its answer, and where not.      *)
LEMMA SameStatus ==
  ASSUME NEW t \in Threads, call'[t] = call[t],
         \/ /\ at[t] \in {"lookup", "snapshot", "root", "walk", "validate", "restart",
                          "update", "write", "link", "crashed"}
            /\ at'[t] \in {"lookup", "snapshot", "root", "walk", "validate", "restart",
                          "update", "write", "link", "crashed"}
         \/ /\ at[t] \in {"assign", "unlock", "unlock_shared", "leave", "return"}
            /\ at'[t] \in {"assign", "unlock", "unlock_shared", "leave", "return"}
            /\ answer'[t] = answer[t]
  PROVE  Status(t)' = Status(t)
BY DEF Status

LEMMA EnterEpochRefines ==
  ASSUME RInv, LInv', NEW t \in Threads, EnterEpoch(t), kind' = kind
  PROVE  RInv' /\ UNCHANGED Set!setVars
<1>0. ListTypes /\ LInv
  BY DEF RInv, LInv
<1>1. /\ at[t] = "lookup" /\ (UNCHANGED at \/ at' = [at EXCEPT ![t] = "snapshot"])
      /\ UNCHANGED <<lockVars, heapVars, callVars>>
  BY DEF EnterEpoch, Go
<1>2. UNCHANGED <<kind, heap, in_scope, writers, version, call, made, cur, seen, answer>>
  BY <1>1 DEF heapVars, lockVars, callVars
<1>3. OthersInCall(t) /\ at'[t] \in {"lookup", "snapshot"}
  BY <1>0, <1>1, <1>2 DEF ListTypes, OthersInCall
<1>4. VersionCounts'
  BY <1>1, <1>2, <1>3, CompletedGrows, VersionStillCounts
<1>5. \A u \in Threads \ {t} : Fixed(u)' => Fixed(u)
  BY <1>2 DEF Fixed
<1>6. LookupIsRight(t)'
  BY <1>3 DEF LookupIsRight
<1>7. RInv' /\ Settled' = Settled
  BY <1>1, <1>2, <1>3, <1>4, <1>5, <1>6, QuietRInv
<1>8. Status(t)' = Status(t)
  BY <1>1, <1>2, <1>3, SameStatus
<1>9. QED
  BY <1>2, <1>3, <1>7, <1>8, Unseen

LEMMA OptimisticLockRefines ==
  ASSUME RInv, LInv', NEW t \in Threads, OptimisticLock(t), kind' = kind
  PROVE  RInv' /\ UNCHANGED Set!setVars
<1>0. ListTypes /\ LInv
  BY DEF RInv, LInv
<1>1. /\ at[t] = "snapshot" /\ at' = [at EXCEPT ![t] = "root"]
      /\ seen' = [seen EXCEPT ![t] = version]
      /\ UNCHANGED <<lockVars, epochVars, heapVars, call, made, cur, answer, result>>
  BY DEF OptimisticLock, Go
<1>2. UNCHANGED <<kind, heap, in_scope, writers, version, call, made, cur, answer>>
  BY <1>1 DEF heapVars, lockVars
<1>3. OthersInCall(t) /\ at'[t] = "root" /\ seen'[t] = version
  BY <1>0, <1>1, <1>2 DEF ListTypes, OthersInCall
<1>4. VersionCounts'
  BY <1>1, <1>2, <1>3, CompletedGrows, VersionStillCounts
<1>5. \A u \in Threads \ {t} : Fixed(u)' => Fixed(u)
  BY <1>2, <1>3 DEF Fixed, OthersInCall
<1>6. LookupIsRight(t)'
  BY <1>3 DEF LookupIsRight
<1>7. RInv' /\ Settled' = Settled
  BY <1>1, <1>2, <1>3, <1>4, <1>5, <1>6, QuietRInv
<1>8. Status(t)' = Status(t)
  BY <1>1, <1>2, <1>3, SameStatus
<1>9. QED
  BY <1>2, <1>3, <1>7, <1>8, Unseen

LEMMA LoadRootRefines ==
  ASSUME RInv, LInv', NEW t \in Threads, LoadRoot(t), kind' = kind
  PROVE  RInv' /\ UNCHANGED Set!setVars
<1>0. ListTypes /\ LInv /\ Proper(heap)
  BY DEF RInv, LInv
<1>1. /\ at[t] = "root" /\ at' = [at EXCEPT ![t] = "walk"]
      /\ cur' = [cur EXCEPT ![t] = heap.root]
      /\ UNCHANGED <<lockVars, epochVars, heapVars, call, made, seen, answer, result>>
  BY DEF LoadRoot, Go
<1>2. UNCHANGED <<kind, heap, in_scope, writers, version, call, made, seen, answer>>
  BY <1>1 DEF heapVars, lockVars
<1>3. OthersInCall(t) /\ at'[t] = "walk" /\ cur'[t] = heap.root
  BY <1>0, <1>1, <1>2 DEF ListTypes, OthersInCall
<1>4. VersionCounts'
  BY <1>1, <1>2, <1>3, CompletedGrows, VersionStillCounts
<1>5. \A u \in Threads \ {t} : Fixed(u)' => Fixed(u)
  BY <1>2 DEF Fixed
<1>6. LookupIsRight(t)'
  <2>1. /\ heap.root \in Chain(heap) \union {null}
        /\ \A m \in Chain(heap) : heap.root # null /\ KeyOf(heap, heap.root) <= KeyOf(heap, m)
    BY <1>0, ProperFacts DEF IsList
  <2>2. OnTheWay(t)'
    BY <1>2, <1>3, <2>1 DEF OnTheWay
  <2>3. QED
    BY <1>3, <2>2 DEF LookupIsRight
<1>7. RInv' /\ Settled' = Settled
  BY <1>1, <1>2, <1>3, <1>4, <1>5, <1>6, QuietRInv
<1>8. Status(t)' = Status(t)
  BY <1>1, <1>2, <1>3, SameStatus
<1>9. QED
  BY <1>2, <1>3, <1>7, <1>8, Unseen

LEMMA LockExclusiveRefines ==
  ASSUME RInv, LInv', NEW t \in Threads, LockExclusive(t), kind' = kind
  PROVE  RInv' /\ UNCHANGED Set!setVars
<1>0. ListTypes /\ LInv /\ NoAnswerYet
  BY DEF RInv, LInv
<1>1. /\ at[t] = "update" /\ at' = [at EXCEPT ![t] = "write"]
      /\ writers' = {t} /\ version' = version
      /\ UNCHANGED <<epochVars, heapVars, callVars>>
  BY DEF LockExclusive, Go, Lock!AcquireExclusive
<1>2. UNCHANGED <<kind, heap, in_scope, version, call, made, cur, seen, answer>>
  BY <1>1 DEF heapVars, callVars
<1>3. OthersInCall(t) /\ at'[t] = "write" /\ answer'[t] = Absent
  BY <1>0, <1>1, <1>2 DEF ListTypes, OthersInCall, NoAnswerYet
<1>4. VersionCounts'
  BY <1>1, <1>2, <1>3, CompletedGrows, VersionStillCounts
<1>5. \A u \in Threads \ {t} : Fixed(u)' => Fixed(u)
  BY <1>1, <1>2 DEF Fixed
<1>6. LookupIsRight(t)'
  BY <1>3 DEF LookupIsRight
<1>7. RInv' /\ Settled' = Settled
  BY <1>1, <1>2, <1>3, <1>4, <1>5, <1>6, QuietRInv
<1>8. Status(t)' = Status(t)
  BY <1>1, <1>2, <1>3, SameStatus
<1>9. QED
  BY <1>2, <1>3, <1>7, <1>8, Unseen

LEMMA UnlockRefines ==
  ASSUME RInv, LInv', NEW t \in Threads, Unlock(t), kind' = kind
  PROVE  RInv' /\ UNCHANGED Set!setVars
<1>0. ListTypes /\ LInv /\ VersionCounts
  BY DEF RInv, LInv
<1>1. /\ at[t] = "unlock" /\ at' = [at EXCEPT ![t] = "return"]
      /\ version' = (version + 1) % (no_threads * NO_OPS + 1)
      /\ UNCHANGED <<epochVars, heapVars, callVars>>
  BY DEF Unlock, Go, Lock!ReleaseExclusive, Lock!EndSection
<1>2. UNCHANGED <<kind, heap, in_scope, call, made, cur, seen, answer>>
  BY <1>1 DEF heapVars, callVars
<1>3. OthersInCall(t) /\ at'[t] = "return"
  BY <1>0, <1>1, <1>2 DEF ListTypes, OthersInCall
<1>4. VersionCounts' /\ version' = version + 1
  BY <1>1, <1>2, <1>3, VersionAdvances
<1>5. \A u \in Threads \ {t} : Fixed(u)' => Fixed(u)
  <2>1. \A u \in Threads : seen[u] <= version /\ seen[u] \in Nat /\ version \in Nat
    BY <1>0 DEF VersionCounts, ListTypes
  <2>2. \A u \in Threads : version' # seen'[u]
    BY <1>2, <1>4, <2>1
  <2>3. QED
    BY <1>2, <2>2 DEF Fixed
<1>6. LookupIsRight(t)'
  BY <1>3 DEF LookupIsRight
<1>7. RInv' /\ Settled' = Settled
  BY <1>1, <1>2, <1>3, <1>4, <1>5, <1>6, QuietRInv
<1>8. Status(t)' = Status(t)
  BY <1>1, <1>2, <1>3, SameStatus
<1>9. QED
  BY <1>2, <1>3, <1>7, <1>8, Unseen
-----------------------------------------------------------------------------
(***************************************************************************)
(* The steps of a lookup.                                                  *)
(***************************************************************************)
(* What a lookup finds at a node it has come to in a list that is fixed.   *)
LEMMA WhatTheNodeTells ==
  ASSUME LInv, NEW t \in Threads, OnTheWay(t), call[t].key \in Keys
  PROVE  /\ (cur[t] = null \/ KeyOf(heap, cur[t]) > call[t].key) =>
              Contents(heap)[call[t].key] = Absent
         /\ cur[t] # null /\ KeyOf(heap, cur[t]) = call[t].key =>
              Contents(heap)[call[t].key] = DataOf(heap, cur[t])
         /\ cur[t] # null /\ KeyOf(heap, cur[t]) < call[t].key =>
              /\ NextOf(heap, cur[t]) \in Chain(heap) \union {null}
              /\ \A m \in Chain(heap) : KeyOf(heap, m) >= call[t].key =>
                   NextOf(heap, cur[t]) # null /\ KeyOf(heap, NextOf(heap, cur[t])) <= KeyOf(heap, m)
<1> DEFINE k == call[t].key
           n == cur[t]
           L == Chain(heap)
<1>0. Proper(heap) /\ k \in Nat
  BY KeyType DEF LInv
<1>1. IsList(heap, L) /\ \A m \in L : KeyOf(heap, m) \in Nat
  BY <1>0, ProperFacts
<1>2. /\ n \in L \union {null}
      /\ \A m \in L : KeyOf(heap, m) >= k => n # null /\ KeyOf(heap, n) <= KeyOf(heap, m)
  BY DEF OnTheWay
<1> HIDE DEF k, n, L
<1>3. ASSUME n = null \/ KeyOf(heap, n) > k PROVE \A m \in L : KeyOf(heap, m) # k
  <2> SUFFICES ASSUME NEW m \in L, KeyOf(heap, m) = k PROVE FALSE
    OBVIOUS
  <2>1. n # null /\ KeyOf(heap, n) <= k
    BY <1>0, <1>2
  <2>2. KeyOf(heap, n) \in Nat
    BY <1>1, <1>2, <2>1
  <2>3. QED
    BY <1>0, <1>3, <2>1, <2>2
<1>4. ASSUME n # null, KeyOf(heap, n) < k
      PROVE  /\ NextOf(heap, n) \in L \union {null}
             /\ \A m \in L : KeyOf(heap, m) >= k =>
                  NextOf(heap, n) # null /\ KeyOf(heap, NextOf(heap, n)) <= KeyOf(heap, m)
  <2>1. n \in L
    BY <1>2, <1>4
  <2>2. \A m \in L : KeyOf(heap, m) >= k => KeyOf(heap, n) < KeyOf(heap, m)
    BY <1>0, <1>1, <1>4, <2>1
  <2>3. QED
    BY <1>1, <2>1, <2>2 DEF IsList
<1>5. (\A m \in L : KeyOf(heap, m) # k) => Contents(heap)[k] = Absent
  BY <1>0, ContentsAt DEF L, k
<1>6. n # null /\ KeyOf(heap, n) = k => Contents(heap)[k] = DataOf(heap, n)
  BY <1>0, <1>2, ContentsAt DEF L, k
<1>7. QED
  BY <1>3, <1>4, <1>5, <1>6 DEF k, n, L

LEMMA VisitRInv ==
  ASSUME RInv, LInv', NEW t \in Threads, NEW end \in {"validate", "unlock_shared"},
         Visit(t, end), kind' = kind
  PROVE  /\ RInv' /\ Settled' = Settled /\ OthersInCall(t) /\ in_scope' = in_scope
         /\ at[t] = "walk" /\ at'[t] \in {"walk", end} /\ call'[t] = call[t]
         /\ Fixed(t) /\ at'[t] = end => answer'[t] = Contents(heap)[call[t].key]
<1> DEFINE n == cur[t]
           k == call[t].key
<1>0. ListTypes /\ LInv /\ CallPhase(t)
  BY DEF RInv, LInv
<1>1. /\ at[t] = "walk"
      /\ UNCHANGED <<lockVars, epochVars, heapVars, call, made, seen>>
      /\ \/ /\ n = null \/ KeyOf(heap, n) > k
            /\ at' = [at EXCEPT ![t] = end] /\ UNCHANGED cur
            /\ answer' = [answer EXCEPT ![t] = Absent]
         \/ /\ n # null /\ KeyOf(heap, n) = k
            /\ at' = [at EXCEPT ![t] = end] /\ UNCHANGED cur
            /\ answer' = [answer EXCEPT ![t] = DataOf(heap, n)]
         \/ /\ n # null /\ KeyOf(heap, n) < k
            /\ cur' = [cur EXCEPT ![t] = NextOf(heap, n)]
            /\ UNCHANGED <<at, answer>>
  BY DEF Visit, Go, DataOf, NextOf, KeyOf
<1>2. UNCHANGED <<kind, heap, in_scope, writers, version, call, made, seen>>
  BY <1>1 DEF heapVars, lockVars
<1>3. /\ OthersInCall(t)
      /\ \/ /\ n = null \/ KeyOf(heap, n) > k
            /\ at'[t] = end /\ answer'[t] = Absent
         \/ /\ n # null /\ KeyOf(heap, n) = k
            /\ at'[t] = end /\ answer'[t] = DataOf(heap, n)
         \/ /\ n # null /\ KeyOf(heap, n) < k
            /\ at'[t] = "walk" /\ cur'[t] = NextOf(heap, n)
  <2>1. OthersInCall(t)
    BY <1>0, <1>1, <1>2 DEF ListTypes, OthersInCall
  <2>2. DOMAIN at = Threads /\ DOMAIN cur = Threads /\ DOMAIN answer = Threads
    BY <1>0 DEF ListTypes
  <2> HIDE DEF n, k
  <2>3. QED
    BY <1>1, <2>1, <2>2
<1>4. VersionCounts'
  BY <1>1, <1>2, <1>3, CompletedGrows, VersionStillCounts
<1>5. \A u \in Threads \ {t} : Fixed(u)' => Fixed(u)
  BY <1>2 DEF Fixed
<1>6. Fixed(t)' => Fixed(t)
  BY <1>2 DEF Fixed
<1>7. ASSUME Fixed(t)
      PROVE  /\ at'[t] = end => answer'[t] = Contents(heap)[k]
             /\ at'[t] = "walk" => OnTheWay(t)'
  <2>1. OnTheWay(t)
    BY <1>1, <1>7 DEF RInv, LookupIsRight
  <2>2. k \in Keys
    BY <1>0, <1>1 DEF CallPhase, Calls
  <2>3. /\ (n = null \/ KeyOf(heap, n) > k) => Contents(heap)[k] = Absent
        /\ n # null /\ KeyOf(heap, n) = k => Contents(heap)[k] = DataOf(heap, n)
        /\ n # null /\ KeyOf(heap, n) < k =>
              /\ NextOf(heap, n) \in Chain(heap) \union {null}
              /\ \A m \in Chain(heap) : KeyOf(heap, m) >= k =>
                   NextOf(heap, n) # null /\ KeyOf(heap, NextOf(heap, n)) <= KeyOf(heap, m)
    BY <1>0, <2>1, <2>2, WhatTheNodeTells
  <2>4. at'[t] = "walk" => OnTheWay(t)'
    BY <1>2, <1>3, <2>3 DEF OnTheWay
  <2>5. at'[t] = end => answer'[t] = Contents(heap)[k]
    BY <1>3, <2>3
  <2>6. QED
    BY <2>4, <2>5
<1>8. LookupIsRight(t)'
  <2>1. at'[t] = "validate" => at'[t] = end
    BY <1>3
  <2>2. QED
    BY <1>2, <1>6, <1>7, <2>1 DEF LookupIsRight
<1>9. RInv' /\ Settled' = Settled
  BY <1>1, <1>2, <1>3, <1>4, <1>5, <1>8, QuietRInv
<1>10. QED
  BY <1>1, <1>2, <1>3, <1>7, <1>9

(* How a lookup answers.                                                   *)
LEMMA LookUpAnswers ==
  ASSUME RInv, NEW t \in Threads, OthersInCall(t), call'[t] = call[t],
         Settled' = Settled, in_scope' = in_scope, call[t].op = "LookUp",
         \A u \in Threads : at[u] # "assign",
         at[t] \in {"walk", "validate"}, at'[t] \in {"unlock_shared", "leave"},
         answer'[t] = Contents(heap)[call[t].key]
  PROVE  Set!LookUp(t)
<1>1. Settled = heap
  BY SettledIsHeap
<1>2. StatusOfAll[t] = [at |-> "pending", call |-> call[t]]
  BY DEF StatusOfAll, Status
<1>3. Status(t)' = Set!Done(Contents(Settled)[call[t].key])
  BY <1>1 DEF Status, Set!Done
<1>4. StatusOfAll' = [StatusOfAll EXCEPT ![t] = Set!Done(Contents(Settled)[call[t].key])]
  BY <1>3, StatusChanges
<1>5. StatusOfAll[t].at = "pending" /\ StatusOfAll[t].call = call[t]
  BY <1>2
<1>6. Contents(Settled)' = Contents(Settled)
  OBVIOUS
<1>7. QED
  BY <1>4, <1>5, <1>6 DEF Set!LookUp, Set!InCall, Set!Answer, StatusOfAll

LEMMA VisitRefines ==
  ASSUME RInv, LInv', NEW t \in Threads, NEW end, Visit(t, end), kind' = kind,
         \/ kind = "optimistic" /\ end = "validate"
         \/ kind = "mutex" /\ end = "unlock_shared"
  PROVE  RInv' /\ (UNCHANGED Set!setVars \/ Set!LookUp(t))
<1>0. LInv /\ CallPhase(t) /\ LockPhase
  BY DEF RInv, LInv
<1>1. /\ RInv' /\ Settled' = Settled /\ OthersInCall(t) /\ in_scope' = in_scope
      /\ at[t] = "walk" /\ at'[t] \in {"walk", end} /\ call'[t] = call[t]
      /\ Fixed(t) /\ at'[t] = end => answer'[t] = Contents(heap)[call[t].key]
  BY VisitRInv
<1>2. CASE at'[t] = "walk" \/ end = "validate"
  <2>1. Status(t)' = Status(t)
    BY <1>1, <1>2, SameStatus
  <2>2. Contents(Settled)' = Contents(Settled)
    BY <1>1
  <2>3. QED
    BY <1>1, <2>1, <2>2, Unseen
<1>3. CASE at'[t] = end /\ end = "unlock_shared"
  <2>1. kind = "mutex" /\ Fixed(t)
    BY <1>3 DEF Fixed
  <2>2. t \in readers
    BY <1>0, <1>1, <2>1 DEF LockPhase, Sharing
  <2>3. \A u \in Threads : at[u] # "assign"
    BY <1>0, <2>2 DEF LockPhase, Writing
  <2>4. call[t].op = "LookUp"
    BY <1>0, <1>1 DEF CallPhase, Guarded
  <2>5. QED
    BY <1>1, <1>3, <2>1, <2>3, <2>4, LookUpAnswers
<1>4. QED
  BY <1>1, <1>2, <1>3

LEMMA ValidateRefines ==
  ASSUME RInv, LInv', NEW t \in Threads, Validate(t), kind' = kind
  PROVE  RInv' /\ (UNCHANGED Set!setVars \/ Set!LookUp(t))
<1>0. ListTypes /\ LInv /\ CallPhase(t) /\ LockPhase
  BY DEF RInv, LInv
<1>1. /\ at[t] = "validate"
      /\ at' = [at EXCEPT ![t] = IF Valid(t) THEN "leave" ELSE "restart"]
      /\ cur' = [cur EXCEPT ![t] = null]
      /\ UNCHANGED <<lockVars, epochVars, heapVars, call, made, seen, answer, result>>
  BY DEF Validate, Go
<1>2. UNCHANGED <<kind, heap, in_scope, writers, version, call, made, seen, answer>>
  BY <1>1 DEF heapVars, lockVars
<1>3. OthersInCall(t) /\ at'[t] = (IF Valid(t) THEN "leave" ELSE "restart")
  BY <1>0, <1>1, <1>2 DEF ListTypes, OthersInCall
<1>4. VersionCounts'
  BY <1>1, <1>2, <1>3, CompletedGrows, VersionStillCounts
<1>5. \A u \in Threads \ {t} : Fixed(u)' => Fixed(u)
  BY <1>2 DEF Fixed
<1>6. LookupIsRight(t)'
  BY <1>3 DEF LookupIsRight
<1>7. RInv' /\ Settled' = Settled
  BY <1>1, <1>2, <1>3, <1>4, <1>5, <1>6, QuietRInv
<1>8. CASE ~Valid(t)
  <2>1. Status(t)' = Status(t)
    BY <1>1, <1>2, <1>3, <1>8, SameStatus
  <2>2. QED
    BY <1>2, <1>3, <1>7, <2>1, Unseen
<1>9. CASE Valid(t)
  <2>1. writers = {} /\ Fixed(t)
    BY <1>9 DEF Valid, Fixed
  <2>2. answer'[t] = Contents(heap)[call[t].key]
    BY <1>1, <1>2, <2>1 DEF RInv, LookupIsRight
  <2>3. \A u \in Threads : at[u] # "assign"
    BY <1>0, <2>1 DEF LockPhase, Writing
  <2>4. call[t].op = "LookUp"
    BY <1>0, <1>1 DEF CallPhase, Guarded
  <2>5. QED
    BY <1>1, <1>2, <1>3, <1>7, <1>9, <2>2, <2>3, <2>4, LookUpAnswers
<1>10. QED
  BY <1>8, <1>9

LEMMA LeaveEpochRefines ==
  ASSUME RInv, LInv', NEW t \in Threads, LeaveEpoch(t), kind' = kind
  PROVE  RInv' /\ UNCHANGED Set!setVars
<1>0. ListTypes /\ LInv
  BY DEF RInv, LInv
<1>1. /\ \/ at[t] = "leave" /\ at' = [at EXCEPT ![t] = "return"]
         \/ at[t] = "restart" /\ at' = [at EXCEPT ![t] = "lookup"]
      /\ UNCHANGED <<lockVars, heapVars, callVars>>
  BY DEF LeaveEpoch, Go
<1>2. UNCHANGED <<kind, heap, in_scope, writers, version, call, made, cur, seen, answer>>
  BY <1>1 DEF heapVars, lockVars, callVars
<1>3. OthersInCall(t) /\ at'[t] = IF at[t] = "leave" THEN "return" ELSE "lookup"
  BY <1>0, <1>1, <1>2 DEF ListTypes, OthersInCall
<1>4. VersionCounts'
  BY <1>1, <1>2, <1>3, CompletedGrows, VersionStillCounts
<1>5. \A u \in Threads \ {t} : Fixed(u)' => Fixed(u)
  BY <1>2 DEF Fixed
<1>6. LookupIsRight(t)'
  BY <1>3 DEF LookupIsRight
<1>7. RInv' /\ Settled' = Settled
  BY <1>1, <1>2, <1>3, <1>4, <1>5, <1>6, QuietRInv
<1>8. Status(t)' = Status(t)
  BY <1>1, <1>2, <1>3, SameStatus
<1>9. QED
  BY <1>2, <1>3, <1>7, <1>8, Unseen

LEMMA LockSharedRefines ==
  ASSUME RInv, LInv', NEW t \in Threads, LockShared(t), kind' = kind
  PROVE  RInv' /\ UNCHANGED Set!setVars
<1>0. ListTypes /\ LInv
  BY DEF RInv, LInv
<1>1. /\ at[t] = "lookup" /\ at' = [at EXCEPT ![t] = "root"]
      /\ UNCHANGED <<writers, version, epochVars, heapVars, callVars>>
  BY DEF LockShared, Go, Lock!AcquireShared
<1>2. UNCHANGED <<kind, heap, in_scope, writers, version, call, made, cur, seen, answer>>
  BY <1>1 DEF heapVars, callVars
<1>3. OthersInCall(t) /\ at'[t] = "root"
  BY <1>0, <1>1, <1>2 DEF ListTypes, OthersInCall
<1>4. VersionCounts'
  BY <1>1, <1>2, <1>3, CompletedGrows, VersionStillCounts
<1>5. \A u \in Threads \ {t} : Fixed(u)' => Fixed(u)
  BY <1>2 DEF Fixed
<1>6. LookupIsRight(t)'
  BY <1>3 DEF LookupIsRight
<1>7. RInv' /\ Settled' = Settled
  BY <1>1, <1>2, <1>3, <1>4, <1>5, <1>6, QuietRInv
<1>8. Status(t)' = Status(t)
  BY <1>1, <1>2, <1>3, SameStatus
<1>9. QED
  BY <1>2, <1>3, <1>7, <1>8, Unseen

LEMMA UnlockSharedRefines ==
  ASSUME RInv, LInv', NEW t \in Threads, UnlockShared(t), kind' = kind
  PROVE  RInv' /\ UNCHANGED Set!setVars
<1>0. ListTypes /\ LInv
  BY DEF RInv, LInv
<1>1. /\ at[t] = "unlock_shared" /\ at' = [at EXCEPT ![t] = "return"]
      /\ cur' = [cur EXCEPT ![t] = null]
      /\ UNCHANGED <<writers, version, epochVars, heapVars, call, made, seen, answer, result>>
  BY DEF UnlockShared, Go, Lock!ReleaseShared
<1>2. UNCHANGED <<kind, heap, in_scope, writers, version, call, made, seen, answer>>
  BY <1>1 DEF heapVars
<1>3. OthersInCall(t) /\ at'[t] = "return"
  BY <1>0, <1>1, <1>2 DEF ListTypes, OthersInCall
<1>4. VersionCounts'
  BY <1>1, <1>2, <1>3, CompletedGrows, VersionStillCounts
<1>5. \A u \in Threads \ {t} : Fixed(u)' => Fixed(u)
  BY <1>2 DEF Fixed
<1>6. LookupIsRight(t)'
  BY <1>3 DEF LookupIsRight
<1>7. RInv' /\ Settled' = Settled
  BY <1>1, <1>2, <1>3, <1>4, <1>5, <1>6, QuietRInv
<1>8. Status(t)' = Status(t)
  BY <1>1, <1>2, <1>3, SameStatus
<1>9. QED
  BY <1>2, <1>3, <1>7, <1>8, Unseen
-----------------------------------------------------------------------------
(***************************************************************************)
(* The steps of an update.                                                 *)
(***************************************************************************)
LEMMA WriterRInv ==
  ASSUME RInv, LInv', NEW t \in Threads, at[t] \in {"write", "assign", "link"},
         at'[t] \in {"assign", "link", "unlock", "crashed"}, OthersInCall(t),
         at'[t] = "link" => at[t] = "write" /\ answer'[t] = answer[t],
         UNCHANGED <<kind, writers, version, made, seen>>, DataInList'
  PROVE  RInv'
<1>0. LInv /\ LockPhase /\ \A u \in Threads : CallPhase(u)
  BY DEF RInv, LInv
<1>1. writers = {t} /\ readers = {}
  BY <1>0 DEF LockPhase, Writing
<1>2. NoAnswerYet'
  BY DEF RInv, NoAnswerYet, OthersInCall
<1>3. VersionCounts'
  BY CompletedGrows, VersionStillCounts
<1>4. LookupIsRight(t)'
  BY DEF LookupIsRight
<1>5. ASSUME NEW u \in Threads \ {t} PROVE LookupIsRight(u)'
  <2>1. Fixed(u)' => kind = "mutex"
    BY <1>1 DEF Fixed
  <2>2. kind = "mutex" => at[u] \notin {"walk", "validate"}
    BY <1>0, <1>1 DEF LockPhase, CallPhase, Sharing, Guarded
  <2>3. QED
    BY <2>1, <2>2 DEF LookupIsRight, OthersInCall
<1>6. QED
  BY <1>2, <1>3, <1>4, <1>5 DEF RInv

(* Before the first store of an update the list is settled.                *)
LEMMA NobodyAssigns ==
  ASSUME RInv, NEW t \in Threads, at[t] \in {"write", "link"}
  PROVE  /\ \A u \in Threads : at[u] # "assign"
         /\ Settled = heap
         /\ \A n \in Chain(heap) : DataOf(heap, n) \in Data
<1>1. \A u \in Threads : at[u] # "assign"
  <2> SUFFICES ASSUME NEW u \in Threads, at[u] = "assign" PROVE FALSE
    OBVIOUS
  <2>1. t = u
    BY OneWriter DEF RInv, Writing
  <2>2. QED
    BY <2>1
<1>2. QED
  BY <1>1, SettledIsHeap DEF RInv, DataInList

LEMMA CrashRefines ==
  ASSUME RInv, LInv', NEW t \in Threads, kind' = kind, at[t] = "write",
         at' = [at EXCEPT ![t] = "crashed"],
         UNCHANGED <<heap, writers, version, in_scope, call, made, cur, seen, answer>>
  PROVE  RInv' /\ UNCHANGED Set!setVars
<1>0. ListTypes /\ LInv
  BY DEF RInv, LInv
<1>1. OthersInCall(t) /\ at'[t] = "crashed"
  BY <1>0 DEF ListTypes, OthersInCall
<1>2. DataInList'
  BY NobodyAssigns DEF DataInList
<1>3. RInv'
  BY <1>1, <1>2, WriterRInv
<1>4. Settled' = Settled
  BY <1>0, <1>1, SettledStays
<1>5. Status(t)' = Status(t)
  BY <1>1, SameStatus
<1>6. QED
  BY <1>1, <1>3, <1>4, <1>5, Unseen

(* How an insertion takes effect.                                          *)
LEMMA InsertTakesEffect ==
  ASSUME RInv, NEW t \in Threads, OthersInCall(t), in_scope' = in_scope,
         at[t] \in {"write", "link"}, at'[t] \in {"assign", "unlock"}, call[t].op = "Insert",
         answer'[t] = answer[t],
         Contents(Settled)' = [Contents(heap) EXCEPT ![call[t].key] = call[t].data]
  PROVE  Set!Insert(t)
<1>1. Settled = heap
  BY NobodyAssigns
<1>2. answer[t] = Absent
  BY DEF RInv, NoAnswerYet
<1>3. StatusOfAll[t] = [at |-> "pending", call |-> call[t]]
  BY DEF StatusOfAll, Status
<1>4. Status(t)' = Set!Done(Absent)
  BY <1>2 DEF Status, Set!Done
<1>5. StatusOfAll' = [StatusOfAll EXCEPT ![t] = Set!Done(Absent)]
  BY <1>4, StatusChanges
<1>6. StatusOfAll[t].at = "pending" /\ StatusOfAll[t].call = call[t]
  BY <1>3
<1>7. Contents(Settled)' = [Contents(Settled) EXCEPT ![call[t].key] = call[t].data]
  BY <1>1
<1>8. QED
  BY <1>5, <1>6, <1>7 DEF Set!Insert, Set!InCall, Set!Answer, StatusOfAll

LEMMA InsertNodeRefines ==
  ASSUME RInv, LInv', NEW t \in Threads, InsertNode(t), kind' = kind
  PROVE  RInv' /\ (UNCHANGED Set!setVars \/ Set!Insert(t))
<1> DEFINE k == call[t].key
           d == call[t].data
<1>0. ListTypes /\ LInv /\ Proper(heap)
  BY DEF RInv, LInv
<1>1. /\ call[t].op = "Insert" /\ k \in Keys /\ d \in Data /\ at[t] \in {"write", "link"}
      /\ UNCHANGED <<lockVars, epochVars, deleted, in_scope, call, made, seen, answer, result>>
  BY <1>0, InsertNodeCases
<1>2. UNCHANGED <<writers, version, call, made, seen, answer, in_scope>>
  BY <1>1 DEF lockVars
<1>3. /\ \A u \in Threads : at[u] # "assign"
      /\ Settled = heap
      /\ \A n \in Chain(heap) : DataOf(heap, n) \in Data
  BY <1>1, NobodyAssigns
<1>4. ASSUME NEW to, at' = [at EXCEPT ![t] = to], cur' = cur \/ \E n : cur' = [cur EXCEPT ![t] = n]
      PROVE  OthersInCall(t) /\ at'[t] = to /\ \A u \in Threads \ {t} : at'[u] # "assign"
  <2>1. DOMAIN at = Threads /\ DOMAIN cur = Threads
    BY <1>0 DEF ListTypes
  <2>2. \A u \in Threads \ {t} : cur'[u] = cur[u] /\ at'[u] = at[u]
    BY <1>4, <2>1
  <2>3. QED
    BY <1>2, <1>3, <1>4, <2>1, <2>2 DEF OthersInCall
<1>5. ASSUME at'[t] # "assign", OthersInCall(t) PROVE Settled' = heap'
  <2>1. \A u \in Threads : at'[u] # "assign"
    BY <1>3, <1>5 DEF OthersInCall
  <2>2. SettledOf(heap', at', call') = heap'
    BY <2>1, SettledNone
  <2>3. QED
    BY <2>2 DEF Settled, SettledOf
<1>6. CASE /\ at[t] = "write" /\ at' = [at EXCEPT ![t] = "crashed"] /\ UNCHANGED <<heap, cur>>
  BY <1>2, <1>6, CrashRefines
<1>7. CASE /\ at[t] = "write" /\ Found(heap, k) /\ at' = [at EXCEPT ![t] = "assign"]
           /\ heap' = Overwrite(heap, k, Torn) /\ cur' = cur
  <2> HIDE DEF k, d
  <2>1. /\ Proper(heap') /\ Chain(heap') = Chain(heap) /\ Chain(heap) \subseteq Nodes
        /\ Current(heap, k) \in Chain(heap) /\ KeyOf(heap, Current(heap, k)) = k
        /\ \A m \in Nodes : /\ KeyOf(heap', m) = KeyOf(heap, m)
                            /\ DataOf(heap', m) = IF m = Current(heap, k) THEN Torn ELSE DataOf(heap, m)
    BY <1>0, <1>1, <1>7, OverwriteKeepsList, ProperFacts
  <2>2. OthersInCall(t) /\ at'[t] = "assign" /\ \A u \in Threads \ {t} : at'[u] # "assign"
    BY <1>4, <1>7
  <2>3. DataInList'
    <3>1. call'[t].key = k
      BY <1>2 DEF k
    <3>2. QED
      BY <1>3, <2>1, <2>2, <3>1 DEF DataInList
  <2>4. RInv'
    BY <1>2, <1>7, <2>2, <2>3, WriterRInv
  <2>5. Found(heap', k)
    <3>1. \E n \in Chain(heap') : KeyOf(heap', n) = k
      BY <2>1
    <3>2. QED
      BY <1>1, <2>1, <3>1, KeyType, StopSplits DEF Proper
  <2>6. Settled' = Overwrite(heap', k, d)
    <3>1. SettledOf(heap', at', call') = Overwrite(heap', call'[t].key, call'[t].data)
      BY <2>2, SettledOne
    <3>2. QED
      BY <1>2, <3>1 DEF Settled, SettledOf, k, d
  <2>7. Contents(Overwrite(heap', k, d)) = [Contents(heap) EXCEPT ![k] = d]
    <3>1. Contents(Overwrite(heap', k, d)) = [Contents(heap') EXCEPT ![k] = d]
      BY <1>1, <2>1, <2>5, ContentsOfOverwrite
    <3>2. Contents(heap') = [Contents(heap) EXCEPT ![k] = Torn]
      BY <1>0, <1>1, <1>7, ContentsOfOverwrite
    <3>3. QED
      BY <3>1, <3>2
  <2>8. Contents(Settled)' = [Contents(heap) EXCEPT ![k] = d]
    BY <2>6, <2>7
  <2>9. Set!Insert(t)
    BY <1>1, <1>2, <2>2, <2>8, InsertTakesEffect DEF k, d
  <2>10. QED
    BY <2>4, <2>9
<1>8. CASE /\ at[t] = "write" /\ ~Found(heap, k) /\ at' = [at EXCEPT ![t] = "link"]
           /\ \E n \in Fresh(heap) : /\ heap' = NewNode(heap, n, k, d, Current(heap, k))
                                     /\ cur' = [cur EXCEPT ![t] = n]
  <2> HIDE DEF k, d
  <2>1. PICK n \in Fresh(heap) : /\ heap' = NewNode(heap, n, k, d, Current(heap, k))
                                 /\ cur' = [cur EXCEPT ![t] = n]
    BY <1>8
  <2>2. /\ Proper(heap') /\ Chain(heap') = Chain(heap)
        /\ \A m \in Chain(heap) : KeyOf(heap', m) = KeyOf(heap, m) /\ DataOf(heap', m) = DataOf(heap, m)
    <3>1. /\ Proper(heap') /\ Chain(heap') = Chain(heap)
          /\ \A m \in Nodes \ {n} : KeyOf(heap', m) = KeyOf(heap, m) /\ DataOf(heap', m) = DataOf(heap, m)
      BY <1>0, <1>1, <2>1, NewNodeKeepsList
    <3>2. \A m \in Chain(heap) : m \in Nodes \ {n}
      BY <1>0, ProperFacts
    <3>3. QED
      BY <3>1, <3>2
  <2>3. OthersInCall(t) /\ at'[t] = "link"
    BY <1>4, <1>8, <2>1
  <2>4. DataInList'
    BY <1>3, <2>2 DEF DataInList
  <2>5. RInv'
    BY <1>2, <1>8, <2>3, <2>4, WriterRInv
  <2>6. Contents(heap') = Contents(heap)
    BY <1>0, <2>2, SameContents
  <2>7. Settled' = heap'
    BY <1>5, <2>3
  <2>8. Contents(Settled)' = Contents(Settled)
    BY <1>3, <2>6, <2>7
  <2>9. Status(t)' = Status(t)
    BY <1>2, <1>8, <2>3, SameStatus
  <2>10. QED
    BY <1>2, <2>3, <2>5, <2>8, <2>9, Unseen
<1>9. CASE /\ at[t] = "link" /\ at' = [at EXCEPT ![t] = "unlock"]
           /\ ~Found(heap, k) /\ Built(heap, cur[t], k, d)
           /\ heap' = Link(heap, cur[t], k) /\ cur' = [cur EXCEPT ![t] = null]
  <2> HIDE DEF k, d
  <2>1. /\ Chain(heap') = Chain(heap) \union {cur[t]} /\ Chain(heap) \subseteq Nodes
        /\ cur[t] \in Nodes /\ DataOf(heap, cur[t]) = d
        /\ \A m \in Nodes : DataOf(heap', m) = DataOf(heap, m)
    BY <1>0, <1>1, <1>9, LinkKeepsList, LinkFields, ProperFacts DEF Built
  <2>2. OthersInCall(t) /\ at'[t] = "unlock"
    BY <1>4, <1>9
  <2>3. DataInList'
    BY <1>1, <1>3, <2>1 DEF DataInList
  <2>4. RInv'
    BY <1>2, <1>9, <2>2, <2>3, WriterRInv
  <2>5. Contents(heap') = [Contents(heap) EXCEPT ![k] = d]
    BY <1>0, <1>1, <1>9, ContentsOfLink
  <2>6. Settled' = heap'
    BY <1>5, <2>2
  <2>7. Contents(Settled)' = [Contents(heap) EXCEPT ![k] = d]
    BY <2>5, <2>6
  <2>8. Set!Insert(t)
    BY <1>1, <1>2, <2>2, <2>7, InsertTakesEffect DEF k, d
  <2>9. QED
    BY <2>4, <2>8
<1>10. QED
  BY <1>0, <1>6, <1>7, <1>8, <1>9, InsertNodeCases DEF k, d

LEMMA AssignRefines ==
  ASSUME RInv, LInv', NEW t \in Threads, Assign(t), kind' = kind
  PROVE  RInv' /\ UNCHANGED Set!setVars
<1> DEFINE k == call[t].key
           d == call[t].data
<1>0. ListTypes /\ LInv /\ CallPhase(t) /\ Proper(heap) /\ DataInList
  BY DEF RInv, LInv
<1>1. /\ at[t] = "assign" /\ at' = [at EXCEPT ![t] = "unlock"]
      /\ heap' = Overwrite(heap, k, d)
      /\ UNCHANGED <<lockVars, epochVars, deleted, in_scope, callVars>>
  BY DEF Assign, Go
<1>2. k \in Keys /\ d \in Data /\ Found(heap, k)
  BY <1>0, <1>1 DEF CallPhase, Calls
<1>3. UNCHANGED <<writers, version, call, made, cur, seen, answer>>
  BY <1>1 DEF callVars, lockVars
<1>4. \A u \in Threads : at[u] = "assign" => u = t
  BY <1>0, <1>1, OneWriter DEF Writing
<1>5. OthersInCall(t) /\ at'[t] = "unlock" /\ \A u \in Threads : at'[u] # "assign"
  BY <1>0, <1>1, <1>3, <1>4 DEF ListTypes, OthersInCall
<1>6. Settled = Overwrite(heap, k, d)
  BY <1>1, <1>4, SettledOne DEF Settled, SettledOf
<1> HIDE DEF k, d
<1>7. Settled' = heap'
  <2>1. SettledOf(heap', at', call') = heap'
    BY <1>5, SettledNone
  <2>2. QED
    BY <2>1 DEF Settled, SettledOf
<1>8. /\ Chain(heap') = Chain(heap) /\ Chain(heap) \subseteq Nodes
      /\ Current(heap, k) \in Chain(heap) /\ KeyOf(heap, Current(heap, k)) = k
      /\ \A m \in Nodes : DataOf(heap', m) = IF m = Current(heap, k) THEN d ELSE DataOf(heap, m)
  BY <1>0, <1>1, <1>2, OverwriteKeepsList, ProperFacts
<1>9. DataInList'
  <2>1. \A m \in Chain(heap) : DataOf(heap, m) \in Data \/ KeyOf(heap, m) = k
    BY <1>0, <1>4 DEF DataInList, k
  <2>2. \A m, n \in Chain(heap) : KeyOf(heap, m) = KeyOf(heap, n) => m = n
    BY <1>0, ProperFacts DEF IsList
  <2>3. \A m \in Chain(heap) : DataOf(heap', m) \in Data
    BY <1>2, <1>8, <2>1, <2>2
  <2>4. QED
    BY <1>8, <2>3 DEF DataInList
<1>10. RInv'
  BY <1>1, <1>3, <1>5, <1>9, WriterRInv
<1>11. Status(t)' = Status(t)
  BY <1>1, <1>3, <1>5, SameStatus
<1>12. Contents(Settled)' = Contents(Settled)
  BY <1>1, <1>6, <1>7
<1>13. QED
  BY <1>1, <1>5, <1>10, <1>11, <1>12, Unseen

(* How a deletion takes effect, and what it answers.                       *)
LEMMA DeletionTakesEffect ==
  ASSUME RInv, NEW t \in Threads, OthersInCall(t), in_scope' = in_scope,
         at[t] = "write", at'[t] = "unlock", call[t].op = "Delete", call'[t] = call[t],
         answer'[t] = Found(heap, call[t].key),
         heap' = IF Found(heap, call[t].key) THEN Unlink(heap, call[t].key) ELSE heap
  PROVE  DataInList' /\ Set!Delete(t)
<1> DEFINE k == call[t].key
<1>0. Proper(heap) /\ k \in Keys /\ k \in Nat
  BY KeyType DEF RInv, LInv, CallPhase, Calls
<1>1. /\ \A u \in Threads : at[u] # "assign"
      /\ Settled = heap
      /\ \A n \in Chain(heap) : DataOf(heap, n) \in Data
  BY NobodyAssigns
<1>2. \A u \in Threads : at'[u] # "assign"
  BY <1>1 DEF OthersInCall
<1>3. Settled' = heap'
  <2>1. SettledOf(heap', at', call') = heap'
    BY <1>2, SettledNone
  <2>2. QED
    BY <2>1 DEF Settled, SettledOf
<1> DEFINE F == Found(heap, k)
           C == Contents(heap)
<1>4. /\ F <=> \E n \in Chain(heap) : KeyOf(heap, n) = k
      /\ F \in BOOLEAN
  <2>1. F \in BOOLEAN
    BY DEF Found
  <2>2. QED
    BY <1>0, <2>1, StopSplits DEF Proper
<1>5. F <=> C[k] # Absent
  <2>1. CASE F
    <3>1. PICK n \in Chain(heap) : KeyOf(heap, n) = k
      BY <1>4, <2>1
    <3>2. C[k] = DataOf(heap, n) /\ DataOf(heap, n) \in Data
      BY <1>0, <1>1, <3>1, ContentsAt
    <3>3. QED
      BY <2>1, <3>2, HeapAssumption
  <2>2. CASE ~F
    <3>1. C[k] = Absent
      BY <1>0, <1>4, <2>2, ContentsAt
    <3>2. QED
      BY <2>2, <3>1
  <2>3. QED
    BY <2>1, <2>2
<1>6. Contents(heap') = [C EXCEPT ![k] = Absent]
  <2>1. CASE F
    BY <1>0, <2>1, ContentsOfUnlink
  <2>2. CASE ~F
    <3>1. C[k] = Absent /\ C = [j \in Keys |-> C[j]]
      BY <1>5, <2>2, ContentsIsFunction
    <3>2. heap' = heap
      BY <2>2
    <3> HIDE DEF C
    <3>3. C = [C EXCEPT ![k] = Absent]
      BY <3>1
    <3>4. QED
      BY <3>2, <3>3 DEF C
  <2>3. QED
    BY <2>1, <2>2
<1>7. DataInList'
  <2>1. CASE F
    <3>1. /\ Chain(heap') \subseteq Chain(heap) /\ Chain(heap) \subseteq Nodes
          /\ \A m \in Nodes : DataOf(heap', m) = DataOf(heap, m)
      BY <1>0, <2>1, UnlinkKeepsList, ProperFacts
    <3>2. QED
      BY <1>1, <3>1 DEF DataInList
  <2>2. CASE ~F
    BY <1>1, <2>2 DEF DataInList
  <2>3. QED
    BY <2>1, <2>2
<1>8. Set!Delete(t)
  <2>1. StatusOfAll[t] = [at |-> "pending", call |-> call[t]]
    BY DEF StatusOfAll, Status
  <2>2. StatusOfAll[t].at = "pending" /\ StatusOfAll[t].call = call[t]
    BY <2>1
  <2>3. Contents(Settled)[k] = C[k] /\ answer'[t] = F
    BY <1>1
  <2> DEFINE A == (Contents(Settled)[k] # Absent)
  <2>4. A \in BOOLEAN /\ (A <=> F)
    BY <1>5, <2>3
  <2> HIDE DEF A, F
  <2>5. answer'[t] = A
    BY <1>4, <2>3, <2>4
  <2>6. Status(t)' = Set!Done(A)
    BY <2>5 DEF Status, Set!Done
  <2>7. StatusOfAll' = [StatusOfAll EXCEPT ![t] = Set!Done(A)]
    BY <2>6, StatusChanges
  <2>8. Contents(Settled)' = [Contents(Settled) EXCEPT ![k] = Absent]
    BY <1>1, <1>3, <1>6
  <2>9. QED
    BY <2>2, <2>7, <2>8 DEF Set!Delete, Set!InCall, Set!Answer, StatusOfAll, A
<1>9. QED
  BY <1>7, <1>8

LEMMA DeleteRefines ==
  ASSUME RInv, LInv', NEW t \in Threads, OptimisticDelete(t) \/ MutexDelete(t), kind' = kind
  PROVE  RInv' /\ Set!Delete(t)
<1> DEFINE k == call[t].key
<1>0. ListTypes
  BY DEF RInv, LInv
<1>1. /\ at[t] = "write" /\ at' = [at EXCEPT ![t] = "unlock"] /\ call[t].op = "Delete"
      /\ answer' = [answer EXCEPT ![t] = Found(heap, k)]
      /\ heap' = IF Found(heap, k) THEN Unlink(heap, k) ELSE heap
      /\ UNCHANGED <<lockVars, in_scope, call, made, cur, seen>>
  BY DEF OptimisticDelete, MutexDelete, Go
<1>2. UNCHANGED <<writers, version, call, made, cur, seen, in_scope>>
  BY <1>1 DEF lockVars
<1>3. OthersInCall(t) /\ at'[t] = "unlock" /\ answer'[t] = Found(heap, k)
  BY <1>0, <1>1, <1>2 DEF ListTypes, OthersInCall
<1>4. DataInList' /\ Set!Delete(t)
  BY <1>1, <1>2, <1>3, DeletionTakesEffect
<1>5. RInv'
  BY <1>1, <1>2, <1>3, <1>4, WriterRInv
<1>6. QED
  BY <1>4, <1>5
-----------------------------------------------------------------------------
(***************************************************************************)
(* The destructors, the initial state and the theorem.                     *)
(***************************************************************************)
(* When every call has returned.                                           *)
LEMMA RestRInv ==
  ASSUME RInv, LInv', AllReturned, DataInList',
         UNCHANGED <<at, made, answer, seen, version>>
  PROVE  RInv'
<1>1. \A t \in Threads : at[t] = "idle"
  BY DEF AllReturned
<1>2. NoAnswerYet' /\ VersionCounts'
  BY DEF RInv, NoAnswerYet, VersionCounts, Completed
<1>3. \A t \in Threads : LookupIsRight(t)'
  BY <1>1 DEF LookupIsRight
<1>4. QED
  BY <1>2, <1>3 DEF RInv

LEMMA DestroyListRefines ==
  ASSUME RInv, LInv', DestroyList, kind' = kind
  PROVE  RInv' /\ Set!Destroy
<1>1. /\ AllReturned /\ in_scope /\ in_scope' = FALSE
      /\ heap' = [heap EXCEPT !.root = null]
      /\ UNCHANGED <<lockVars, at, call, made, cur, seen, answer, result>>
  BY DEF DestroyList, callVars
<1>2. Proper(heap) /\ \A t \in Threads : at[t] = "idle"
  BY <1>1 DEF RInv, LInv, AllReturned
<1>3. Proper(heap') /\ Chain(heap') = {}
  BY <1>1, <1>2, EmptyList
<1>4. DataInList'
  BY <1>3 DEF DataInList
<1>5. RInv'
  BY <1>1, <1>4, RestRInv DEF lockVars
<1>6. Settled' = heap'
  <2>1. SettledOf(heap', at', call') = heap'
    BY <1>1, <1>2, SettledNone
  <2>2. QED
    BY <2>1 DEF Settled, SettledOf
<1>7. Contents(heap') = [k \in Keys |-> Absent]
  <2>1. \A k \in Keys : Contents(heap')[k] = Absent
    BY <1>3, ContentsAt
  <2>2. Contents(heap') = [k \in Keys |-> Contents(heap')[k]]
    BY ContentsIsFunction
  <2>3. QED
    BY <2>1, <2>2
<1>8. Contents(Settled)' = [k \in Keys |-> Absent]
  BY <1>6, <1>7
<1>9. \A t \in Threads : StatusOfAll[t] = Set!Idle
  BY <1>2 DEF StatusOfAll, Status, Set!Idle
<1>10. StatusOfAll' = StatusOfAll
  BY <1>1 DEF StatusOfAll, Status
<1>11. Set!Destroy
  BY <1>1, <1>8, <1>9, <1>10 DEF Set!Destroy, StatusOfAll
<1>12. QED
  BY <1>5, <1>11

LEMMA DestroyHandlerRefines ==
  ASSUME RInv, LInv', DestroyHandler, kind' = kind
  PROVE  RInv' /\ UNCHANGED Set!setVars
<1>1. AllReturned /\ UNCHANGED <<lockVars, heapVars, at, callVars>>
  BY DEF DestroyHandler
<1>2. UNCHANGED <<version, heap, in_scope, at, call, made, cur, seen, answer>>
  BY <1>1 DEF lockVars, heapVars, callVars
<1>3. DataInList'
  BY <1>2 DEF RInv, DataInList
<1>4. RInv'
  BY <1>1, <1>2, <1>3, RestRInv
<1>5. StatusOfAll' = StatusOfAll /\ Settled' = Settled
  BY <1>2 DEF StatusOfAll, Status, Settled
<1>6. QED
  BY <1>2, <1>4, <1>5 DEF Set!setVars, StatusOfAll

LEMMA EndedRefines ==
  ASSUME RInv, LInv', UNCHANGED listVars
  PROVE  RInv' /\ UNCHANGED Set!setVars
<1>1. UNCHANGED <<kind, writers, version, heap, in_scope, at, call, made, cur, seen, answer>>
  BY DEF listVars, lockVars, heapVars, callVars
<1>2. NoAnswerYet' /\ DataInList'
  BY <1>1 DEF RInv, NoAnswerYet, DataInList
<1>3. VersionCounts'
  BY <1>1 DEF RInv, VersionCounts, Completed
<1>4. \A t \in Threads : LookupIsRight(t)'
  BY <1>1 DEF RInv, LookupIsRight, Fixed, OnTheWay
<1>5. StatusOfAll' = StatusOfAll /\ Settled' = Settled
  BY <1>1 DEF StatusOfAll, Status, Settled
<1>6. QED
  BY <1>1, <1>2, <1>3, <1>4, <1>5 DEF RInv, Set!setVars, StatusOfAll

LEMMA InitRInv == Init => RInv /\ Set!Init
<1> SUFFICES ASSUME Init PROVE RInv /\ Set!Init
  OBVIOUS
<1>1. LInv
  BY InitLInv
<1>2. /\ version = 0 /\ heap = InitialHeap /\ in_scope = TRUE
      /\ at = [t \in Threads |-> "idle"] /\ made = [t \in Threads |-> 0]
      /\ seen = [t \in Threads |-> 0] /\ answer = [t \in Threads |-> Absent]
  BY DEF Init, Lock!Init
<1>3. \A n \in Chain(heap) : DataOf(heap, n) \in Data
  BY <1>2, ListAssumption DEF DataOf
<1>4. NoAnswerYet /\ DataInList /\ \A t \in Threads : LookupIsRight(t)
  BY <1>2, <1>3 DEF NoAnswerYet, DataInList, LookupIsRight
<1>5. VersionCounts
  <2>1. IsFiniteSet(Completed)
    BY CompletedIsFinite, FS_Subset DEF Completed
  <2>2. Cardinality(Completed) \in Nat
    BY <2>1, FS_CardinalityType
  <2>3. QED
    BY <1>2, <2>2 DEF VersionCounts
<1>6. Settled = heap
  BY <1>2, SettledIsHeap
<1>7. Contents(heap) \in [Keys -> Data \union {Absent}]
  <2>1. Proper(heap)
    BY <1>1 DEF LInv
  <2>2. ASSUME NEW k \in Keys PROVE Contents(heap)[k] \in Data \union {Absent}
    BY <1>3, <2>1, ContentsAt
  <2>3. Contents(heap) = [k \in Keys |-> Contents(heap)[k]]
    BY ContentsIsFunction
  <2>4. QED
    BY <2>2, <2>3
<1>8. Set!Init
  <2>1. \A t \in Threads : Status(t) = Set!Idle
    BY <1>2 DEF Status, Set!Idle
  <2>2. QED
    BY <1>2, <1>6, <1>7, <2>1 DEF Set!Init
<1>9. QED
  BY <1>1, <1>4, <1>5, <1>8 DEF RInv

LEMMA NextRefines == RInv /\ [Next]_listVars => RInv' /\ [Set!Next]_Set!setVars
<1> SUFFICES ASSUME RInv, [Next]_listVars PROVE RInv' /\ [Set!Next]_Set!setVars
  OBVIOUS
<1>0. LInv'
  BY NextLInv DEF RInv
<1>1. CASE UNCHANGED listVars
  BY <1>0, <1>1, EndedRefines
<1>2. ASSUME NEW t \in Threads, Step(t)
      PROVE  RInv' /\ \/ UNCHANGED Set!setVars
                      \/ Set!Call(t) \/ Set!Insert(t) \/ Set!LookUp(t) \/ Set!Delete(t) \/ Set!Return(t)
  <2>1. kind' = kind
    BY <1>2 DEF Step
  <2>2. CASE \E c \in CallsOf[t] : Begin(t, c)
    BY <1>0, <2>1, <2>2, BeginRefines
  <2>3. CASE Return(t)
    BY <1>0, <2>1, <2>3, ReturnRefines
  <2>4. CASE kind = "optimistic" /\ OptimisticStep(t)
    BY <1>0, <2>1, <2>4, EnterEpochRefines, OptimisticLockRefines, LoadRootRefines, VisitRefines,
       ValidateRefines, LeaveEpochRefines, LockExclusiveRefines, InsertNodeRefines, AssignRefines,
       DeleteRefines, UnlockRefines DEF OptimisticStep, OptimisticInsert
  <2>5. CASE kind = "mutex" /\ MutexStep(t)
    BY <1>0, <2>1, <2>5, LockSharedRefines, LoadRootRefines, VisitRefines, UnlockSharedRefines,
       LockExclusiveRefines, InsertNodeRefines, AssignRefines, DeleteRefines, UnlockRefines
       DEF MutexStep, MutexInsert
  <2>6. QED
    BY <1>2, <2>2, <2>3, <2>4, <2>5 DEF Step
<1>3. CASE DestroyList /\ UNCHANGED kind
  BY <1>0, <1>3, DestroyListRefines DEF Set!Next
<1>4. CASE kind = "optimistic" /\ DestroyHandler /\ UNCHANGED kind
  BY <1>0, <1>4, DestroyHandlerRefines
<1>5. CASE \E t \in Threads : Step(t)
  BY <1>2, <1>5 DEF Set!Next
<1>6. QED
  BY <1>1, <1>3, <1>4, <1>5 DEF Next, Ended

(* Either list implements the sorted set: every operation of any number of *)
(* threads takes effect in one step between its call and its return, an    *)
(* update at its first store, a lookup at the validation that succeeds or  *)
(* at the end of its walk under the mutex, and answers what the set holds  *)
(* then, although a walk may cross nodes that have left the list and       *)
(* values that are being assigned (list.cc:20-180).                        *)
THEOREM ListsImplementSortedSet == Spec => ImplementsSortedSet
<1>1. Spec => Set!Init /\ [][Set!Next]_Set!setVars
  BY InitRInv, NextRefines, PTL DEF Spec
<1>2. QED
  BY <1>1 DEF ImplementsSortedSet, Set!Spec
=============================================================================
