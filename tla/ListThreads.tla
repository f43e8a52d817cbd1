---------------------------- MODULE ListThreads ----------------------------
(***************************************************************************)
(* Threads that call the operations of a sorted list: the state that the   *)
(* two lists share, the beginning and the end of a call, and the steps     *)
(* that are the same in both.  A lookup takes one step per node.  An       *)
(* update constructs a node and links it in two steps, unlinks one in one  *)
(* step, and assigns a value in two, between which the value is torn.      *)
(***************************************************************************)
EXTENDS ListHeap, Sequences

CONSTANTS
  no_threads, MAX_VALUE, MaxEpoch,   (* See EpochHandler.                   *)
  Kinds,         (* The classes of the list to look at.                     *)
  InitialHeap,   (* The list the threads are started with.                  *)
  CallsOf,       (* The calls that each thread may make.                    *)
  NO_OPS         (* How many of them it makes.                              *)

Calls == [op : {"Insert", "LookUp", "Delete"}, key : Keys, data : Data]

(* The list is one that insertions have built: nothing else is allocated.  *)
ASSUME ListAssumption ==
  /\ no_threads \in Nat \ {0} /\ NO_OPS \in Nat
  /\ MaxEpoch \in Nat /\ MAX_VALUE \in Nat \ (0 .. MaxEpoch)
  /\ Kinds \subseteq {"mutex", "optimistic"}
  /\ InitialHeap \in Heaps /\ Ascending(InitialHeap)
  /\ Fresh(InitialHeap) = Nodes \ Chain(InitialHeap)
  /\ \A n \in Chain(InitialHeap) : InitialHeap.node[n].data \in Data
  /\ \A t \in 0 .. no_threads - 1 : CallsOf[t] \subseteq Calls

VARIABLES
  kind,      (* The class of the list: "mutex" or "optimistic".             *)
  writers, readers, version,      (* The lock.                              *)
  global_epoch, local_epoch, to_free_ptr, epc, reg, idx, freed, alive,
                                  (* The epoch handler.                     *)
  heap,
  deleted,   (* The nodes that the list itself has freed.  Ghost state.     *)
  in_scope,  (* The list has not been destructed.                           *)
  at,        (* Where each thread is in its call.                           *)
  call,      (* The call it makes.                                          *)
  made,      (* The calls it has completed.                                 *)
  cur,       (* current of a lookup, or the node that Insert has made.      *)
  seen,      (* The version in the snapshot of the optimistic guard.        *)
  answer,    (* What the call is about to return.                           *)
  result     (* The variable that the caller of LookUp passed.              *)

Epochs == INSTANCE EpochHandler WITH Ptrs <- Nodes, pc <- epc
Lock   == INSTANCE ReadWriteLock WITH
            Threads <- 0 .. no_threads - 1, MAX_SHARED <- 254,
            VERSION_LIMIT <- no_threads * NO_OPS + 1

Threads == 0 .. no_threads - 1

lockVars  == <<writers, readers, version>>
epochVars == <<global_epoch, local_epoch, to_free_ptr, epc, reg, idx, freed, alive>>
heapVars  == <<heap, deleted, in_scope>>
callVars  == <<call, made, cur, seen, answer, result>>
listVars  == <<kind, lockVars, epochVars, heapVars, at, callVars>>

NoCall == [op |-> "none", key |-> 0, data |-> Absent]

Init ==
  /\ kind \in Kinds
  /\ Lock!Init /\ Epochs!HandlerInit
  /\ heap = InitialHeap /\ deleted = {} /\ in_scope = TRUE
  /\ at   = [t \in Threads |-> "idle"]
  /\ call = [t \in Threads |-> NoCall]
  /\ made = [t \in Threads |-> 0]
  /\ cur  = [t \in Threads |-> null]
  /\ seen = [t \in Threads |-> 0]
  /\ answer = [t \in Threads |-> Absent]
  /\ result = [t \in Threads |-> Absent]

Go(t, from, to) ==
  /\ at[t] = from
  /\ at' = [at EXCEPT ![t] = to]

(* Mutant: one call too many. *)
BeginOnceMore(t, c) ==
  /\ made[t] <= NO_OPS /\ epc[t] = "outside"
  /\ Go(t, "idle", IF c.op = "LookUp" THEN "lookup" ELSE "update")
  /\ call' = [call EXCEPT ![t] = c]
  /\ UNCHANGED <<lockVars, epochVars, heapVars, made, cur, seen, answer, result>>

Begin(t, c) ==
  /\ made[t] < NO_OPS /\ epc[t] = "outside"
  /\ Go(t, "idle", IF c.op = "LookUp" THEN "lookup" ELSE "update")
  /\ call' = [call EXCEPT ![t] = c]
  /\ UNCHANGED <<lockVars, epochVars, heapVars, made, cur, seen, answer, result>>

Return(t) ==
  /\ Go(t, "return", "idle")
  /\ made' = [made EXCEPT ![t] = @ + 1]
  /\ call' = [call EXCEPT ![t] = NoCall]
  /\ answer' = [answer EXCEPT ![t] = Absent]
  /\ result' = [result EXCEPT ![t] = Absent]
  /\ UNCHANGED <<lockVars, epochVars, heapVars, cur, seen>>

(***************************************************************************)
(* The walk of a lookup.                                                   *)
(***************************************************************************)
LoadRoot(t) ==
  /\ Go(t, "root", "walk")
  /\ cur' = [cur EXCEPT ![t] = heap.root]
  /\ UNCHANGED <<lockVars, epochVars, heapVars, call, made, seen, answer, result>>

(* The walk ends, with or without the key, at the step that gives it up. *)
Visit(t, end) ==
  LET node == heap.node[cur[t]]
  IN  /\ at[t] = "walk"
      /\ \/ /\ cur[t] # null => node.key > call[t].key
            /\ Go(t, "walk", end)
            /\ answer' = [answer EXCEPT ![t] = Absent]
            /\ UNCHANGED <<cur, result>>
         \/ /\ cur[t] # null /\ node.key = call[t].key
            /\ Go(t, "walk", end)
            /\ answer' = [answer EXCEPT ![t] = node.data]
            /\ result' = [result EXCEPT ![t] = node.data]
            /\ UNCHANGED cur
         \/ /\ cur[t] # null /\ node.key < call[t].key
            /\ cur' = [cur EXCEPT ![t] = node.next]
            /\ UNCHANGED <<at, answer, result>>
      /\ UNCHANGED <<lockVars, epochVars, heapVars, call, made, seen>>

(***************************************************************************)
(* Updates, under the exclusive lock.                                      *)
(***************************************************************************)
LockExclusive(t) ==
  /\ Go(t, "update", "write")
  /\ Lock!AcquireExclusive(t)
  /\ UNCHANGED <<epochVars, heapVars, callVars>>

(* The key is there: its value is assigned to. *)
InsertFound(t) ==
  LET k == call[t].key
  IN  /\ Found(heap, k)
      /\ \/ /\ DereferencesNull(heap, k)
            /\ Go(t, "write", "crashed") /\ UNCHANGED heap
         \/ /\ ~DereferencesNull(heap, k)
            /\ Go(t, "write", "assign") /\ heap' = Overwrite(heap, k, Torn)
      /\ UNCHANGED cur

(* Mutant: links the memory and constructs the node in it afterwards. *)
InsertNewLinkFirst(t) ==
  LET k == call[t].key
  IN  \/ /\ ~Found(heap, k)
         /\ Go(t, "write", "link")
         /\ \E n \in Fresh(heap) :
              /\ heap' = Link([heap EXCEPT !.node[n].next = Current(heap, k)], n, k)
              /\ cur' = [cur EXCEPT ![t] = n]
      \/ /\ Go(t, "link", "unlock")
         /\ heap' = NewNode(heap, cur[t], k, call[t].data, heap.node[cur[t]].next)
         /\ cur' = [cur EXCEPT ![t] = null]

(* The key is not there: a node is constructed, then linked. *)
InsertNew(t) ==
  LET k == call[t].key
  IN  \/ /\ ~Found(heap, k)
         /\ Go(t, "write", "link")
         /\ \E n \in Fresh(heap) :
              /\ heap' = NewNode(heap, n, k, call[t].data, Current(heap, k))
              /\ cur' = [cur EXCEPT ![t] = n]
      \/ /\ Go(t, "link", "unlock")
         /\ heap' = Link(heap, cur[t], k)
         /\ cur' = [cur EXCEPT ![t] = null]

(* Insert, but for its lock. *)
InsertNode(t) ==
  /\ call[t].op = "Insert"
  /\ InsertFound(t) \/ InsertNew(t)
  /\ UNCHANGED <<lockVars, epochVars, deleted, in_scope, call, made, seen, answer, result>>

Assign(t) ==
  /\ Go(t, "assign", "unlock")
  /\ heap' = Overwrite(heap, call[t].key, call[t].data)
  /\ UNCHANGED <<lockVars, epochVars, deleted, in_scope, callVars>>

Unlock(t) ==
  /\ Go(t, "unlock", "return")
  /\ Lock!ReleaseExclusive(t)
  /\ UNCHANGED <<epochVars, heapVars, callVars>>

AllReturned ==
  \A t \in Threads : at[t] = "idle" /\ made[t] = NO_OPS /\ epc[t] = "outside"

(* The list goes out of scope. *)
DestroyList ==
  /\ AllReturned /\ in_scope
  /\ in_scope' = FALSE
  /\ deleted' = deleted \union Chain(heap)
  /\ heap' = [heap EXCEPT !.root = null]
  /\ UNCHANGED <<lockVars, epochVars, at, callVars>>
=============================================================================
