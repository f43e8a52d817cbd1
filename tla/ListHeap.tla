------------------------------ MODULE ListHeap ------------------------------
(***************************************************************************)
(* The nodes of the two sorted lists and the sequential parts of their     *)
(* operations.  A heap is a record of root_ and the nodes; a node keeps    *)
(* its value and its next pointer after it was taken out of the list.      *)
(***************************************************************************)
EXTENDS Integers, FiniteSets, Functions

CONSTANTS
  Nodes,   (* The memory for nodes, each allocated once.                    *)
  Keys,    (* What <=> compares of a value: positive numbers.               *)
  Data,    (* The rest of it.                                               *)
  Absent,  (* No value.                                                     *)
  Torn,    (* What a value looks like while another is assigned to it.      *)
  null     (* nullptr                                                       *)

ASSUME HeapAssumption ==
  /\ IsFiniteSet(Nodes) /\ Keys \subseteq Nat \ {0}
  /\ null \notin Nodes /\ Absent \notin Data /\ Torn \notin Data

Links == Nodes \union {null}
Heaps == [root : Links,
          node : [Nodes -> [key : Keys \union {0}, data : Data \union {Absent, Torn}, next : Links]]]

(* A list without nodes; a key of 0 marks a node that is not allocated. *)
EmptyHeap ==
  [root |-> null, node |-> [n \in Nodes |-> [key |-> 0, data |-> Absent, next |-> null]]]

Fresh(h) == {n \in Nodes : h.node[n].key = 0}

(* The values of current in the loops, from root_ to behind the last node. *)
Walk(h) ==
  LET current[i \in 0 .. Cardinality(Nodes)] ==
        IF i = 0 THEN h.root
        ELSE LET before == current[i - 1]
             IN  IF before = null THEN null ELSE h.node[before].next
  IN  current

Chain(h) == Range(Walk(h)) \ {null}

Contents(h) ==
  LET chain == Chain(h)
      At(k) == {n \in chain : h.node[n].key = k}
  IN  [k \in Keys |-> IF At(k) = {} THEN Absent ELSE h.node[CHOOSE n \in At(k) : TRUE].data]

(* The loops of Insert and Delete stop at the first node whose key is not  *)
(* less than k, or behind the last one, with prev one node before it.      *)
Stop(h, k) ==
  LET walk     == Walk(h)
      Stops(i) == walk[i] = null \/ h.node[walk[i]].key >= k
      last     == CHOOSE i \in DOMAIN walk : Stops(i) /\ \A j \in 0 .. i - 1 : ~Stops(j)
  IN  [current |-> walk[last], prev |-> IF last = 0 THEN null ELSE walk[last - 1]]

Current(h, k) == Stop(h, k).current
Prev(h, k)    == Stop(h, k).prev
Found(h, k)   == Current(h, k) # null /\ h.node[Current(h, k)].key = k

SetNext(h, prev, n) ==
  IF prev = null THEN [h EXCEPT !.root = n] ELSE [h EXCEPT !.node[prev].next = n]

NewNode(h, n, k, d, next) ==
  [h EXCEPT !.node[n] = [key |-> k, data |-> d, next |-> next]]

(* Insert assigns to prev->next->value when the key is there already; at   *)
(* the head of the list there is no prev.                                  *)
DereferencesNull(h, k) == Found(h, k) /\ Prev(h, k) = null

Overwrite(h, k, d) == [h EXCEPT !.node[Current(h, k)].data = d]

(* Mutant: links the new node behind the one it should come before. *)
LinkAfterCurrent(h, n, k) ==
  SetNext(h, IF Current(h, k) = null THEN Prev(h, k) ELSE Current(h, k), n)

Link(h, n, k) == SetNext(h, Prev(h, k), n)

(* Mutant: takes out the predecessor, too. *)
UnlinkFromRoot(h, k) == [h EXCEPT !.root = h.node[Current(h, k)].next]

Unlink(h, k) == SetNext(h, Prev(h, k), h.node[Current(h, k)].next)

(* The list is in ascending order, without duplicates and without a cycle. *)
Ascending(h) ==
  LET walk == Walk(h)
  IN  \A i \in DOMAIN walk \ {0} :
        walk[i] # null => h.node[walk[i - 1]].key < h.node[walk[i]].key
=============================================================================
