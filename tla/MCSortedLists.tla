--------------------------- MODULE MCSortedLists ----------------------------
(* Instances of SortedLists and ReclaimedList for TLC. *)
EXTENDS ReclaimedList

CONSTANTS n1, n2, n3, n4, d1, d2

(* Two nodes with the keys 1 and 3, inserted before the threads start. *)
OneAndThree ==
  NewNode(NewNode([EmptyHeap EXCEPT !.root = n1], n1, 1, d1, n2), n2, 3, d1, null)

Insertion(k, d) == [op |-> "Insert", key |-> k, data |-> d]
Lookup(k)       == [op |-> "LookUp", key |-> k, data |-> d1]
Deletion(k)     == [op |-> "Delete", key |-> k, data |-> d1]

(* A reader and two writers that change the list in front of, at and       *)
(* behind the keys it looks for.                                           *)
ReaderAndWriters ==
  [t \in Threads |-> IF t = 0 THEN {Lookup(2), Lookup(3)}
                     ELSE {Insertion(k, d2) : k \in Keys} \union {Deletion(k) : k \in Keys}]

(* Each thread looks up and deletes: deletions come before and after the   *)
(* first lookup of their thread.                                           *)
EverybodyDeletes == [t \in Threads |-> {Lookup(3), Deletion(3), Deletion(1)}]

(* A writer that inserts at the head, before it and behind it. *)
InsertAnywhere == [t \in Threads |-> {Insertion(k, d2) : k \in {1, 2, 3}}]
=============================================================================
