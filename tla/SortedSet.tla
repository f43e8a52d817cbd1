----------------------------- MODULE SortedSet ------------------------------
(***************************************************************************)
(* What a SortedList promises its callers: a set of values that are told   *)
(* apart by their keys, whose operations take effect in one step between   *)
(* their call and their return, until the set is destroyed.                *)
(***************************************************************************)
CONSTANTS
  Threads,
  Keys,     (* What <=> compares of a value.                                *)
  Data,     (* The rest of it.                                              *)
  Absent    (* No value.                                                    *)

VARIABLES
  contents,   (* The data of each key, or Absent.                           *)
  status,     (* For each thread: idle, in a call, or with its answer.      *)
  in_scope    (* The set has not been destroyed.                            *)

setVars == <<contents, status, in_scope>>

Calls == [op : {"Insert", "LookUp", "Delete"}, key : Keys, data : Data]

Idle       == [at |-> "idle"]
Pending(c) == [at |-> "pending", call |-> c]
Done(a)    == [at |-> "done", answer |-> a]

Init ==
  /\ contents \in [Keys -> Data \union {Absent}]
  /\ status = [t \in Threads |-> Idle]
  /\ in_scope = TRUE

Call(t) ==
  /\ in_scope /\ status[t] = Idle
  /\ \E c \in Calls : status' = [status EXCEPT ![t] = Pending(c)]
  /\ UNCHANGED <<contents, in_scope>>

InCall(t, op) == status[t].at = "pending" /\ status[t].call.op = op

Answer(t, a) ==
  /\ status' = [status EXCEPT ![t] = Done(a)]
  /\ UNCHANGED in_scope

Insert(t) ==
  LET c == status[t].call
  IN  /\ InCall(t, "Insert") /\ Answer(t, Absent)
      /\ contents' = [contents EXCEPT ![c.key] = c.data]

LookUp(t) ==
  LET c == status[t].call
  IN  /\ InCall(t, "LookUp") /\ Answer(t, contents[c.key])
      /\ UNCHANGED contents

Delete(t) ==
  LET c == status[t].call
  IN  /\ InCall(t, "Delete") /\ Answer(t, contents[c.key] # Absent)
      /\ contents' = [contents EXCEPT ![c.key] = Absent]

Return(t) ==
  /\ status[t].at = "done"
  /\ status' = [status EXCEPT ![t] = Idle]
  /\ UNCHANGED <<contents, in_scope>>

Destroy ==
  /\ in_scope /\ \A t \in Threads : status[t] = Idle
  /\ in_scope' = FALSE
  /\ contents' = [k \in Keys |-> Absent]
  /\ UNCHANGED status

Next ==
  \/ \E t \in Threads : Call(t) \/ Insert(t) \/ LookUp(t) \/ Delete(t) \/ Return(t)
  \/ Destroy

Spec == Init /\ [][Next]_setVars
=============================================================================
