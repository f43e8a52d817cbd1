--------------------------- MODULE AccountDeposit ---------------------------
(***************************************************************************)
(* The two account repositories: clients that add an amount to the balance *)
(* of an account, under a row lock (deposit) or with a version column      *)
(* (depositOpt).  A statement sent to the server is one step.  The server  *)
(* is external: rows under READ COMMITTED, where a select reads what is    *)
(* committed and whoever updates or locks a row keeps the others from      *)
(* updating or locking it until its transaction ends.                      *)
(***************************************************************************)
EXTENDS Integers, Sequences

CONSTANTS
  Pess, Opt,   (* The threads that call deposit, and depositOpt.            *)
  Username,    (* The account that each of them adds to.                    *)
  Users,       (* All usernames.                                            *)
  Inserted,    (* Those that insertData has put into the table.             *)
  Programs,    (* The programs to look at: the sets of threads that are     *)
               (* started together, in turn.                                *)
  NoRow,       (* No row, no update.                                        *)
  nobody,      (* No thread.                                                *)
  MaxFaults    (* Bound: the failures of the server or of a connection.     *)

Threads == Pess \union Opt

Accounts == [balance : Nat, version : Nat]

(* main starts a thread once. *)
ASSUME AccountAssumption ==
  /\ Username \in [Threads -> Users] /\ Inserted \subseteq Users
  /\ Pess \intersect Opt = {} /\ nobody \notin Threads /\ MaxFaults \in Nat
  /\ NoRow \notin Accounts
  /\ \A p \in Programs :
       /\ p \in Seq(SUBSET Threads)
       /\ \A i, j \in DOMAIN p : i # j => p[i] \intersect p[j] = {}

VARIABLES
  rows,      (* The committed rows.                                         *)
  owner,     (* The transaction that holds the lock of a row.               *)
  pending,   (* What a transaction has updated its row to.                  *)
  todo,      (* The sets of threads that main has yet to start.             *)
  pc,        (* Where each thread is in its deposit.                        *)
  account,   (* The row that the thread has read.                           *)
  faults,    (* Failures so far.                                            *)
  deposits,  (* Deposits committed to each row.  Ghost state.               *)
  applied,   (* Deposits committed by each thread.  Ghost state.            *)
  lost,      (* Its commits whose outcome it was not told.  Ghost state.    *)
  error      (* It has written an error.  Ghost state.                      *)

table  == <<rows, owner, pending, deposits>>
ghosts == <<applied, lost, error>>
vars   == <<table, todo, pc, account, faults, ghosts>>

(* Balances count deposits; insertData writes a version of 0. *)
Init ==
  /\ rows = [u \in Users |-> IF u \in Inserted THEN [balance |-> 1, version |-> 0] ELSE NoRow]
  /\ owner = [u \in Users |-> nobody]
  /\ pending = [t \in Threads |-> NoRow]
  /\ todo \in Programs
  /\ pc = [t \in Threads |-> "unborn"]
  /\ account = [t \in Threads |-> NoRow]
  /\ faults = 0
  /\ deposits = [u \in Users |-> 0]
  /\ applied = [t \in Threads |-> 0] /\ lost = [t \in Threads |-> 0]
  /\ error = [t \in Threads |-> FALSE]

Go(t, from, to) ==
  /\ pc[t] = from
  /\ pc' = [pc EXCEPT ![t] = to]

Row(t) == rows[Username[t]]

Fault(t) ==
  /\ faults < MaxFaults
  /\ faults' = faults + 1
  /\ error' = [error EXCEPT ![t] = TRUE]

(* main starts one set of threads after it has joined the one before. *)
StartRound ==
  /\ todo # <<>> /\ \A t \in Threads : pc[t] \in {"unborn", "returned"}
  /\ todo' = Tail(todo)
  /\ pc' = [t \in Threads |-> IF t \in Head(todo) THEN "connect" ELSE pc[t]]
  /\ UNCHANGED <<table, account, faults, ghosts>>

(* The connection, and the work of a deposit, are made outside of the try  *)
(* block of the deposit: a failure ends the thread.                        *)
Open(t, at, next) ==
  /\ \/ Go(t, at, next) /\ UNCHANGED <<faults, error>>
     \/ Go(t, at, "returned") /\ Fault(t)
  /\ UNCHANGED <<table, todo, account, applied, lost>>

Connect(t) == Open(t, "connect", "begin")
Begin(t)   == Open(t, "begin", "select")

NotFound(t) ==
  /\ Row(t) = NoRow
  /\ Go(t, "select", "abort")
  /\ error' = [error EXCEPT ![t] = TRUE]
  /\ UNCHANGED <<table, todo, account, faults, applied, lost>>

(***************************************************************************)
(* What the server does with a row for a transaction.                      *)
(***************************************************************************)
LockRow(t) ==
  /\ owner[Username[t]] \in {nobody, t}
  /\ owner' = [owner EXCEPT ![Username[t]] = t]

(* SET balance = $1, version = version+1 *)
SetRow(t, balance) ==
  pending' = [pending EXCEPT ![t] = [balance |-> balance, version |-> Row(t).version + 1]]

(* The end of the transaction of t, committed or not. *)
EndTransaction(t, committed) ==
  LET u == Username[t]
      n == IF committed THEN 1 ELSE 0
  IN  /\ rows' = IF committed THEN [rows EXCEPT ![u] = pending[t]] ELSE rows
      /\ owner' = IF owner[u] = t THEN [owner EXCEPT ![u] = nobody] ELSE owner
      /\ pending' = [pending EXCEPT ![t] = NoRow]
      /\ deposits' = [deposits EXCEPT ![u] = @ + n]
      /\ applied' = [applied EXCEPT ![t] = @ + n]

(***************************************************************************)
(* The statements of a deposit.                                            *)
(***************************************************************************)
(* SELECT ... FOR NO KEY UPDATE *)
SelectForUpdate(t) ==
  /\ Row(t) # NoRow
  /\ Go(t, "select", "update")
  /\ LockRow(t)
  /\ account' = [account EXCEPT ![t] = Row(t)]
  /\ UNCHANGED <<rows, pending, deposits, todo, faults, ghosts>>

Select(t) ==
  /\ Row(t) # NoRow
  /\ Go(t, "select", "update")
  /\ account' = [account EXCEPT ![t] = Row(t)]
  /\ UNCHANGED <<table, todo, faults, ghosts>>

(* UPDATE ... WHERE id = $2 *)
Update(t) ==
  /\ Go(t, "update", "commit")
  /\ LockRow(t)
  /\ SetRow(t, account[t].balance + 1)
  /\ UNCHANGED <<rows, deposits, todo, account, faults, ghosts>>

(* Mutant: the statement does not ask for the version. *)
AnyVersion(t) == Row(t) # NoRow

SameVersion(t) == Row(t).version = account[t].version

(* UPDATE ... WHERE id = $2 AND version = $3 *)
UpdateOpt(t) ==
  /\ pc[t] = "update"
  /\ \/ SameVersion(t) /\ Update(t)
     \/ /\ ~SameVersion(t)
        /\ Go(t, "update", "abort")
        /\ UNCHANGED <<table, todo, account, faults, ghosts>>

(* Mutant: goes on with the loop after a commit. *)
CommitAndLoop(t) ==
  /\ EndTransaction(t, TRUE)
  /\ Go(t, "commit", IF applied[t] = 0 THEN "begin" ELSE "returned")
  /\ UNCHANGED <<todo, account, faults, lost, error>>

Commit(t) ==
  /\ EndTransaction(t, TRUE)
  /\ Go(t, "commit", "returned")
  /\ UNCHANGED <<todo, account, faults, lost, error>>

(* The connection breaks while the thread waits for the answer to COMMIT. *)
CommitInDoubt(t) ==
  /\ \E committed \in BOOLEAN : EndTransaction(t, committed)
  /\ Go(t, "commit", "abort")
  /\ lost' = [lost EXCEPT ![t] = @ + 1]
  /\ Fault(t)
  /\ UNCHANGED <<todo, account>>

(* A statement fails, COMMIT among them. *)
StatementFails(t) ==
  /\ \E at \in {"select", "update", "commit"} : Go(t, at, "abort")
  /\ Fault(t)
  /\ UNCHANGED <<table, todo, account, applied, lost>>

(* Mutant: ends the thread with the transaction open. *)
ReturnWithoutAbort(t) ==
  /\ Go(t, "abort", "returned")
  /\ UNCHANGED <<table, todo, account, faults, ghosts>>

(* Mutant: tries the update again with the row it has. *)
AbortAndUpdate(t) ==
  /\ EndTransaction(t, FALSE)
  /\ Go(t, "abort", IF t \in Opt /\ account[t] # NoRow THEN "update" ELSE "returned")
  /\ UNCHANGED <<todo, account, faults, lost, error>>

(* deposit gives up, depositOpt starts over whatever the reason was. *)
Abort(t) ==
  /\ EndTransaction(t, FALSE)
  /\ Go(t, "abort", IF t \in Opt THEN "begin" ELSE "returned")
  /\ account' = [account EXCEPT ![t] = NoRow]
  /\ UNCHANGED <<todo, faults, lost, error>>

Statement(t) ==
  \/ Connect(t) \/ Begin(t) \/ NotFound(t) \/ Commit(t)
  \/ CommitInDoubt(t) \/ StatementFails(t) \/ Abort(t)

PessStep(t) == SelectForUpdate(t) \/ Update(t)

OptStep(t) == Select(t) \/ UpdateOpt(t)

Step(t) ==
  \/ Statement(t)
  \/ t \in Pess /\ PessStep(t)
  \/ t \in Opt /\ OptStep(t)

AllReturned == todo = <<>> /\ \A t \in Threads : pc[t] \in {"unborn", "returned"}

Ended == AllReturned /\ UNCHANGED vars

Next == StartRound \/ (\E t \in Threads : Step(t)) \/ Ended

Spec == Init /\ [][Next]_vars

(* main and every thread are scheduled, and the server answers. *)
Fairness == WF_vars(StartRound) /\ \A t \in Threads : WF_vars(Step(t))

FairSpec == Spec /\ Fairness
-----------------------------------------------------------------------------
(* The variables have their types, and a row is locked by a thread within  *)
(* its transaction only.                                                   *)
TypeOK ==
  /\ rows \in [Users -> Accounts \union {NoRow}]
  /\ pending \in [Threads -> Accounts \union {NoRow}]
  /\ account \in [Threads -> Accounts \union {NoRow}]
  /\ owner \in [Users -> Threads \union {nobody}]
  /\ pc \in [Threads -> {"unborn", "connect", "begin", "select", "update", "commit",
                         "abort", "returned"}]
  /\ faults \in 0 .. MaxFaults
  /\ deposits \in [Users -> Nat] /\ applied \in [Threads -> Nat] /\ lost \in [Threads -> Nat]
  /\ error \in [Threads -> BOOLEAN]
  /\ \A u \in Users : owner[u] # nobody => pc[owner[u]] \in {"update", "commit", "abort"}

(* No deposit is lost: the balance and the version of a row count the      *)
(* deposits committed to it, although locking and version-checking threads *)
(* read it, compute, and write it back in separate statements              *)
(* (opt_and_pess_lock.cc:34-109).                                          *)
RowCountsDeposits ==
  \A u \in Inserted : rows[u] = [balance |-> 1 + deposits[u], version |-> deposits[u]]

(* A deposit is applied once if it returns without an error, and never     *)
(* again unless the outcome of a commit was in doubt; deposit, which does  *)
(* not retry, applies it at most once (opt_and_pess_lock.cc:54-60, 96-107).*)
AppliedOnce ==
  \A t \in Threads :
    /\ pc[t] = "returned" /\ ~error[t] => applied[t] = 1
    /\ applied[t] <= 1 + IF t \in Opt THEN lost[t] ELSE 0

(* Every deposit returns, but for those that depositOpt makes to an        *)
(* account that does not exist: the retries of the others end, and nobody  *)
(* waits for ever for a row (opt_and_pess_lock.cc:72-109, 135-137).        *)
DepositsReturn ==
  \A t \in Threads :
    pc[t] = "connect" /\ (t \in Pess \/ Username[t] \in Inserted) ~> pc[t] = "returned"
=============================================================================
