------------------------ MODULE AccountDepositProofs ------------------------
(***************************************************************************)
(* No deposit is lost and none is applied twice, for any number of threads *)
(* of either kind, any accounts and any number of failures.                *)
(***************************************************************************)
EXTENDS AccountDeposit, TLAPS

(* Only insertData makes rows, and only for the users it was told. *)
OthersHaveNoRow == \A u \in Users \ Inserted : rows[u] = NoRow

(* Whoever has locked a row is the thread of a deposit to it.              *)
OwnersDeposit == \A u \in Users : owner[u] # nobody => Username[owner[u]] = u

(* A row that was read counts deposits too.  A thread that has read it     *)
(* under the lock has what is in the table until it ends its transaction.  *)
ReadIsSound(t) ==
  /\ account[t] # NoRow => account[t].balance = 1 + account[t].version
  /\ pc[t] = "update" => account[t] # NoRow /\ Username[t] \in Inserted
  /\ pc[t] = "update" /\ t \in Pess => owner[Username[t]] = t /\ account[t] = Row(t)

(* What is about to be committed is the row with one deposit more.         *)
WriteIsNext(t) ==
  pc[t] = "commit" =>
    /\ Username[t] \in Inserted /\ owner[Username[t]] = t
    /\ pending[t] = [balance |-> Row(t).balance + 1, version |-> Row(t).version + 1]

IInv ==
  /\ TypeOK
  /\ RowCountsDeposits
  /\ OthersHaveNoRow
  /\ OwnersDeposit
  /\ \A t \in Threads : ReadIsSound(t) /\ WriteIsNext(t)
-----------------------------------------------------------------------------
LEMMA InitialState == Init => IInv
<1> SUFFICES ASSUME Init PROVE IInv
  OBVIOUS
<1>1. \A u \in Users : rows[u] \in Accounts \union {NoRow}
  BY DEF Init, Accounts
<1>2. TypeOK
  BY <1>1, AccountAssumption DEF Init, TypeOK
<1>3. RowCountsDeposits /\ OthersHaveNoRow /\ OwnersDeposit
  BY AccountAssumption DEF Init, RowCountsDeposits, OthersHaveNoRow, OwnersDeposit
<1>4. \A t \in Threads : ReadIsSound(t) /\ WriteIsNext(t)
  BY DEF Init, ReadIsSound, WriteIsNext
<1>5. QED
  BY <1>2, <1>3, <1>4 DEF IInv

(* The row of a deposit that has found one. *)
LEMMA FoundRow ==
  ASSUME IInv, NEW t \in Threads, Username[t] \in Inserted
  PROVE  /\ Username[t] \in Users
         /\ Row(t) = [balance |-> 1 + deposits[Username[t]], version |-> deposits[Username[t]]]
         /\ deposits[Username[t]] \in Nat
         /\ Row(t) \in Accounts /\ Row(t) # NoRow
<1>1. Username[t] \in Users
  BY AccountAssumption
<1>2. deposits[Username[t]] \in Nat
  BY <1>1 DEF IInv, TypeOK
<1>3. Row(t) = [balance |-> 1 + deposits[Username[t]], version |-> deposits[Username[t]]]
  BY DEF IInv, RowCountsDeposits, Row
<1>4. Row(t) \in Accounts
  BY <1>2, <1>3 DEF Accounts
<1>5. QED
  BY <1>1, <1>2, <1>3, <1>4, AccountAssumption

LEMMA FaultTypes ==
  ASSUME IInv, NEW t \in Threads, Fault(t)
  PROVE  faults' \in 0 .. MaxFaults /\ error' \in [Threads -> BOOLEAN]
BY AccountAssumption DEF Fault, IInv, TypeOK

(* A row that can be selected is one that was inserted. *)
LEMMA SelectedRow ==
  ASSUME IInv, NEW t \in Threads, Row(t) # NoRow
  PROVE  Username[t] \in Inserted
BY AccountAssumption DEF IInv, OthersHaveNoRow, Row

(* Steps that send one thread somewhere and leave the table and what was   *)
(* read alone.                                                             *)
LEMMA QuietStep ==
  ASSUME IInv, NEW t \in Threads, NEW from, NEW to,
         Go(t, from, to), UNCHANGED <<table, account>>,
         \/ from \in {"connect", "begin"} /\ to \in {"begin", "select", "returned"}
         \/ from \in {"select", "update", "commit"} /\ to = "abort",
         faults' \in 0 .. MaxFaults, applied' = applied,
         lost' \in [Threads -> Nat], error' \in [Threads -> BOOLEAN]
  PROVE  IInv'
<1>1. pc' \in [Threads -> {"unborn", "connect", "begin", "select", "update", "commit",
                           "abort", "returned"}]
  BY DEF IInv, TypeOK, Go
<1>2. \A u \in Users : owner[u] # nobody => pc'[owner[u]] \in {"update", "commit", "abort"}
  BY DEF IInv, TypeOK, Go
<1>3. TypeOK'
  BY <1>1, <1>2 DEF IInv, TypeOK, table
<1>4. RowCountsDeposits' /\ OthersHaveNoRow' /\ OwnersDeposit'
  BY DEF IInv, RowCountsDeposits, OthersHaveNoRow, OwnersDeposit, table
<1>5. ASSUME NEW s \in Threads PROVE ReadIsSound(s)' /\ WriteIsNext(s)'
  <2>1. pc'[s] \in {"update", "commit"} => pc'[s] = pc[s]
    BY DEF IInv, TypeOK, Go
  <2>2. QED
    BY <2>1 DEF IInv, ReadIsSound, WriteIsNext, Row, table
<1>6. QED
  BY <1>3, <1>4, <1>5 DEF IInv

LEMMA RoundStep == ASSUME IInv, StartRound PROVE IInv'
<1>1. \A t \in Threads : pc'[t] \in {pc[t], "connect"}
  BY DEF StartRound
<1>2. \A t \in Threads : pc[t] \in {"unborn", "returned"}
  BY DEF StartRound
<1>3. \A u \in Users : owner[u] = nobody
  BY <1>2 DEF IInv, TypeOK
<1>4. pc' \in [Threads -> {"unborn", "connect", "begin", "select", "update", "commit",
                           "abort", "returned"}]
  BY <1>1 DEF IInv, TypeOK, StartRound
<1>5. TypeOK'
  BY <1>3, <1>4 DEF IInv, TypeOK, StartRound, table, ghosts
<1>6. RowCountsDeposits' /\ OthersHaveNoRow' /\ OwnersDeposit'
  BY DEF IInv, RowCountsDeposits, OthersHaveNoRow, OwnersDeposit, StartRound, table
<1>7. \A t \in Threads : ReadIsSound(t)' /\ WriteIsNext(t)'
  BY <1>1, <1>2 DEF IInv, ReadIsSound, WriteIsNext, StartRound, table
<1>8. QED
  BY <1>5, <1>6, <1>7 DEF IInv

-----------------------------------------------------------------------------
(* The steps of the transactions.                                          *)
LEMMA SelectForUpdateStep ==
  ASSUME IInv, NEW t \in Threads, SelectForUpdate(t) PROVE IInv'
<1>1. /\ pc[t] = "select" /\ pc' = [pc EXCEPT ![t] = "update"]
      /\ owner[Username[t]] \in {nobody, t} /\ owner' = [owner EXCEPT ![Username[t]] = t]
      /\ account' = [account EXCEPT ![t] = Row(t)] /\ Row(t) # NoRow
      /\ UNCHANGED <<rows, pending, deposits, faults, applied, lost, error>>
  BY DEF SelectForUpdate, Go, LockRow, ghosts
<1>2. Username[t] \in Inserted
  BY <1>1, SelectedRow
<1>3. TypeOK'
  BY <1>1, <1>2, FoundRow DEF IInv, TypeOK
<1>4. RowCountsDeposits' /\ OthersHaveNoRow'
  BY <1>1 DEF IInv, RowCountsDeposits, OthersHaveNoRow
<1>5. OwnersDeposit'
  BY <1>1 DEF IInv, TypeOK, OwnersDeposit
<1>6. ASSUME NEW s \in Threads PROVE ReadIsSound(s)' /\ WriteIsNext(s)'
  <2>1. CASE s = t
    <3>1. pc'[t] = "update" /\ account'[t] = Row(t) /\ owner'[Username[t]] = t
      BY <1>1, <1>2, FoundRow DEF IInv, TypeOK
    <3>2. Row(t)' = Row(t)
      BY <1>1 DEF Row
    <3>3. Row(t).balance = 1 + Row(t).version /\ Row(t) # NoRow
      BY <1>2, FoundRow
    <3>4. QED
      BY <1>2, <2>1, <3>1, <3>2, <3>3 DEF ReadIsSound, WriteIsNext
  <2>2. CASE s # t
    <3>1. owner[Username[s]] = s => owner'[Username[s]] = s
      BY <1>1, <2>2, AccountAssumption DEF IInv, TypeOK
    <3>2. pc'[s] = pc[s] /\ account'[s] = account[s] /\ Row(s)' = Row(s)
      BY <1>1, <2>2 DEF IInv, TypeOK, Row
    <3>3. QED
      BY <1>1, <3>1, <3>2 DEF IInv, ReadIsSound, WriteIsNext
  <2>3. QED
    BY <2>1, <2>2
<1>7. QED
  BY <1>3, <1>4, <1>5, <1>6 DEF IInv

LEMMA SelectStep ==
  ASSUME IInv, NEW t \in Opt, Select(t) PROVE IInv'
<1>1. /\ t \in Threads /\ t \notin Pess
      /\ pc[t] = "select" /\ pc' = [pc EXCEPT ![t] = "update"]
      /\ account' = [account EXCEPT ![t] = Row(t)] /\ Row(t) # NoRow
      /\ UNCHANGED <<rows, owner, pending, deposits, faults, applied, lost, error>>
  BY AccountAssumption DEF Select, Go, table, ghosts, Threads
<1>2. Username[t] \in Inserted
  BY <1>1, SelectedRow
<1>3. TypeOK'
  BY <1>1, <1>2, FoundRow DEF IInv, TypeOK
<1>4. RowCountsDeposits' /\ OthersHaveNoRow' /\ OwnersDeposit'
  BY <1>1 DEF IInv, RowCountsDeposits, OthersHaveNoRow, OwnersDeposit
<1>5. ASSUME NEW s \in Threads PROVE ReadIsSound(s)' /\ WriteIsNext(s)'
  <2>1. CASE s = t
    <3>1. pc'[t] = "update" /\ account'[t] = Row(t)
      BY <1>1 DEF IInv, TypeOK
    <3>2. Row(t).balance = 1 + Row(t).version /\ Row(t) # NoRow
      BY <1>1, <1>2, FoundRow
    <3>3. QED
      BY <1>1, <1>2, <2>1, <3>1, <3>2 DEF ReadIsSound, WriteIsNext
  <2>2. CASE s # t
    BY <1>1, <2>2 DEF IInv, TypeOK, ReadIsSound, WriteIsNext, Row
  <2>3. QED
    BY <2>1, <2>2
<1>6. QED
  BY <1>3, <1>4, <1>5 DEF IInv

(* An update writes what the row is to become, if its thread has either    *)
(* locked the row or asked for the version it has read.                    *)
LEMMA UpdateStep ==
  ASSUME IInv, NEW t \in Threads, Update(t), t \in Pess \/ SameVersion(t) PROVE IInv'
<1>1. /\ pc[t] = "update" /\ pc' = [pc EXCEPT ![t] = "commit"]
      /\ owner[Username[t]] \in {nobody, t} /\ owner' = [owner EXCEPT ![Username[t]] = t]
      /\ pending' = [pending EXCEPT ![t] = [balance |-> account[t].balance + 1,
                                           version |-> Row(t).version + 1]]
      /\ UNCHANGED <<rows, deposits, account, faults, applied, lost, error>>
  BY DEF Update, Go, LockRow, SetRow, ghosts
<1>2. Username[t] \in Inserted /\ account[t] # NoRow /\ account[t].balance = 1 + account[t].version
  BY <1>1 DEF IInv, ReadIsSound
<1>3. account[t].balance = Row(t).balance
  <2>1. CASE t \in Pess
    BY <1>1, <2>1 DEF IInv, ReadIsSound
  <2>2. CASE SameVersion(t)
    BY <1>2, <2>2, FoundRow DEF SameVersion
  <2>3. QED
    BY <2>1, <2>2
<1>4. [balance |-> account[t].balance + 1, version |-> Row(t).version + 1] \in Accounts
  BY <1>2, <1>3, FoundRow DEF Accounts
<1>5. TypeOK'
  BY <1>1, <1>2, <1>4, FoundRow DEF IInv, TypeOK
<1>6. RowCountsDeposits' /\ OthersHaveNoRow'
  BY <1>1 DEF IInv, RowCountsDeposits, OthersHaveNoRow
<1>7. OwnersDeposit'
  BY <1>1 DEF IInv, TypeOK, OwnersDeposit
<1>8. ASSUME NEW s \in Threads PROVE ReadIsSound(s)' /\ WriteIsNext(s)'
  <2>1. CASE s = t
    <3>1. pc'[t] = "commit" /\ account'[t] = account[t] /\ Row(t)' = Row(t)
      BY <1>1 DEF IInv, TypeOK, Row
    <3>2. ReadIsSound(t)'
      BY <1>2, <3>1 DEF ReadIsSound
    <3>3. owner'[Username[t]] = t
      BY <1>1, <1>2, FoundRow DEF IInv, TypeOK
    <3>4. pending'[t] = [balance |-> Row(t).balance + 1, version |-> Row(t).version + 1]
      BY <1>1, <1>3 DEF IInv, TypeOK
    <3>5. QED
      BY <1>2, <2>1, <3>1, <3>2, <3>3, <3>4 DEF WriteIsNext
  <2>2. CASE s # t
    <3>1. owner[Username[s]] = s => owner'[Username[s]] = s
      BY <1>1, <2>2, AccountAssumption DEF IInv, TypeOK
    <3>2. pc'[s] = pc[s] /\ account'[s] = account[s] /\ Row(s)' = Row(s) /\ pending'[s] = pending[s]
      BY <1>1, <2>2 DEF IInv, TypeOK, Row
    <3>3. QED
      BY <3>1, <3>2 DEF IInv, ReadIsSound, WriteIsNext
  <2>3. QED
    BY <2>1, <2>2
<1>9. QED
  BY <1>5, <1>6, <1>7, <1>8 DEF IInv

(* The end of a transaction; only a thread that waits for its commit can   *)
(* have committed.                                                         *)
LEMMA EndStep ==
  ASSUME IInv, NEW t \in Threads, NEW committed \in BOOLEAN, NEW to \in {"begin", "abort", "returned"},
         EndTransaction(t, committed), pc' = [pc EXCEPT ![t] = to],
         \/ pc[t] = "commit"
         \/ pc[t] = "abort" /\ ~committed,
         account' \in {account, [account EXCEPT ![t] = NoRow]},
         faults' \in 0 .. MaxFaults, lost' \in [Threads -> Nat], error' \in [Threads -> BOOLEAN]
  PROVE  IInv'
<1> DEFINE u == Username[t]
           n == IF committed THEN 1 ELSE 0
<1>1. /\ rows' = IF committed THEN [rows EXCEPT ![u] = pending[t]] ELSE rows
      /\ owner' = IF owner[u] = t THEN [owner EXCEPT ![u] = nobody] ELSE owner
      /\ pending' = [pending EXCEPT ![t] = NoRow]
      /\ deposits' = [deposits EXCEPT ![u] = deposits[u] + n]
      /\ applied' = [applied EXCEPT ![t] = applied[t] + n]
  BY DEF EndTransaction
<1>2. u \in Users /\ n \in Nat
  BY AccountAssumption
<1>3. committed => u \in Inserted /\ owner[u] = t
                   /\ pending[t] = [balance |-> Row(t).balance + 1, version |-> Row(t).version + 1]
  BY DEF IInv, WriteIsNext
<1>4. \A v \in Users : owner'[v] # nobody => owner'[v] = owner[v] /\ owner'[v] # t
  BY <1>1, <1>2 DEF IInv, TypeOK, OwnersDeposit
<1>5. TypeOK'
  <2>1. rows' \in [Users -> Accounts \union {NoRow}] /\ owner' \in [Users -> Threads \union {nobody}]
    BY <1>1, <1>2 DEF IInv, TypeOK
  <2>2. pending' \in [Threads -> Accounts \union {NoRow}] /\ account' \in [Threads -> Accounts \union {NoRow}]
    BY <1>1 DEF IInv, TypeOK
  <2>3. deposits' \in [Users -> Nat] /\ applied' \in [Threads -> Nat]
    BY <1>1, <1>2 DEF IInv, TypeOK
  <2>4. pc' \in [Threads -> {"unborn", "connect", "begin", "select", "update", "commit",
                             "abort", "returned"}]
    BY DEF IInv, TypeOK
  <2>5. \A v \in Users : owner'[v] # nobody => pc'[owner'[v]] \in {"update", "commit", "abort"}
    BY <1>4 DEF IInv, TypeOK
  <2>6. QED
    BY <2>1, <2>2, <2>3, <2>4, <2>5 DEF TypeOK
<1>6. RowCountsDeposits' /\ OthersHaveNoRow'
  <2>1. CASE committed
    <3>1. Row(t) = [balance |-> 1 + deposits[u], version |-> deposits[u]] /\ deposits[u] \in Nat
      BY <1>3, <2>1, FoundRow
    <3>2. rows'[u] = [balance |-> 1 + (deposits[u] + 1), version |-> deposits[u] + 1]
      BY <1>1, <1>2, <1>3, <2>1, <3>1 DEF IInv, TypeOK
    <3>3. deposits'[u] = deposits[u] + 1
      BY <1>1, <1>2, <2>1 DEF IInv, TypeOK
    <3>4. \A v \in Users \ {u} : rows'[v] = rows[v] /\ deposits'[v] = deposits[v]
      BY <1>1, <1>2, <2>1 DEF IInv, TypeOK
    <3>5. QED
      BY <1>3, <2>1, <3>2, <3>3, <3>4, AccountAssumption DEF IInv, RowCountsDeposits, OthersHaveNoRow
  <2>2. CASE ~committed
    <3>1. rows' = rows /\ deposits' = deposits
      BY <1>1, <1>2, <2>2 DEF IInv, TypeOK
    <3>2. QED
      BY <3>1 DEF IInv, RowCountsDeposits, OthersHaveNoRow
  <2>3. QED
    BY <2>1, <2>2
<1>7. OwnersDeposit'
  BY <1>4 DEF IInv, OwnersDeposit
<1>8. ASSUME NEW s \in Threads PROVE ReadIsSound(s)' /\ WriteIsNext(s)'
  <2>1. CASE s = t
    <3>1. pc'[t] = to
      BY DEF IInv, TypeOK
    <3>2. account'[t] \in {account[t], NoRow}
      BY DEF IInv, TypeOK
    <3>3. QED
      BY <2>1, <3>1, <3>2 DEF IInv, ReadIsSound, WriteIsNext
  <2>2. CASE s # t
    <3>1. pc'[s] = pc[s] /\ account'[s] = account[s] /\ pending'[s] = pending[s]
      BY <1>1, <2>2 DEF IInv, TypeOK
    <3>2. owner[Username[s]] = s => owner'[Username[s]] = s /\ Row(s)' = Row(s)
      BY <1>1, <1>2, <1>3, <2>2, AccountAssumption DEF IInv, TypeOK, Row
    <3>3. QED
      BY <3>1, <3>2 DEF IInv, ReadIsSound, WriteIsNext
  <2>3. QED
    BY <2>1, <2>2
<1>9. QED
  BY <1>5, <1>6, <1>7, <1>8 DEF IInv

LEMMA InductiveStep == IInv /\ [Next]_vars => IInv'
<1> SUFFICES ASSUME IInv, [Next]_vars PROVE IInv'
  OBVIOUS
<1>1. CASE StartRound
  BY <1>1, RoundStep
<1>2. ASSUME NEW t \in Threads, Connect(t) \/ Begin(t) PROVE IInv'
  <2>1. PICK from \in {"connect", "begin"}, to \in {"begin", "select", "returned"} :
          /\ Go(t, from, to) /\ UNCHANGED <<table, account, applied, lost>>
          /\ (faults' = faults /\ error' = error) \/ Fault(t)
    BY <1>2 DEF Connect, Begin, Open
  <2>2. faults' \in 0 .. MaxFaults /\ error' \in [Threads -> BOOLEAN] /\ lost' \in [Threads -> Nat]
    BY <2>1, FaultTypes DEF IInv, TypeOK
  <2>3. QED
    BY <2>1, <2>2, QuietStep
<1>3. ASSUME NEW t \in Threads, NotFound(t) PROVE IInv'
  <2>1. faults' \in 0 .. MaxFaults /\ error' \in [Threads -> BOOLEAN] /\ lost' \in [Threads -> Nat]
    BY <1>3 DEF NotFound, IInv, TypeOK
  <2>2. QED
    BY <1>3, <2>1, QuietStep DEF NotFound
<1>4. ASSUME NEW t \in Threads, StatementFails(t) PROVE IInv'
  <2>1. PICK at \in {"select", "update", "commit"} : Go(t, at, "abort")
    BY <1>4 DEF StatementFails
  <2>2. faults' \in 0 .. MaxFaults /\ error' \in [Threads -> BOOLEAN] /\ lost' \in [Threads -> Nat]
    BY <1>4, FaultTypes DEF StatementFails, IInv, TypeOK
  <2>3. QED
    BY <1>4, <2>1, <2>2, QuietStep DEF StatementFails
<1>5. ASSUME NEW t \in Threads, Commit(t) \/ Abort(t) PROVE IInv'
  <2>1. faults' \in 0 .. MaxFaults /\ error' \in [Threads -> BOOLEAN] /\ lost' \in [Threads -> Nat]
    BY <1>5 DEF Commit, Abort, IInv, TypeOK
  <2>2. CASE Commit(t)
    BY <2>1, <2>2, EndStep DEF Commit, Go
  <2>3. CASE Abort(t)
    BY <2>1, <2>3, EndStep DEF Abort, Go
  <2>4. QED
    BY <1>5, <2>2, <2>3
<1>6. ASSUME NEW t \in Threads, CommitInDoubt(t) PROVE IInv'
  <2>1. faults' \in 0 .. MaxFaults /\ error' \in [Threads -> BOOLEAN] /\ lost' \in [Threads -> Nat]
    BY <1>6, FaultTypes DEF CommitInDoubt, IInv, TypeOK
  <2>2. QED
    BY <1>6, <2>1, EndStep DEF CommitInDoubt, Go
<1>7. ASSUME NEW t \in Pess, PessStep(t) PROVE IInv'
  BY <1>7, SelectForUpdateStep, UpdateStep DEF PessStep, Threads
<1>8. ASSUME NEW t \in Opt, OptStep(t) PROVE IInv'
  <2>1. t \in Threads
    BY DEF Threads
  <2>2. CASE Select(t)
    BY <2>2, SelectStep
  <2>3. CASE SameVersion(t) /\ Update(t)
    BY <2>1, <2>3, UpdateStep
  <2>4. CASE Go(t, "update", "abort") /\ UNCHANGED <<table, todo, account, faults, ghosts>>
    <3>1. faults' \in 0 .. MaxFaults /\ error' \in [Threads -> BOOLEAN] /\ lost' \in [Threads -> Nat]
      BY <2>4 DEF ghosts, IInv, TypeOK
    <3>2. QED
      BY <2>1, <2>4, <3>1, QuietStep DEF ghosts
  <2>5. QED
    BY <1>8, <2>2, <2>3, <2>4 DEF OptStep, UpdateOpt
<1>9. CASE UNCHANGED vars
  <2>1. UNCHANGED <<rows, owner, pending, deposits, pc, account, faults, applied, lost, error>>
    BY <1>9 DEF vars, table, ghosts
  <2>2. TypeOK' /\ RowCountsDeposits' /\ OthersHaveNoRow' /\ OwnersDeposit'
    BY <2>1 DEF IInv, TypeOK, RowCountsDeposits, OthersHaveNoRow, OwnersDeposit
  <2>3. QED
    BY <2>1, <2>2 DEF IInv, ReadIsSound, WriteIsNext, Row
<1>10. QED
  BY <1>1, <1>2, <1>3, <1>4, <1>5, <1>6, <1>7, <1>8, <1>9 DEF Next, Step, Statement, Ended
-----------------------------------------------------------------------------
(* Rows, reads and writes keep their types, and a row is locked by a       *)
(* thread within its transaction only.                                     *)
THEOREM TypeCorrectness == Spec => []TypeOK
<1>1. IInv => TypeOK
  BY DEF IInv
<1>2. QED
  BY <1>1, InitialState, InductiveStep, PTL DEF Spec

(* No deposit is lost: balance and version of every row count the deposits *)
(* that were committed to it, with locking and version-checking threads on *)
(* the same row and with any number of failures.                           *)
THEOREM NoDepositIsLost == Spec => []RowCountsDeposits
<1>1. IInv => RowCountsDeposits
  BY DEF IInv
<1>2. QED
  BY <1>1, InitialState, InductiveStep, PTL DEF Spec
-----------------------------------------------------------------------------
(* Threads that main has yet to start have not begun, and are started once.*)
StartedOnce ==
  /\ todo \in Seq(SUBSET Threads)
  /\ \A i \in DOMAIN todo : \A t \in todo[i] : pc[t] = "unborn"
  /\ \A i, j \in DOMAIN todo : i # j => todo[i] \intersect todo[j] = {}

(* How often a thread can have deposited where it is: as often as it was   *)
(* not told of a commit, and once when it has returned.                    *)
AppliedSoFar(t) ==
  /\ ~error[t] => lost[t] = 0
  /\ t \in Opt => applied[t] <= lost[t] + IF pc[t] = "returned" THEN 1 ELSE 0
  /\ t \in Pess => applied[t] <= IF pc[t] \in {"abort", "returned"} THEN 1 ELSE 0
  /\ t \in Pess /\ pc[t] = "abort" => error[t]
  /\ pc[t] = "returned" /\ ~error[t] => applied[t] = 1

OnceInv == IInv /\ StartedOnce /\ \A t \in Threads : AppliedSoFar(t)

LEMMA OnceInitially == Init => OnceInv
<1> SUFFICES ASSUME Init PROVE OnceInv
  OBVIOUS
<1>1. StartedOnce
  <2>1. /\ todo \in Seq(SUBSET Threads)
        /\ \A i, j \in DOMAIN todo : i # j => todo[i] \intersect todo[j] = {}
    BY AccountAssumption DEF Init
  <2>2. \A i \in DOMAIN todo : todo[i] \subseteq Threads
    BY <2>1
  <2>3. QED
    BY <2>1, <2>2 DEF Init, StartedOnce
<1>2. \A t \in Threads : AppliedSoFar(t)
  BY DEF Init, AppliedSoFar
<1>3. QED
  BY <1>1, <1>2, InitialState DEF OnceInv

(* A step of one thread: the others stay as they are.                      *)
LEMMA OneThread ==
  ASSUME OnceInv, IInv', NEW t \in Threads, pc[t] # "unborn", UNCHANGED todo,
         \A s \in Threads \ {t} : /\ pc'[s] = pc[s] /\ applied'[s] = applied[s]
                                 /\ lost'[s] = lost[s] /\ error'[s] = error[s],
         AppliedSoFar(t)'
  PROVE  OnceInv'
<1>1. StartedOnce'
  <2>1. \A i \in DOMAIN todo : todo[i] \subseteq Threads
    BY DEF OnceInv, StartedOnce
  <2>2. QED
    BY <2>1 DEF OnceInv, StartedOnce
<1>2. ASSUME NEW s \in Threads PROVE AppliedSoFar(s)'
  BY DEF OnceInv, AppliedSoFar
<1>3. QED
  BY <1>1, <1>2 DEF OnceInv

LEMMA OnceStartRound == ASSUME OnceInv, IInv', StartRound PROVE OnceInv'
<1>1. /\ todo # <<>> /\ todo' = Tail(todo)
      /\ pc' = [t \in Threads |-> IF t \in Head(todo) THEN "connect" ELSE pc[t]]
      /\ UNCHANGED <<applied, lost, error>>
  BY DEF StartRound, ghosts
<1>2. todo \in Seq(SUBSET Threads) /\ 1 \in DOMAIN todo /\ Head(todo) = todo[1]
  BY <1>1 DEF OnceInv, StartedOnce
<1>3. /\ todo' \in Seq(SUBSET Threads)
      /\ \A i \in DOMAIN todo' : i + 1 \in DOMAIN todo /\ todo'[i] = todo[i + 1] /\ i + 1 # 1
  BY <1>1, <1>2
<1>4. StartedOnce'
  <2>1. ASSUME NEW i \in DOMAIN todo', NEW t \in todo'[i] PROVE pc'[t] = "unborn"
    <3>1. t \in todo[i + 1] /\ t \notin todo[1]
      BY <1>2, <1>3, <2>1 DEF OnceInv, StartedOnce
    <3>2. pc[t] = "unborn" /\ t \in Threads
      BY <1>2, <1>3, <3>1 DEF OnceInv, StartedOnce
    <3>3. QED
      BY <1>1, <1>2, <3>1, <3>2
  <2>2. ASSUME NEW i \in DOMAIN todo', NEW j \in DOMAIN todo', i # j
        PROVE  todo'[i] \intersect todo'[j] = {}
    <3>1. i + 1 # j + 1
      BY <1>3, <2>2
    <3>2. QED
      BY <1>3, <3>1 DEF OnceInv, StartedOnce
  <2>3. QED
    BY <1>3, <2>1, <2>2 DEF StartedOnce
<1>5. ASSUME NEW t \in Threads PROVE AppliedSoFar(t)'
  <2>1. CASE t \in Head(todo)
    <3>1. pc[t] = "unborn" /\ pc'[t] = "connect"
      BY <1>1, <1>2, <2>1 DEF OnceInv, StartedOnce
    <3>2. QED
      BY <1>1, <3>1 DEF OnceInv, AppliedSoFar
  <2>2. CASE t \notin Head(todo)
    BY <1>1, <2>2 DEF OnceInv, AppliedSoFar
  <2>3. QED
    BY <2>1, <2>2
<1>6. QED
  BY <1>4, <1>5 DEF OnceInv

(* Steps in which t goes somewhere and deposits nothing.                   *)
LEMMA OnceQuiet ==
  ASSUME OnceInv, IInv', NEW t \in Threads, NEW from, NEW to,
         Go(t, from, to), UNCHANGED <<todo, applied, lost>>,
         error' = error \/ error' = [error EXCEPT ![t] = TRUE],
         from \in {"connect", "begin", "select", "update", "commit", "abort"},
         \/ to \in {"begin", "select", "update", "commit"} /\ (from = "abort" => t \notin Pess)
         \/ to = "abort" /\ (t \in Pess => error'[t])
         \/ to = "returned" /\ error'[t]
  PROVE  OnceInv'
<1>1. pc[t] = from /\ pc' = [pc EXCEPT ![t] = to] /\ pc'[t] = to
  BY DEF Go, OnceInv, IInv, TypeOK
<1>2. \A s \in Threads \ {t} : pc'[s] = pc[s] /\ error'[s] = error[s]
  BY <1>1 DEF OnceInv, IInv, TypeOK
<1>3. error[t] => error'[t]
  BY DEF OnceInv, IInv, TypeOK
<1>4. applied[t] \in Nat /\ lost[t] \in Nat
  BY DEF OnceInv, IInv, TypeOK
<1>5. AppliedSoFar(t)'
  BY <1>1, <1>3, <1>4 DEF OnceInv, AppliedSoFar
<1>6. QED
  BY <1>1, <1>2, <1>5, OneThread

LEMMA OnceCommit ==
  ASSUME OnceInv, IInv', NEW t \in Threads, Commit(t) PROVE OnceInv'
<1>1. /\ pc[t] = "commit" /\ pc' = [pc EXCEPT ![t] = "returned"]
      /\ applied' = [applied EXCEPT ![t] = applied[t] + 1]
      /\ UNCHANGED <<todo, lost, error>>
  BY DEF Commit, Go, EndTransaction
<1>2. pc'[t] = "returned" /\ applied'[t] = applied[t] + 1 /\ applied[t] \in Nat /\ lost[t] \in Nat
  BY <1>1 DEF OnceInv, IInv, TypeOK
<1>3. t \in Pess \/ t \in Opt
  BY DEF Threads
<1>4. AppliedSoFar(t)'
  BY <1>1, <1>2, <1>3 DEF OnceInv, AppliedSoFar
<1>5. \A s \in Threads \ {t} : pc'[s] = pc[s] /\ applied'[s] = applied[s]
  BY <1>1 DEF OnceInv, IInv, TypeOK
<1>6. QED
  BY <1>1, <1>4, <1>5, OneThread

LEMMA OnceInDoubt ==
  ASSUME OnceInv, IInv', NEW t \in Threads, CommitInDoubt(t) PROVE OnceInv'
<1>1. PICK n \in {0, 1} :
        /\ pc[t] = "commit" /\ pc' = [pc EXCEPT ![t] = "abort"]
        /\ applied' = [applied EXCEPT ![t] = applied[t] + n]
        /\ lost' = [lost EXCEPT ![t] = lost[t] + 1]
        /\ error' = [error EXCEPT ![t] = TRUE]
        /\ UNCHANGED todo
  BY DEF CommitInDoubt, Go, EndTransaction, Fault
<1>2. /\ pc'[t] = "abort" /\ applied'[t] = applied[t] + n /\ lost'[t] = lost[t] + 1 /\ error'[t]
      /\ applied[t] \in Nat /\ lost[t] \in Nat
  BY <1>1 DEF OnceInv, IInv, TypeOK
<1>3. AppliedSoFar(t)'
  BY <1>1, <1>2 DEF OnceInv, AppliedSoFar
<1>4. \A s \in Threads \ {t} : /\ pc'[s] = pc[s] /\ applied'[s] = applied[s]
                              /\ lost'[s] = lost[s] /\ error'[s] = error[s]
  BY <1>1 DEF OnceInv, IInv, TypeOK
<1>5. QED
  BY <1>1, <1>3, <1>4, OneThread

LEMMA OnceAbort ==
  ASSUME OnceInv, IInv', NEW t \in Threads, Abort(t) PROVE OnceInv'
<1>1. /\ Go(t, "abort", IF t \in Opt THEN "begin" ELSE "returned")
      /\ UNCHANGED <<todo, lost, error>>
      /\ applied' = [applied EXCEPT ![t] = applied[t] + 0]
  BY DEF Abort, EndTransaction
<1>2. applied' = applied
  BY <1>1 DEF OnceInv, IInv, TypeOK
<1>3. t \in Pess => error[t]
  BY <1>1 DEF Go, OnceInv, AppliedSoFar
<1>4. QED
  BY <1>1, <1>2, <1>3, OnceQuiet, AccountAssumption DEF Threads

LEMMA OnceStep == OnceInv /\ [Next]_vars => OnceInv'
<1> SUFFICES ASSUME OnceInv, [Next]_vars PROVE OnceInv'
  OBVIOUS
<1>1. IInv'
  BY InductiveStep DEF OnceInv
<1>2. CASE StartRound
  BY <1>1, <1>2, OnceStartRound
<1>3. ASSUME NEW t \in Threads, Statement(t) PROVE OnceInv'
  <2>1. Fault(t) => error' = [error EXCEPT ![t] = TRUE] /\ error'[t]
    BY DEF Fault, OnceInv, IInv, TypeOK
  <2>2. CASE Connect(t) \/ Begin(t)
    BY <1>1, <2>1, <2>2, OnceQuiet DEF Connect, Begin, Open
  <2>3. CASE NotFound(t)
    <3>1. error' = [error EXCEPT ![t] = TRUE] /\ error'[t]
      BY <2>3 DEF NotFound, OnceInv, IInv, TypeOK
    <3>2. QED
      BY <1>1, <2>3, <3>1, OnceQuiet DEF NotFound
  <2>4. CASE StatementFails(t)
    BY <1>1, <2>1, <2>4, OnceQuiet DEF StatementFails
  <2>5. QED
    BY <1>1, <1>3, <2>2, <2>3, <2>4, OnceCommit, OnceInDoubt, OnceAbort DEF Statement
<1>4. ASSUME NEW t \in Threads, t \in Pess, PessStep(t) PROVE OnceInv'
  BY <1>1, <1>4, OnceQuiet DEF PessStep, SelectForUpdate, Update, ghosts
<1>5. ASSUME NEW t \in Threads, t \in Opt, OptStep(t) PROVE OnceInv'
  <2>1. t \notin Pess
    BY <1>5, AccountAssumption
  <2>2. QED
    BY <1>1, <1>5, <2>1, OnceQuiet DEF OptStep, Select, UpdateOpt, Update, ghosts
<1>6. CASE UNCHANGED vars
  BY <1>1, <1>6 DEF vars, ghosts, OnceInv, StartedOnce, AppliedSoFar
<1>7. QED
  BY <1>2, <1>3, <1>4, <1>5, <1>6 DEF Next, Step, Ended

(* A deposit that returns without an error was made once, and only a       *)
(* commit whose answer was lost can make depositOpt do it again.           *)
THEOREM DepositsAreAppliedOnce == Spec => []AppliedOnce
<1>1. OnceInv => AppliedOnce
  <2> SUFFICES ASSUME OnceInv, NEW t \in Threads
               PROVE  /\ pc[t] = "returned" /\ ~error[t] => applied[t] = 1
                      /\ applied[t] <= 1 + IF t \in Opt THEN lost[t] ELSE 0
    BY DEF AppliedOnce
  <2>1. applied[t] \in Nat /\ lost[t] \in Nat /\ (t \in Pess \/ t \in Opt)
    BY DEF OnceInv, IInv, TypeOK, Threads
  <2>2. QED
    BY <2>1 DEF OnceInv, AppliedSoFar
<1>2. QED
  BY <1>1, OnceInitially, OnceStep, PTL DEF Spec
=============================================================================
