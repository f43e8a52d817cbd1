# Verification of the Optimistic-locking project

TLA+ models of the hybrid lock, its guard, the epoch-based memory reclamation, the
two sorted lists, the two account repositories and the unit test runner of this
repository, TLC runs that check them on small instances, and TLAPS proofs about
all of them for every value of their parameters: each safety invariant, action property
and refinement that a passing run checks is also a theorem. Paths below are relative to `src/project/`; `lock.cc` stands for `src/sync/lock.cc`, and
so on.

## The system

| Part | State | Operations | Used by |
|---|---|---|---|
| `HybridLock` (`sync/lock`) | one atomic 64-bit word: a state byte (0 unlocked, 1..254 readers, 255 exclusive) over a 56-bit version | `TryLockExclusive`, `TryLockShared`, `UpgradeLock`, `UnlockExclusive`, `UnlockShared`, `DowngradeLock` | guard, lock tests |
| `HybridGuard` (`sync/guard`) | lock pointer, mode, snapshot of the word | constructor (spins), `Unlock`, `OptimisticLock`, `ValidateOptimisticLock`, `operator=`, destructor | lists, guard tests |
| `EpochHandler` (`sync/epoch`) | global epoch, one local epoch and one bag of retired pointers per thread slot | `AdvanceGlobalEpoch`, `FreeOutdatedPtr`, `DeferFreePointer`, destructor | optimistic list, epoch test |
| `EpochGuard` (`sync/epoch`) | pointer to a local epoch | constructor, destructor | optimistic list, epoch test |
| `OptimisticSortedList` (`list/list`) | sorted linked list, one `HybridLock`, an `EpochHandler` | `Insert`, `LookUp` (optimistic), `Delete` | list benchmark |
| `MutexSortedList` (`list/list`) | sorted linked list, a `std::shared_mutex` | `Insert`, `LookUp`, `Delete` | list benchmark |
| thread ids (`common/utils`) | a counter, one `thread_local` id | `InitializeThread` | lists |
| segfault handler (`common/utils`) | none | throws `RestartException` from a signal handler | nobody registers it |
| account repositories (`postgresql`) | rows of a PostgreSQL table | `deposit` (row lock), `depositOpt` (version column) | benchmark `main` |
| unit test runner (`common/utest.h`) | registered tests, options, counts, lists of failed and skipped tests | `UTEST` (registration), `utest_main`, `utest_should_filter_test`, the checks in test bodies | all test programs |
| test drivers (`test`) | a counter under a lock or guard; semaphores and pointers under epochs | thread bodies | |

`PROJECT.json` lists them with what is modelled of each.

What interacts: guards call the lock; the optimistic list calls the guard for its
lock, `EpochGuard` and `DeferFreePointer` for its nodes; the epoch scan of one
thread reads the slots of all others. The deposits of different threads meet in the
rows of the server, one statement at a time, and a statement, a connection or a commit
may fail. Apart from that there is no message and no persistent state: the hard
behaviour is interleaving. A word that was loaded
earlier is compared or overwritten later; an optimistic reader runs against a
writer; a scan over several atomics is not a snapshot; a restart loop must end; a
counter has a width.

What makes each part correct:

- **Lock**: at most one exclusive holder and never beside a reader; the state byte
  counts the holders; no update of the word is lost; the asserts hold; the version
  counts the exclusive sections.
- **Guard**: every path through a scope returns exactly what was taken; what was
  read under a validated optimistic guard is what a lock would have shown; restarts
  and spins end when writers do.
- **Epochs**: a pointer is freed once, and not while a reader may hold it; nothing
  outdated stays behind.
- **Lists**: linearizable operations of a sorted set of values; no access to freed nodes.
- **Accounts**: no deposit is lost, none is repeated without need, and all return.
- **Test runner**: the selected tests run once each, and the report and the exit
  status say what happened in them.

## Modules

| Module | Models | Kind |
|---|---|---|
| `HybridWord` | the word and the functions on it, with the carry of the version | data |
| `ReadWriteLock` | what the lock promises: a reader-writer lock with upgrade and downgrade that counts its exclusive sections | abstract specification |
| `HybridLock` | threads that call the lock's operations | component |
| `HybridLockProofs` | invariants of the lock, and that it implements `ReadWriteLock` | proofs |
| `HybridGuard` | guards in the scopes of threads, over `HybridLock` | composition |
| `HybridGuardProofs` | guards are callers the lock expects, and account for its state | proofs |
| `GuardedCounter` | the guard test (`test/epoch.cc`), over `HybridGuard` | composition, client |
| `GuardedCounterProofs` | what a validated read is worth | proofs |
| `EpochHandler` | the calls on the epoch handler and its guards | component |
| `EpochReclamation` | `EpochHandler` with clients that reach, retire and reclaim pointers | composition |
| `EpochReclamationProofs` | grace period, order of the bags, where the pointers are | proofs |
| `SortedSet` | what a sorted list promises: a set with atomic operations | abstract specification |
| `ListHeap` | the nodes and the sequential parts of the list operations | data |
| `ListThreads` | threads in calls of a list: the state and the steps that both lists have, over `ListHeap`, `EpochHandler` and `ReadWriteLock` | component |
| `OptimisticList` | the operations of `OptimisticSortedList` | component |
| `MutexList` | the operations of `MutexSortedList` | component |
| `SortedLists` | a program that uses either list, and the properties of both | composition |
| `ListHeapProofs` | the walk, linking, unlinking, overwriting, on lists of any length | proofs |
| `SortedListsProofs` | invariants of both lists, and that they implement `SortedSet` | proofs |
| `ReclaimedList` | `SortedLists` with a client that reclaims memory | composition, client |
| `AccountDeposit` | `deposit` and `depositOpt` of many threads, and the rows of the server | component with external part |
| `AccountDepositProofs` | invariants of the deposits | proofs |
| `TestFilter` | `utest_should_filter_test`, and what a filter is meant to select | algorithm with reference |
| `UnitTests` | registration and `utest_main` | component |
| `UnitTestsProofs` | what the filter selects, and the promises of the runner | proofs |
| `MCHybridLock`, `MCHybridGuard`, `MCGuardedCounter`, `MCEpochReclamation`, `MCSortedLists`, `MCAccountDeposit`, `MCUnitTests` | instances for TLC | |

### The lock

A step is one atomic access to `state_and_version_`. A caller loads the word
(`StateAndVersion`) and passes it to an attempt, which compares and exchanges: two
steps. `UnlockShared` is its loop: load and assert, then exchange or retry.
`UnlockExclusive` and `DowngradeLock` are three steps, because the code loads for
the assert, loads again and stores. The weak exchanges may fail spuriously. A failed
assert sends the thread to `aborted` and stops the process. `held` is a ghost: what
the thread holds by the return values it got. `Step` adds the only thing demanded of
callers, that they release what they hold and attempt what they do not.

The word is a record. The two fields meet in one place, the carry of
`NextVersionNewState`, which the code does not mask: with the OR of the state byte
it makes an even new state odd: an `UnlockExclusive` at the last version leaves the state
byte at one reader whom nobody can release, and no exclusive attempt succeeds again.
`ExactUntilTheWrap` says that nothing else makes the state byte inexact,
`CountsAtMostOneTooMany` that this is all the wrap does: no reader is missing from the
count, and none is added twice. `VERSION_LIMIT` stands for 2^56.

### The guard

`HybridGuard` instantiates `HybridLock` with the guards as its users, so that every
call of a guard is the lock's own step. `life` says whether a guard is out of scope,
in its constructor or alive; a user who calls `OptimisticLock` once more takes an
optimistic guard back to the wait and the snapshot of its constructor
(`CallOptimisticLock`). `mode` and `seen` are `mode_` and `state_`. A thread
(`Owner`) is in one call at a time. A `RestartException` is the end of a validation
in which `Valid` is false; the destructor validates or unlocks first and then the
guard goes out of scope. `MoveAssign` copies and leaves the source alone, as
`operator=` does.

### The guarded counter

Each thread of `TestGuard.NormalOperation` is a loop of `Begin`, `Enter`, the loads
and stores of the plain `int`, `LeavePessimistic` or `LeaveOptimistic`, and `End`.
The increment and the check of the test are two accesses each, so an optimistic
reader can see a value go by between its two loads.

### The epochs

`EnterLoad` and `EnterStore` are the two halves of the `EpochGuard` constructor,
`ScanSlot` loads one slot, `FreeNext` frees one pointer and `EraseFreed` ends the
call. A thread's bag is touched by that thread only, so `DeferFreePointer` is part of
the step that takes the pointer out of the structure. These calls are the module
`EpochHandler`; who makes them is up to its users.

In `EpochReclamation` the user is a shared structure reduced to what can be reached:
`linked` are the pointers in it, and `visible[t]` those thread `t` may come across
until its guard ends, which are the ones linked when its epoch was stored (it can walk
to a pointer through others that were taken out meanwhile). `RetireAt` says where
threads defer; the runs say `{"inside"}`, as the epoch test does, and call
`FreeOutdatedPtr` outside of guards like the test. `MAX_VALUE` is any number above the
bounded epochs; the global epoch itself does not wrap (2^64).

### The lists

`ListHeap` holds the nodes and what the loops of `Insert` and `Delete` compute:
`Stop` is where they end, with `current` and `prev`. A value is a key, all that
`<=>` looks at, and data. In `ListThreads` each thread is in a call (`call`, `at`);
`kind` says which of the two classes the program uses.

A lookup takes a step per node (`Visit`). In `MutexList` it runs between `LockShared`
and `UnlockShared`; in `OptimisticList` it is `EnterEpoch` (two steps),
`OptimisticLock`, `LoadRoot`, the visits, `Validate` and `LeaveEpoch`, and a failed
validation leaves the epoch and starts over. It sees the heap as it is at each step,
nodes unlinked under it included. `Insert` and `Delete` run under the exclusive lock
and change what a lookup sees one store at a time. `InsertNew` is two steps, the
construction of the node in memory that only the thread has, with its `next` pointer, and
the store that links it; a lookup in between sees the old list. Unlinking is one step;
overwriting a value is two, and the value is `Torn` in between. (A
copy of a torn `std::string` may do worse than return rubbish; that is left out.)
`MutexDelete` frees its node in the same step (`deleted`), `OptimisticDelete` defers
it with no epoch guard around it, as the code does. `DereferencesNull` is the case in
which `Insert` of either list uses `prev` before there is one: the process ends
(`crashed`).

The lock is `ReadWriteLock`, the specification that `HybridLock` is shown to
implement; a guard's spin is a wait. The same module stands for `std::shared_mutex`,
whose library is external. Nobody in the repository calls `FreeOutdatedPtr` or
`AdvanceGlobalEpoch` for the list, so that nothing is freed before the destructors;
`ReclaimedList` adds a client that does, between its calls. `DestroyList` and
`DestroyHandler` are the two destructors in the order of `test/test.cc`. The ids of
the threads are the indices of the slots.

`SortedSet` has one action per operation, between `Call` and `Return`. Under the
refinement mapping an update takes effect at its first visible store, a lookup at
its successful validation or, in the mutex list, at the end of its walk.

### The deposits

A step of `AccountDeposit` is a statement that a thread sends to the server, or the
end of its transaction. `pc` says which one comes next and `account` is the row that
the thread read. The server is external and modelled from how the code uses it: a
select reads the committed row, the row lock of `FOR NO KEY UPDATE` or of an `UPDATE`
is held until the transaction ends (`owner`), and an `UPDATE` that waited for a row
looks at its `WHERE` clause again on what is committed by then, as PostgreSQL does
under READ COMMITTED. `pending` is what a transaction has written; `EndTransaction`
commits it or drops it.

A statement may fail (`StatementFails`), and so may the connection while the answer to
`COMMIT` is awaited (`CommitInDoubt`): the deposit may have been made or not, and is
decided at once, since libpqxx tells the client nothing more. `Abort` is the end of
the catch block: `deposit` returns, `depositOpt` starts over, whatever the exception
was, so that an account that does not exist makes it try for ever. A broken connection
may come back, as libpqxx 6 does it, or stay broken: a failure to connect or to open a
transaction is outside the `try` of the deposit and ends the thread (`Open`). `todo`
are the sets of threads that main starts in turn: the runs look at the program of
`main`, one kind after the other, and at both kinds started at once. `main` gives each
thread of one kind an account of its own; the runs put several threads on one account,
which is what the two classes are for.

Balances count deposits of one amount; `NUMERIC(10, 2)` and the `double` are left out.
`deposits`, `applied`, `lost` and `error` are ghosts: the deposits committed to a row
and by a thread, the commits whose outcome a thread was not told, and whether it has
written an error.

### The unit tests

`UnitTests` starts with the initializers that `UTEST` defines (`Register`), then is
`utest_main` from the options to the exit status. The actions follow its loops, an
iteration a step; `index` is its loop counter. What a test does is open but for what
the runner sees of it: `ExpectFails`, `AssertFails`, `SkipTest`, `Throw`, its end, or
the end of the process (`Terminate`). A `realloc` that fails frees the array and leaves
its length as it was, so that the elements before the next success are `Garbage`; to
print them is undefined behaviour, which either ends the program or prints something.
A lost list of tests ends the program in `Main`, where the code would get as far as the
first lost entry; no property is about the steps in between.
The PCG shuffle may choose any test not yet placed.

`TestFilter` translates the two loops of `utest_should_filter_test`: `Iterate` is one
iteration of either, from a position in the filter and one in the name, with the
wildcard whose loop it is in, and `Scan` is the positions one after the other. `Matches`
is the reference: a `*` stands for any characters (`Ends` are the places in the name
that a part of the filter may reach). The scan is sound but not
complete: after a mismatch behind a wildcard it goes on with the next character of the
name and never looks at the same one again, a filter used up before the name does not
start over, and a wildcard at its end needs a character. `*ab` misses `aab`, `*a`
misses `aba`, and `ab*` misses `ab`. `FilterIsSound` therefore says that no test too
many runs.

### Memory model

Accesses of all threads interleave sequentially. The atomics of the
code are sequentially consistent but for two release stores, which lose nothing here
since they are only read by the same atomics; the plain data of the clients is read
in program order before the validating load, as it is on x86.

## Runs

| Run | Shows |
|---|---|
| `lock_safety` | three threads, reader limit 2, a version that wraps after four sections: types, `Exclusion`, `AssertionsHold`, `ReleaseLosesNoUpdate`, `ExactUntilTheWrap`, `CountsAtMostOneTooMany`, refinement of `ReadWriteLock`, which counts modulo the width |
| `guard_safety` | three guards of two threads: the guards in scope account exactly for the state byte, the asserts hold |
| `guard_move` | *violation*: a moved exclusive guard is unlocked twice, the assert of `UnlockExclusive` fails |
| `counter` | two writers, two readers: validated reads are current, no increment lost, at most one restart per exclusive section, all operations complete |
| `epoch_safety` | three threads, two pointers, epochs 0..2: the grace period, every pointer in one place, nothing outdated left in a bag |
| `lists` | either list, a reader and two writers, one call each, on two nodes: ascending order, refinement of `SortedSet`, every node in one place with the destructors included, no access to freed nodes nor to memory that is no node yet, every call returns |
| `accounts` | pessimistic and optimistic deposits, in turn and up to three at once, one of either kind to a missing account, up to two failures: balance and version count the deposits, none is applied twice but after a commit in doubt, all return |
| `unit_tests` | four tests with every outcome, all filters of up to five characters, options in combination, one failed allocation: the selected tests run once each, the report and the status are right, the filter is sound |
| `list_crash` | *violation*: inserting the key of the first node dereferences a null pointer, in both lists |
| `list_result` | *violation*: a lookup that restarted and then found nothing has changed its caller's variable |
| `list_use_after_free` | *violation*: with a client that reclaims, a node deferred with the tag 0 is freed under a lookup that stands on it |
| `epoch_use_after_free` | *violation*: a pointer is freed under a reader that entered one epoch later than the retiring thread |

Bounds. Three users of the lock are two that conflict and one that slips between them; a
limit of two readers is reached by two and refused to the third, and is smaller than the
number of users, as 254 may be. In `lock_safety` the version has four values and
`MaxVersion` bounds nothing, so that there are runs through the wrap with an unlock,
which adds a reader for good, and with a downgrade, which does not and lets the version
wrap again. In the runs with guards `MaxVersion` stops new exclusive guards before that.
Three guards give a thread with two guards in scope and another thread. In the counter,
one operation per thread lets two writers pass during a reader's attempts. Three slots
let a scan be overtaken on either side of its position, two pointers give a bag an
order, and three epochs separate the tag, the reader and the present. `MaxEpoch` stops
`AdvanceGlobalEpoch`, nothing else. In the list, one lookup meets two updates at any of
its steps, before, at and behind the key it looks for, and two are enough to make a
snapshot stale, make the lookup stand on an unlinked node, and change the list once
more; `Nodes` is as many as the calls can allocate and none is reused, so the runs say
nothing of a node that is freed and handed out again. Nobody reclaims memory in `lists`,
as nobody does in the repository: for the optimistic list `NoUseAfterFree` there only
says that the destructors come last, and what deferring is worth with a client that
reclaims is looked at in `list_use_after_free`. For the mutex list, which frees at once,
it is the shared lock that keeps it. In `list_use_after_free` two calls per thread let
one delete before and after its first lookup, which is where the tags differ. Lists with
more nodes repeat the same positions relative to the key. Of the deposits, two of one
kind, or two of one and one of the other, meet on one account in every order of their
statements; the third of either kind has an account that was not inserted. Two failures
(`MaxFaults`) hit one thread twice, or two threads: a commit in doubt and then a failing
retry are among them. Four tests give each outcome a neighbour, before and after it, and
the shuffle something to do; five characters of filter hold two wildcards with a letter
before, between and behind them, and names of one to four letters make them mismatch,
start over, and end early or late. One lost allocation (`MaxLost`) may hit the list of
tests or either list of results, before a later success. Deadlock is checked in every
run; where a program is finished the module says so with a step of its own.

Fairness. In `lists` each thread is scheduled (weak fairness of its steps), and calls
are finite in number; `EveryCallReturns` excepts the crash of `list_crash`. In
`counter` each thread is scheduled, and a thread that can complete its unlock again
and again does so once (strong fairness). The second half says that
`compare_exchange_weak` does not fail spuriously for ever; the operations of the other
threads are finite, so it does not hide contention. No fairness is assumed between
attempts to lock: the lock gives none, and with an endless stream of readers a writer
would wait for ever. In `accounts` `main` and each thread are scheduled and the server
answers (weak fairness of `StartRound` and of the steps of each thread). A thread that
waits for a row gets it because deposits are finite in number and a commit of one is
what lets the version check of another fail; with an endless stream of deposits
`depositOpt` could retry for ever. Failures are bounded by `MaxFaults`.

## Proofs

Eight modules hold proofs. Each theorem is listed with the hypotheses it has beyond the
named assumptions of the modules, which say that the sets of threads, guards, nodes and
so on are finite and the numbers natural.

| Theorem | Statement | Hypothesis |
|---|---|---|
| **`HybridLockProofs`** | | |
| `TypeCorrectness` | `Spec => []TypeOK`, by which the state byte stays in 0..255 | |
| `MutualExclusion` | `Spec => []Exclusion` | |
| `AssertionsNeverFail` | `Spec => []AssertionsHold` | |
| `ReleasesLoseNothing` | `Spec => []ReleaseLosesNoUpdate` | |
| `Refinement` | `Spec => ImplementsReadWriteLock` | |
| `CountSurvivesTheWrap` | `Spec => []CountsAtMostOneTooMany` | |
| `StateIsExact` | `Spec => ExactUntilTheWrap` | |
| **`HybridGuardProofs`** | | |
| `TypeCorrectness` | `Spec => []TypeOK` | `MoveModes` |
| `AssertionsNeverFail` | `Spec => []AssertionsHold` | `MoveModes` |
| `GuardsUseTheLock` | `Spec => Free!Spec`: guards make steps of the lock | `MoveModes` |
| `GuardsAccountForTheLock` | `Spec => []LockMatchesGuards` | `MoveModes`, `MaxVersion < VERSION_LIMIT` |
| **`GuardedCounterProofs`** | | |
| `UsesGuards` | `Spec => Proved!Spec`: the threads make steps of guards | |
| `TypeCorrectness` | `Spec => []TypeOK` | `MostSections < VERSION_LIMIT` |
| `NoIncrementIsLost` | `Spec => []CounterCountsIncrements` | `MostSections < VERSION_LIMIT` |
| `RestartsAreBounded` | `Spec => []OneRestartPerSection` | `MostSections < VERSION_LIMIT` |
| `ReadsAreCurrent` | `Spec => CommittedReadsAreCurrent` | `MostSections < VERSION_LIMIT` |
| **`EpochReclamationProofs`** | | |
| `TypeCorrectness` | `Spec => []TypeOK` | |
| `GracePeriodHolds` | `Spec => []GracePeriod` | |
| `NothingOutdatedIsLeft` | `Spec => NoOutdatedLeftBehind` | `RetireAt` is not both |
| `PointersAreKept` | `Spec => []EveryPointerOnce` | |
| **`SortedListsProofs`** | | |
| `TypeCorrectness` | `Spec => []TypeOK` | |
| `ListsStayAscending` | `Spec => []StaysAscending` | |
| `TheChainHasAnEnd` | `Spec => []LoopsEnd`: from `root_`, null is reached in at most as many steps as there are nodes, so there is no cycle | |
| `NobodyUsesAFreedNode` | `Spec => []NoUseAfterFree` | |
| `LookupsReadNodes` | `Spec => []ReadsConstructedNodes` | |
| `NodesAreKept` | `Spec => []EveryNodeOnce` | |
| `ListsImplementSortedSet` | `Spec => ImplementsSortedSet` | |
| **`AccountDepositProofs`** | | |
| `TypeCorrectness` | `Spec => []TypeOK`, by which a row is locked only by a thread inside its transaction | |
| `NoDepositIsLost` | `Spec => []RowCountsDeposits` | |
| `DepositsAreAppliedOnce` | `Spec => []AppliedOnce` | |
| **`UnitTestsProofs`** | | |
| `ScanEnds` | after `Iterations(filter, name)` iterations the scan has its verdict | |
| `MatchesAreLaid` | `Matches` holds if and only if the filter can be laid over the name | |
| `SelectedMatches` | `Selects(filter, name) => Matches(filter, name)` | |
| `PlainFilter` | `Selects(filter, name) <=> filter = name` | no wildcard in the filter |
| `PrefixFilter` | `Selects` holds if and only if the name begins as the filter does and goes on | the filter's only wildcard is at its end |
| `TypeCorrectness` | `Spec => []TypeOK`, by which the number of passed tests does not wrap | |
| `TestsRunOnce` | `Spec => []EveryTestOnce` | |
| `ReportsAreRight` | `Spec => []ReportIsRight` | |
| `FilterSound` | `Spec => []FilterIsSound` | |
| `ListedNames` | `Spec => []ListedNameRunsItsTest` | |

What the hypotheses mean. `MaxVersion < VERSION_LIMIT` and `MostSections <
VERSION_LIMIT` say that the program ends before the 56-bit version wraps
(`MostSections` is one more than the operations that all threads together make); past
a wrap the carry may make the state byte one too many, and a validation could take a new
version for an old one. `MoveModes` stands for `MoveModes \subseteq {"OPTIMISTIC",
"MOVED"}`: moving a guard that holds a lock leaves two owners, as `guard_move` shows,
and no code of the repository does it. `RetireAt` is not both: a client defers always
inside of its guards or always outside of them, as the epoch test and the list do;
mixed tags can hide an outdated pointer behind one that is not. `ListAssumption` says
of the first list what insertions make of one: it is ascending and nothing else is
allocated. It also makes the number of calls finite, so that the version of the list's
lock, `no_threads * NO_OPS + 1` wide, does not wrap; that it does not is part of the
proof (`VersionCounts`) and no hypothesis. `RunnerAssumption` says of the names that they
are different strings without a wildcard, being made of identifiers, and that there are
fewer than 256 tests: with more, the exit status, a byte, could be 0 although tests
failed. Only the status in `ReportsAreRight` needs that.

### The lock

None of the invariants is inductive alone. `IInv` adds three facts. `ReleaseIsOwed`: a
thread inside a release holds what it releases, and the word it is about to store over
is the word it loaded. `ExclusiveIsAlone`: the state byte is `EXCLUSIVE` while a thread
holds the lock so, and no other thread holds anything. `SharedAreCounted`: otherwise the
state byte is the number of shared holders or one more, and at most the limit. It is no
equality because of the carry; that no reader is missing is what still keeps an exclusive
attempt, which needs state 0, from succeeding beside a reader. The proof has a lemma for
the steps that leave the word alone (`QuietStep`), one for those that replace it
(`ReplacingStep`), and one per operation. `IInv` makes no assumption on `MaxVersion`, so
these theorems hold across the wrap.

`Refinement` maps each step to one of `ReadWriteLock` or a stutter: the exchanges and
stores that succeed are its actions, everything else is unseen. `ReadWriteLock` counts
modulo `VERSION_LIMIT`, so that the theorem needs no bound either. `StateIsExact` is
the equality that `IInv` cannot have, as an action property: each operation keeps the
equality, but for a release that stores at the last version (`StepIsExact`). For the
guards, `CInv` adds `VersionInBounds`, by which an exclusive holder took the lock below
`MaxVersion` and no carry happens.

### Guards and counter

These proofs are a chain. `GuardsUseTheLock` shows that steps of `HybridGuard` are
steps of `HybridLock` with the guards as its threads, `UsesGuards` that those of
`GuardedCounter` are steps of `HybridGuard`; each module takes the theorems of the one
below from an instance of its proof module instead of proving them again. What makes
this go through is `OwnsItsLock` (in `GInv`): the mode of a guard, together with where
it is in its life, says what it holds, so that it never releases what it does not hold
or asks for what it has. `BInv` adds the bound on the version, with
`SectionsInBounds`: every exclusive guard alive or in its constructor may still end its
section. The bound is checked when a guard is constructed and used when its attempt
succeeds, and others may have ended sections between the two.

`CInv` is what readers rely on. `InPhase` ties the program counter of a thread to its
guard and to what it has loaded. `VersionCountsSections` makes the version the number
of sections that writers have ended; `IsCurrent` says that what a reader loaded is the
counter as long as its validation would still succeed, and that it has restarted no
more often than sections had begun when it took its snapshot. An exclusive lock taken
makes the validation fail, and its release makes the version differ from the snapshot
for good: that is the step where a wrap would break the argument. What the proof needs
of the lock and the guards is gathered in `GuardFacts` and follows from the theorems
below.

### Epochs

`GracePeriod` speaks of freed pointers, the code compares tags with a minimum that was
collected slot by slot. `MinimumCoversReaders` closes the gap: whoever can reach a
pointer of a bag was inside before it was deferred and still is, so that its slot, once
scanned, bounds the minimum. Slots not yet scanned need no invariant, since what is in
the bag does not change during the call; `RetiredAreUnlinked` says that who enters
later does not reach it. `NothingOutdatedIsLeft` needs the order of the bags
(`TagsAscend`) and that the next tag is no smaller (`NextTagIsLargest`), for the loop
stops at the first pointer that is not outdated. `PointersAreKept` splits a cardinality
into four facts that steps can be shown to keep: freed once, waiting once, not both, and
none lost (`Once`). Because the loop frees before it erases, "waiting" starts at the
index of the loop, and the theorem is about the waiting part of the bags.

### Lists

`ListHeapProofs` is about heaps alone. The walk from `root_` is a recursive function;
that it visits the nodes of a list, each once and in order, and that `Stop` ends where
the key is or would be, is proved by induction over its steps: the set of steps at
which a claim fails has no least member (`LeastNatural`, from the well-foundedness of
the naturals). `IsList` characterises an ascending list without recursion, by the
successor of each node; `ChainIsList` and `ListIsChain` go from the walk to it and
back. With them `LinkKeepsList`, `UnlinkKeepsList` and `OverwriteKeepsList` say what
each update makes of the chain, and `ContentsOfLink` and its siblings what it makes of
the set of values, at the head, in the middle and at the end of lists of any length.

`LInv` of `SortedListsProofs` has four parts. `CallPhase` ties the position in a call
to the epoch guard, `LockPhase` to the lock, `ScopePhase` says that nothing is freed
before its time, and `InOnePlace` where the allocated nodes are: among them the node that
an `Insert` has constructed and not yet linked, which nothing leads to (`BuiltApart`).
That constructing a node leaves the chain as it is, and what linking it makes of the
chain, are the two lemmas `NewNodeKeepsList` and `LinkKeepsList`. `TheChainHasAnEnd` is
the bound on the walk that `Proper` carries; `TypeCorrectness` alone would admit a cycle.

`LookupsReadNodes` cannot speak of the chain, since an optimistic lookup walks on from
nodes that have left it. `NInv` therefore adds `LeadsToNodes`: every allocated node, in
the list or not, points to an allocated one or to null. The order in which `Insert`
constructs and links is what keeps it. `NoUseAfterFree` also needs `StandsInList`: a lookup under the mutex stands on a node of the list. An
optimistic lookup may stand on a node that is unlinked, but only deferred.

`ListsImplementSortedSet` is linearizability. `RInv` adds to `LInv` what makes the
answer of a lookup right at its linearization point: `LookupIsRight`, by which a lookup
whose snapshot is still valid (or that has the mutex) has passed no node with its key or
a greater one, and has the right answer at the end; `DataInList`, by which only the
assignment in progress makes data `Torn`, so that a validated lookup returns none;
`NoAnswerYet`, by which an update has none before its first store; and `VersionCounts`,
by which the version is at most the number of completed calls and no snapshot ever
becomes valid again. The mapped set is the contents of the list with the assignment in
progress completed (`Settled`).

### Deposits

`RowCountsDeposits` speaks of committed rows only; its `IInv` says why a commit keeps
it. `WriteIsNext`: whoever is about to commit holds the row, and what it has written is
that row with one deposit more. `ReadIsSound`: a row that was read counts deposits too,
so that an equal version means an equal balance, which is what the optimistic update
relies on; and a thread of `deposit` that has read the row under its lock still has what
is in the table. `OwnersDeposit` ties a lock to the account of its thread. The proof has
a lemma for the steps that leave the table alone (`QuietStep`), one for the end of a
transaction (`EndStep`) and one per statement. `OnceInv` adds `AppliedSoFar`, how often
a thread can have deposited at each point of its retry loop, and `StartedOnce`, that
`main` starts no thread twice.

### Test runner

The first half of `UnitTestsProofs` is about the filter, for filters and names of any
length. `IterateCases` splits an iteration into what it can do: decide, enter a
wildcard, agree on a character, or start over behind the wildcard. `ScanEnds` needs a
measure, since starting over goes back in the filter: `Progress` counts positions in the
order name first, filter second, and each iteration but the last makes it grow.
`SelectedMatches` rests on `Found`: what is before the scan's place in the filter, and
what is before its wildcard, stands for all of the name that it has passed. The second
part is what starting over needs, and holds because a wildcard may always stand for one
character more (`WildcardGoesOn`). `MatchesAreLaid` relates the reference, which is
recursive, to a statement without recursion. `PlainFilter` and `PrefixFilter` say for two
kinds of filters what is selected exactly; for filters in general only soundness is
true. All of these go by induction over the iterations or over the filter (`UpTo`: a
set that has 0 and with each number the next has them all).

The second half has the inductive invariant `IInv` of the runner. `AllThere`: from `main`
on, `tests` is a permutation of what was registered; a swap keeps it one, and that as
many tests are selected in one order as in another is a bijection (`SameSelection`).
`AllRan`: what is in the log are the selected tests among the first `Position`, as many
as there are. `AllCounted` and `AllListed`: of the first `Recorded` of these, `failed` and
`skipped` are the numbers of those that failed or were skipped, and the list names the
failed ones unless it was lost. During a test, and until it is recorded, the last entry
of the log is not counted yet; `ThisTest` says that `result` tells what happened in it.
`OnlySelected` with `SelectedMatches` gives `FilterSound`, and with `PlainFilter`
`ListedNames`.

### Only model-checked

- Liveness (`Termination`, `EveryCallReturns`, `DepositsReturn`): TLAPS has no rules for
  fairness and `ENABLED` that would do here.
- The lists with a client that reclaims, and the clients of `epoch_use_after_free`: there
  the code does not have the property.

## Plan

1. Done: lock, guard, guarded counter, epochs, both lists, deposits, test runner; proofs
   about all of them, with both refinements.
2. `EpochTest`: the semaphore lock-step of the epoch test, with the thread ids. Liveness
   of reclamation, and what a slot that never enters does to it. The list over reused
   nodes.
3. `LockTest`: the unlock after a stopped attempt. Guards in nested scopes and two
   exceptions in flight.

## Not modelled

- Weak memory orders: see the memory model above.
- The segfault handler: nobody registers it.
- `InitializeThread`: one atomic increment. Its ids start at 1 where the slots start at
  0, which is listed as a hazard.
- The semaphores of the epoch test and the stop flag of the lock tests; both are listed
  as hazards and in the plan.
- Of the unit test runner: fixtures and indexed tests, which no test here uses, the XML
  file, units of time and colours, and the branches for other platforms.
- Of the PostgreSQL program: creation and deletion of the table, which `main` has
  commented out.
- The benchmarks' keys, timing and output.
