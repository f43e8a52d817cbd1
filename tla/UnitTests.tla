----------------------------- MODULE UnitTests ------------------------------
(***************************************************************************)
(* The unit test runner that the test programs are built with: tests that  *)
(* register themselves before main, and utest_main, which reads its        *)
(* arguments, shuffles, filters and runs the tests and reports.  What a    *)
(* test does is left open but for its effect on the runner.  The XML file  *)
(* and the timing are left out.                                            *)
(***************************************************************************)
EXTENDS TestFilter, SequencesExt, FiniteSets

CONSTANTS
  Registered,     (* The names of the tests, in the order of registration.  *)
  Filters,        (* The values that --filter may have.                     *)
  CommandLines,   (* The arguments utest_main may be called with.           *)
  NoFilter,       (* UTEST_NULL                                             *)
  Garbage,        (* Memory that realloc has lost.                          *)
  MaxLost         (* Bound: allocations that fail.                          *)

(* main's result is cut to a byte on the way to the caller. *)
STATUS_LIMIT == 256

Arguments == [option : {"--help", "--list-tests", "--random-order"}]
             \union [option : {"--filter"}, value : Filters]

(* A name is made of the two identifiers that UTEST was given.             *)
ASSUME RunnerAssumption ==
  /\ Registered \in Seq(Strings) /\ IsInjective(Registered)
  /\ Len(Registered) < STATUS_LIMIT /\ MaxLost \in Nat
  /\ \A name \in ToSet(Registered) : name # NoFilter /\ Wildcard \notin ToSet(name)
  /\ \A value \in Filters : value \in Strings
  /\ \A line \in CommandLines : line \in Seq(Arguments)

VARIABLES
  tests,       (* utest_state.tests, of length tests_length.                *)
  argv,        (* The arguments not looked at yet.                          *)
  filter, random_order,
  pc,
  index,       (* The loop counter.                                         *)
  ran_tests, failed, skipped,
  failed_testcases, skipped_testcases,   (* Indices, to be listed.          *)
  result,      (* What the running test has set *utest_result to.           *)
  lost,        (* Allocations that have failed.                             *)
  log,         (* The tests that ran, and what happened.  Ghost state.      *)
  status       (* What the program returns to its caller.                   *)

options == <<argv, filter, random_order>>
counts  == <<ran_tests, failed, skipped, failed_testcases, skipped_testcases>>
vars    == <<tests, options, pc, index, counts, result, lost, log, status>>

Init ==
  /\ tests = <<>>
  /\ argv \in CommandLines /\ filter = NoFilter /\ random_order = FALSE
  /\ pc = "initializers" /\ index = 1
  /\ ran_tests = 0 /\ failed = 0 /\ skipped = 0
  /\ failed_testcases = <<>> /\ skipped_testcases = <<>>
  /\ result = "PASSED" /\ lost = 0 /\ log = <<>> /\ status = 0

(* An element is added to an array.  If the allocation fails, the array is *)
(* freed and gone, but its length has grown all the same.                  *)
Grown(array, element, ok) ==
  IF ok THEN Append(array, element) ELSE [i \in 1 .. Len(array) + 1 |-> Garbage]

Allocation(ok) ==
  /\ ok \/ lost < MaxLost
  /\ lost' = IF ok THEN lost ELSE lost + 1

(* Some elements are gone; the array itself is UTEST_NULL. *)
Lost(array)   == \E i \in DOMAIN array : array[i] = Garbage
IsNull(array) == array # <<>> /\ Last(array) = Garbage

Register ==
  /\ pc = "initializers" /\ Len(tests) < Len(Registered)
  /\ \E ok \in BOOLEAN :
       Allocation(ok) /\ tests' = Grown(tests, Registered[Len(tests) + 1], ok)
  /\ UNCHANGED <<options, pc, index, counts, result, log, status>>

(* main starts.  When it touches a test that was lost, the program ends.   *)
Main ==
  /\ pc = "initializers" /\ Len(tests) = Len(Registered)
  /\ pc' = IF Lost(tests) THEN "crashed" ELSE "arguments"
  /\ UNCHANGED <<tests, options, index, counts, result, lost, log, status>>

(***************************************************************************)
(* The options, from left to right.                                        *)
(***************************************************************************)
Argument ==
  /\ pc = "arguments" /\ argv # <<>>
  /\ argv' = Tail(argv)
  /\ filter' = IF Head(argv).option = "--filter" THEN Head(argv).value ELSE filter
  /\ random_order' = (random_order \/ Head(argv).option = "--random-order")
  /\ pc' = IF Head(argv).option \in {"--help", "--list-tests"} THEN "stopped" ELSE pc
  /\ UNCHANGED <<tests, index, counts, result, lost, log, status>>

EndOfArguments ==
  /\ pc = "arguments" /\ argv = <<>>
  /\ pc' = "shuffle"
  /\ index' = IF random_order THEN Len(tests) ELSE 1
  /\ UNCHANGED <<tests, options, counts, result, lost, log, status>>

(* Mutant: the chosen test is copied, not swapped. *)
ShuffleByCopy ==
  /\ pc = "shuffle" /\ index > 1
  /\ \E next \in 1 .. index : tests' = [tests EXCEPT ![index] = tests[next]]
  /\ index' = index - 1
  /\ UNCHANGED <<options, pc, counts, result, lost, log, status>>

(* The pseudo-random generator may choose any test not placed yet. *)
Shuffle ==
  /\ pc = "shuffle" /\ index > 1
  /\ \E next \in 1 .. index :
       tests' = [tests EXCEPT ![index] = tests[next], ![next] = tests[index]]
  /\ index' = index - 1
  /\ UNCHANGED <<options, pc, counts, result, lost, log, status>>

ToRun(test) == IF filter = NoFilter THEN TRUE ELSE Selects(filter, test)

Count ==
  /\ pc = "shuffle" /\ index <= 1
  /\ ran_tests' = Cardinality({i \in DOMAIN tests : ToRun(tests[i])})
  /\ pc' = "run" /\ index' = 1
  /\ UNCHANGED <<tests, options, failed, skipped, failed_testcases, skipped_testcases,
                 result, lost, log, status>>

(***************************************************************************)
(* The loop that runs the tests.                                           *)
(***************************************************************************)
SkipFiltered ==
  /\ pc = "run" /\ index <= Len(tests) /\ ~ToRun(tests[index])
  /\ index' = index + 1
  /\ UNCHANGED <<tests, options, pc, counts, result, lost, log, status>>

(* Mutant: the filter is not asked again. *)
RunAny ==
  /\ pc = "run" /\ index <= Len(tests)
  /\ pc' = "body" /\ result' = "PASSED"
  /\ log' = Append(log, [test |-> tests[index], broken |-> FALSE, skipped |-> FALSE])
  /\ UNCHANGED <<tests, options, index, counts, lost, status>>

(* Mutant: the result of the last test stays. *)
RunWithOldResult ==
  /\ pc = "run" /\ index <= Len(tests) /\ ToRun(tests[index])
  /\ pc' = "body"
  /\ log' = Append(log, [test |-> tests[index], broken |-> FALSE, skipped |-> FALSE])
  /\ UNCHANGED <<tests, options, index, counts, result, lost, status>>

Run ==
  /\ pc = "run" /\ index <= Len(tests) /\ ToRun(tests[index])
  /\ pc' = "body" /\ result' = "PASSED"
  /\ log' = Append(log, [test |-> tests[index], broken |-> FALSE, skipped |-> FALSE])
  /\ UNCHANGED <<tests, options, index, counts, lost, status>>

(* A step of the test: the next value of *utest_result, whether the body   *)
(* goes on, and what it comes down to.                                     *)
Body(value, goes_on, field) ==
  /\ pc = "body"
  /\ pc' = IF goes_on THEN "body" ELSE "record"
  /\ result' = value
  /\ log' = IF field = "" THEN log ELSE [log EXCEPT ![Len(log)][field] = TRUE]
  /\ UNCHANGED <<tests, options, index, counts, lost, status>>

ExpectFails == Body("FAILURE", TRUE, "broken")
AssertFails == Body("FAILURE", FALSE, "broken")
Throw       == Body("FAILURE", FALSE, "broken")
SkipTest    == Body("SKIPPED", FALSE, "skipped")
EndOfBody   == Body(result, FALSE, "")

(* An assert of the code under test fails, or a thread is left joinable. *)
Terminate ==
  /\ pc = "body"
  /\ pc' = "crashed"
  /\ UNCHANGED <<tests, options, index, counts, result, lost, log, status>>

Record ==
  /\ pc = "record"
  /\ \E ok \in BOOLEAN :
       /\ Allocation(ok)
       /\ \/ /\ result = "FAILURE"
             /\ failed' = failed + 1
             /\ failed_testcases' = Grown(failed_testcases, index, ok)
             /\ UNCHANGED <<skipped, skipped_testcases>>
          \/ /\ result = "SKIPPED"
             /\ skipped' = skipped + 1
             /\ skipped_testcases' = Grown(skipped_testcases, index, ok)
             /\ UNCHANGED <<failed, failed_testcases>>
          \/ /\ result = "PASSED" /\ ok
             /\ UNCHANGED <<failed, skipped, failed_testcases, skipped_testcases>>
  /\ pc' = "run" /\ index' = index + 1
  /\ UNCHANGED <<tests, options, ran_tests, result, log, status>>

(* The totals, the tests to be listed, and the return from main.  To list  *)
(* what was lost ends the program, or prints the name of some other test.  *)
Report ==
  /\ pc = "run" /\ index > Len(tests)
  /\ \/ Lost(failed_testcases \o skipped_testcases) /\ pc' = "crashed"
     \/ ~IsNull(failed_testcases) /\ ~IsNull(skipped_testcases) /\ pc' = "returned"
  /\ status' = failed % STATUS_LIMIT
  /\ UNCHANGED <<tests, options, index, counts, result, lost, log>>

Ended == pc \in {"stopped", "returned", "crashed"} /\ UNCHANGED vars

Next ==
  \/ Register \/ Main \/ Argument \/ EndOfArguments \/ Shuffle \/ Count
  \/ SkipFiltered \/ Run \/ Record \/ Report
  \/ ExpectFails \/ AssertFails \/ Throw \/ SkipTest \/ EndOfBody \/ Terminate
  \/ Ended

Spec == Init /\ [][Next]_vars
-----------------------------------------------------------------------------
(* The variables have their types, and the number of tests reported as     *)
(* passed, which is unsigned, does not wrap (utest.h:1459).                *)
TypeOK ==
  /\ \A i \in DOMAIN tests : tests[i] \in ToSet(Registered) \union {Garbage}
  /\ filter \in Filters \union {NoFilter}
  /\ random_order \in BOOLEAN /\ index \in 0 .. Len(Registered) + 1
  /\ pc \in {"initializers", "arguments", "shuffle", "run", "body", "record",
             "stopped", "returned", "crashed"}
  /\ result \in {"PASSED", "FAILURE", "SKIPPED"}
  /\ {ran_tests, failed, skipped, lost, status} \subseteq Nat
  /\ pc \in {"run", "body", "record", "returned"} => failed + skipped <= ran_tests

(* When the tests are done, each of those the filter selects has run once, *)
(* whatever the shuffle made of them (utest.h:1350-1373, 1386-1456).       *)
EveryTestOnce ==
  LET selected == {i \in DOMAIN Registered : ToRun(Registered[i])}
  IN  pc = "returned" =>
        /\ {log[i].test : i \in DOMAIN log} = {Registered[i] : i \in selected}
        /\ Len(log) = Cardinality(selected) /\ ran_tests = Len(log)

(* The status and the totals tell what happened in the tests: how many had *)
(* a failed check or an exception, and how many passed, even if the list   *)
(* of the failed ones was lost.  A test that is skipped after a failed     *)
(* EXPECT counts as skipped (utest.h:700-705, 1387, 1418-1430, 1459, 1489).*)
ReportIsRight ==
  pc = "returned" =>
    /\ status = Cardinality({i \in DOMAIN log : log[i].broken /\ ~log[i].skipped})
    /\ ran_tests - failed - skipped
         = Cardinality({i \in DOMAIN log : ~log[i].broken /\ ~log[i].skipped})
    /\ Lost(failed_testcases) \/
       {tests[failed_testcases[i]] : i \in DOMAIN failed_testcases}
         = {log[i].test : i \in {j \in DOMAIN log : log[j].broken /\ ~log[j].skipped}}

(* A test runs only if its name matches the filter, with its wildcards at  *)
(* the begin, in the middle or at the end (utest.h:1196-1253, 1309-1310).  *)
FilterIsSound ==
  filter # NoFilter => \A i \in DOMAIN log : Matches(filter, log[i].test)

(* A name that --list-tests prints, passed to --filter, runs that test and *)
(* no other (utest.h:1311-1312).                                           *)
ListedNameRunsItsTest ==
  pc = "returned" /\ filter \in ToSet(Registered) => {log[i].test : i \in DOMAIN log} = {filter}
=============================================================================
