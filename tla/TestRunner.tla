----------------------------- MODULE TestRunner -----------------------------
(***************************************************************************)
(* How cmocka runs groups of tests: _cmocka_run_group_tests,               *)
(* cmocka_run_one_tests and cmocka_run_one_test_or_fixture, with the       *)
(* expectations of Expectations and the heap of TestAllocator.             *)
(*                                                                         *)
(* Whatever the user supplies (group setup, setup, test, teardown, group   *)
(* teardown) runs in a frame of cmocka_run_one_test_or_fixture.  A frame   *)
(* goes through the values of pc                                           *)
(*                                                                         *)
(*    body -> checks -> leftovers -> leave -> return                       *)
(*                                                                         *)
(* and exit_test takes it from anywhere before leave to "jumped", the      *)
(* setjmp of the frame.  User functions are arbitrary sequences of calls   *)
(* into cmocka, limited by one of the Scripts and by MaxOps.               *)
(***************************************************************************)
EXTENDS Expectations, TestAllocator, FiniteSets

CONSTANTS NumTests,   (* tests of a group that pass the filters             *)
          MaxGroups,  (* bound: groups that main runs one after another     *)
          MaxOps,     (* bound: calls into cmocka by one user function      *)
          Scripts,    (* what user functions do: per kind, the calls        *)
          Null        (* the null pointer                                   *)

Frames == {"groupSetup", "setup", "test", "teardown", "groupTeardown"}

Operations == {"return", "check", "order", "alloc", "free", "freeAny", "overrun",
               "fail", "skip", "stop", "signal", "mockAssert", "expectAssert"}

ASSUME RunnerAssumption ==
  /\ NumTests \in Nat
  /\ MaxGroups \in Nat
  /\ MaxOps \in Nat
  /\ Scripts \subseteq [Frames -> SUBSET Operations]
  /\ Null \notin CheckPoints

Tests == 1 .. NumTests

VARIABLES
  pc, frame,      \* where the runner is, and what kind of frame it runs
  current,        \* the test it is at
  groups,         \* groups begun
  ops,            \* calls made by the running user function
  suite,          \* which user functions the groups have, and the environment
  running,        \* global_running_test
  skipTest,       \* global_skip_test
  stopTest,       \* global_stop_test
  expecting,      \* global_expecting_assert
  handler, saved, \* installed signal handler, default_signal_functions
  checkPoint,     \* check_point of the frame
  testPoint,      \* check_point of the test's state
  groupPoint,     \* group_check_point
  rc,             \* what the frame returns
  status,         \* status of each test
  totals,         \* total_executed, total_passed, ...
  verdict,        \* what the group run returned, -1 when memory ran out
  guarded,        \* history: inside the call of an expect_assert_failure
  own,            \* history: blocks of the running user function
  cause,          \* history: how the last user function ended
  ended,          \* history: how each test function ended
  failures        \* history: user functions that ended badly, with the test

flags     == <<running, skipTest, stopTest, expecting>>
signals   == <<handler, saved>>
points    == <<checkPoint, testPoint, groupPoint>>
report    == <<status, totals, verdict>>
history   == <<cause, ended, failures>>
group     == <<groups, suite, current>>
vars == <<pc, frame, ops, group, flags, signals, points, rc, report,
          guarded, own, history, expectations, heap>>

\* The fixtures of the groups, what the user functions do, and whether the
\* environment has CMOCKA_TEST_ABORT=1.
Suites == [setup : SUBSET Tests, teardown : SUBSET Tests,
           groupSetup : BOOLEAN, groupTeardown : BOOLEAN,
           mayDo : Scripts, testAbort : BOOLEAN]

Statuses == {"notStarted", "passed", "failed", "skipped", "error"}

Endings == {"none", "returned", "failed", "skipped", "stopped"}

Counters == {"executed", "passed", "failed", "errors", "skipped"}

\* The process is gone, or control went where no frame is.
Lost == {"exited", "aborted", "undefined"}

Places == {"group", "body", "checks", "leftovers", "jumped", "leave", "return",
           "next", "wrapUp", "finish", "returned"} \cup Lost

\* The variables of the runner, its stores and its heap have their types; no entry
\* of a store is used up (_cmocka_run_group_tests and what it calls).
TypeOK ==
  /\ ExpectationsTypeOK
  /\ HeapTypeOK
  /\ pc \in Places
  /\ frame \in Frames
  /\ current \in 0 .. NumTests
  /\ groups \in 0 .. MaxGroups
  /\ ops \in 0 .. MaxOps
  /\ suite \in Suites
  /\ running \in BOOLEAN /\ skipTest \in BOOLEAN /\ stopTest \in BOOLEAN
  /\ expecting \in BOOLEAN /\ guarded \in BOOLEAN
  /\ handler \in {"default", "exception_handler"}
  /\ saved \in {"default", "exception_handler"}
  /\ checkPoint \in CheckPoints
  /\ testPoint \in CheckPoints \cup {Null}
  /\ groupPoint \in CheckPoints
  /\ rc \in {-1, 0}
  /\ status \in [Tests -> Statuses]
  /\ totals \in [Counters -> Nat]
  /\ verdict \in Int
  /\ own \subseteq Blocks
  /\ cause \in Endings
  /\ ended \in [Tests -> Endings]
  /\ failures \subseteq Frames \X (0 .. NumTests)

Init ==
  /\ InitializeTesting
  /\ InitHeap
  /\ pc = "group" /\ frame = "groupSetup"
  /\ current = 0 /\ groups = 0 /\ ops = 0
  /\ suite \in Suites
  /\ running = FALSE /\ skipTest = FALSE /\ stopTest = FALSE
  /\ expecting = FALSE /\ guarded = FALSE
  /\ handler = "default" /\ saved = "default"
  /\ checkPoint = Root /\ testPoint = Null /\ groupPoint = Root
  /\ rc = 0
  /\ status = [t \in Tests |-> "notStarted"]
  /\ totals = [c \in Counters |-> 0]
  /\ verdict = 0
  /\ own = {}
  /\ cause = "none"
  /\ ended = [t \in Tests |-> "none"]
  /\ failures = {}
-----------------------------------------------------------------------------
(* cmocka_run_one_test_or_fixture                                          *)

\* (mutant of FrameCheckPoint: a frame without a check point is not given one)
FrameCheckPointGiven(point) == point

\* The frame takes its own check point when it is given none.
FrameCheckPoint(point) == IF point = Null THEN CheckPoint ELSE point

Enter(kind, point) ==
  /\ frame' = kind
  /\ checkPoint' = FrameCheckPoint(point)
  /\ saved' = handler
  /\ handler' = "exception_handler"
  /\ TeardownTesting        \* initialize_testing empties the same stores
  /\ running' = TRUE
  /\ rc' = 0
  /\ ops' = 0
  /\ own' = {}
  /\ pc' = "body"
  /\ UNCHANGED <<stopTest, expecting, guarded, heap>>

\* (mutant of ExitTest: skip() is not told from a failure)
ExitTestOnSkip(skipping) ==
  pc' = IF suite.testAbort THEN "aborted" ELSE IF running THEN "jumped" ELSE "exited"

\* exit_test(true)
ExitTest(skipping) ==
  pc' = IF suite.testAbort /\ ~skipping THEN "aborted"
        ELSE IF running THEN "jumped"
        ELSE "exited"

\* The user function returned and the runner goes on to check for leaks, but
\* not after a setup, whose blocks are for the teardown to free.
LeakCheck ==
  /\ pc = "checks"
  /\ \/ /\ \/ frame \in {"groupSetup", "setup"}
           \/ (Follows(checkPoint) /\ BlocksAfter(checkPoint) = {})
        /\ pc' = "leftovers"
        /\ UNCHANGED <<cause, heap>>
     \/ /\ frame \notin {"groupSetup", "setup"}
        /\ Follows(checkPoint)
        /\ BlocksAfter(checkPoint) # {}
        /\ FreeAllocatedBlocks(checkPoint)
        /\ ExitTest(skipTest)
        /\ cause' = "failed"
     \/ \* The check point's node was freed: reading it finds no block, raises a
        \* signal, or leads to a block further down the list.
        /\ frame \notin {"groupSetup", "setup"}
        /\ ~Follows(checkPoint)
        /\ \/ pc' = "leftovers" /\ UNCHANGED <<cause, heap>>
           \/ ExitTest(skipTest) /\ cause' = "failed" /\ UNCHANGED heap
           \/ /\ \E first \in DOMAIN blocks : FreeFrom(first)
              /\ ExitTest(skipTest)
              /\ cause' = "failed"
  /\ UNCHANGED <<frame, ops, group, flags, signals, points, rc, report, guarded, own,
                 ended, failures, expectations>>

FailIfLeftoverValues ==
  /\ pc = "leftovers"
  /\ IF HasLeftoverValues
     THEN /\ ExitTest(skipTest)
          /\ cause' = "failed"
          /\ UNCHANGED running
     ELSE /\ pc' = "leave"
          /\ running' = FALSE
          /\ UNCHANGED cause
  /\ UNCHANGED <<frame, ops, group, skipTest, stopTest, expecting, signals, points, rc,
                 report, guarded, own, ended, failures, expectations, heap>>

\* (mutant of ReturnOfJump: a stopped test passes whatever is left over)
ReturnOfStop == IF stopTest THEN 0 ELSE -1

\* A user function left by exit_test has failed, unless it called stop() with
\* nothing left over.
ReturnOfJump == IF stopTest /\ ~HasLeftoverValues THEN 0 ELSE -1

\* longjmp arrived at the setjmp of the frame.
Landed ==
  /\ pc = "jumped"
  /\ running' = FALSE
  /\ rc' = ReturnOfJump
  /\ stopTest' = FALSE
  /\ cause' = IF stopTest /\ HasLeftoverValues THEN "failed" ELSE cause
  /\ guarded' = FALSE
  /\ pc' = "leave"
  /\ UNCHANGED <<frame, ops, group, skipTest, expecting, signals, points, report, own,
                 ended, failures, expectations, heap>>

\* (mutant of RestoreHandlers: the signal handlers stay installed)
KeepHandlers == handler' = handler

RestoreHandlers == handler' = saved

Leave ==
  /\ pc = "leave"
  /\ TeardownTesting
  /\ RestoreHandlers
  /\ pc' = "return"
  /\ failures' = IF rc = 0 \/ (frame = "test" /\ cause = "skipped")
                 THEN failures ELSE failures \cup {<<frame, current>>}
  /\ UNCHANGED <<frame, ops, group, flags, saved, points, rc, report, guarded, own,
                 cause, ended, heap>>
-----------------------------------------------------------------------------
(* What user functions do.                                                 *)

MakesCall(operation) ==
  /\ pc = "body"
  /\ operation \in suite.mayDo[frame]
  /\ ops < MaxOps
  /\ ops' = ops + 1

\* The call returns to the user function, or leaves it through exit_test.
Finishes(fails) ==
  IF fails THEN ExitTest(skipTest) /\ cause' = "failed"
  ELSE UNCHANGED <<pc, cause>>

control == <<frame, group, signals, points, rc, report, ended, failures>>

\* Test functions return nothing, fixtures return 0 or an error.
ReturnFromBody ==
  /\ pc = "body"
  /\ ~guarded
  /\ rc' \in IF frame = "test" \/ "return" \notin suite.mayDo[frame] THEN {0} ELSE {0, -1}
  /\ cause' = IF rc' = 0 THEN "returned" ELSE "failed"
  /\ pc' = "checks"
  /\ UNCHANGED <<frame, ops, group, flags, signals, points, report, guarded, own, ended,
                 failures, expectations, heap>>

\* will_return and mock(); parameter checks behave alike and are left to
\* MockTest.
UseMock ==
  /\ MakesCall("check")
  /\ \E f \in Functions :
       \/ \E v \in Values, c \in Counts, loc \in Locations :
            WillReturn(f, v, c, loc) /\ Finishes(WillReturnFails(c))
       \/ Mock(f) /\ Finishes(MockFails(f))
  /\ UNCHANGED <<control, flags, guarded, own, heap>>

UseOrderedCall ==
  /\ MakesCall("order")
  /\ \E f \in Functions :
       \/ \E c \in Counts, loc \in Locations :
            ExpectFunctionCall(f, c, loc) /\ Finishes(ExpectFunctionCallFails(c))
       \/ FunctionCalled(f) /\ Finishes(FunctionCalledFails(f))
  /\ UNCHANGED <<control, flags, guarded, own, heap>>

UseMalloc ==
  /\ MakesCall("alloc")
  /\ \E b \in Blocks : Malloc(b) /\ own' = own \cup {b}
  /\ UNCHANGED <<pc, control, cause, flags, guarded, expectations>>

\* Freeing and reallocating a block that is younger than the check point, or
\* any block.
Freeable ==
  IF "freeAny" \in suite.mayDo[frame] THEN Allocated ELSE BlocksAfter(checkPoint)

UseFree ==
  /\ MakesCall("free")
  /\ \E b \in Freeable :
       /\ Free(b)
       /\ own' = IF FreeFails(b) THEN own ELSE own \ {b}
       /\ Finishes(FreeFails(b))
  /\ UNCHANGED <<control, flags, guarded, expectations>>

UseRealloc ==
  /\ MakesCall("free")
  /\ \E b \in Freeable, new \in Blocks :
       /\ Realloc(b, new)
       /\ own' = (IF FreeFails(b) THEN own ELSE own \ {b}) \cup {new}
       /\ Finishes(FreeFails(b))
  /\ UNCHANGED <<control, flags, guarded, expectations>>

OverrunBlock ==
  /\ MakesCall("overrun")
  /\ \E b \in Freeable : Overrun(b)
  /\ UNCHANGED <<pc, control, cause, flags, guarded, own, expectations>>

\* fail(), a false assertion of the test, or a signal caught by
\* exception_handler.
Fail ==
  /\ MakesCall("fail") \/ MakesCall("signal")
  /\ Finishes(TRUE)
  /\ UNCHANGED <<control, flags, guarded, own, expectations, heap>>

Skip ==
  /\ MakesCall("skip")
  /\ skipTest' = TRUE
  /\ ExitTest(TRUE)
  /\ cause' = "skipped"
  /\ UNCHANGED <<control, running, stopTest, expecting, guarded, own, expectations, heap>>

Stop ==
  /\ MakesCall("stop")
  /\ stopTest' = TRUE
  /\ ExitTest(skipTest)
  /\ cause' = "stopped"
  /\ UNCHANGED <<control, running, skipTest, expecting, guarded, own, expectations, heap>>

\* expect_assert_failure(call): the flag is raised around the call.
ExpectAssertFailure ==
  /\ MakesCall("expectAssert")
  /\ ~guarded
  /\ expecting' = TRUE
  /\ guarded' = TRUE
  /\ UNCHANGED <<pc, control, cause, running, skipTest, stopTest, own, expectations, heap>>

\* (mutant of LowerExpecting: the flag stays up)
KeepExpecting == expecting' = expecting

LowerExpecting == expecting' = FALSE

\* The call under expect_assert_failure returned without an assertion.
AssertMissing ==
  /\ pc = "body"
  /\ guarded
  /\ LowerExpecting
  /\ guarded' = FALSE
  /\ Finishes(TRUE)
  /\ UNCHANGED <<ops, control, running, skipTest, stopTest, own, expectations, heap>>

\* An assertion of the code under test is false.  With the flag up control
\* jumps to the last expect_assert_failure, whether or not it is still active.
MockAssert ==
  /\ MakesCall("mockAssert")
  /\ IF expecting
     THEN /\ pc' = IF guarded THEN pc ELSE "undefined"
          /\ expecting' = IF guarded THEN FALSE ELSE expecting
          /\ guarded' = FALSE
          /\ UNCHANGED cause
     ELSE /\ Finishes(TRUE)
          /\ UNCHANGED <<expecting, guarded>>
  /\ UNCHANGED <<control, running, skipTest, stopTest, own, expectations, heap>>
-----------------------------------------------------------------------------
(* _cmocka_run_group_tests and cmocka_run_one_tests                        *)

Goto(place) ==
  /\ pc' = place
  /\ UNCHANGED <<frame, ops, running, stopTest, expecting, signals, checkPoint, rc, guarded,
                 own, expectations, heap>>

Count(counters) ==
  totals' = [c \in Counters |-> IF c \in counters THEN totals[c] + 1 ELSE totals[c]]

CounterOf(s) == IF s \in {"passed", "failed", "skipped"} THEN s ELSE "errors"

\* The test at hand is over: count it and go on to the next one.
Account(s) ==
  /\ status' = [status EXCEPT ![current] = s]
  /\ Count({"executed", CounterOf(s)})
  /\ Goto("next")

Returned(kind) == pc = "return" /\ frame = kind

\* (mutant of ClearTotals: the counters go on from the last group)
KeepTotals == totals' = totals

ClearTotals == totals' = [c \in Counters |-> 0]

StartGroup ==
  /\ pc \in {"group", "returned"}
  /\ groups < MaxGroups
  /\ groups' = groups + 1
  /\ groupPoint' = CheckPoint
  /\ testPoint' = Null
  /\ current' = 0
  /\ status' = [t \in Tests |-> "notStarted"]
  /\ ClearTotals
  /\ ended' = [t \in Tests |-> "none"]
  /\ failures' = {}
  /\ UNCHANGED <<suite, skipTest, cause>>

BeginGroup ==
  /\ StartGroup
  /\ IF suite.groupSetup THEN Enter("groupSetup", CheckPoint) ELSE Goto("next")
  /\ UNCHANGED verdict

\* The array of test states could not be allocated.
OutOfMemory ==
  /\ StartGroup
  /\ Goto("returned")
  /\ verdict' = -1

\* (mutant of AfterGroupSetup: a failed group setup is not counted)
AfterGroupSetupUncounted ==
  /\ Returned("groupSetup")
  /\ Goto(IF rc = 0 THEN "next" ELSE "wrapUp")
  /\ UNCHANGED <<group, skipTest, testPoint, groupPoint, report, history>>

AfterGroupSetup ==
  /\ Returned("groupSetup")
  /\ IF rc = 0 THEN Goto("next") /\ UNCHANGED totals
     ELSE Goto("wrapUp") /\ Count({"errors"})
  /\ UNCHANGED <<group, skipTest, testPoint, groupPoint, status, verdict, history>>

\* A test with a setup remembers the check point for its teardown.
StartTest ==
  /\ pc = "next"
  /\ current < NumTests
  /\ current' = current + 1
  /\ LET hasSetup == current' \in suite.setup IN
     /\ testPoint' = IF hasSetup THEN CheckPoint ELSE Null
     /\ Enter(IF hasSetup THEN "setup" ELSE "test", testPoint')
  /\ UNCHANGED <<groups, suite, skipTest, groupPoint, report, history>>

\* A failed setup skips the test and its teardown.
AfterSetup ==
  /\ Returned("setup")
  /\ IF rc = 0 THEN Enter("test", Null) /\ UNCHANGED <<status, totals>>
     ELSE Account("error")
  /\ UNCHANGED <<group, skipTest, testPoint, groupPoint, verdict, history>>

StatusOfTest ==
  IF rc = 0 THEN "passed" ELSE IF skipTest THEN "skipped" ELSE "failed"

\* (mutant of LowerSkip: the flag stays up)
KeepSkip == skipTest' = skipTest

LowerSkip == skipTest' = IF rc = 0 THEN skipTest ELSE FALSE

\* (mutant of RunsTeardown: a failed test is not torn down)
RunsTeardownIfPassed == current \in suite.teardown /\ rc = 0

RunsTeardown == current \in suite.teardown

AfterTest ==
  /\ Returned("test")
  /\ ended' = [ended EXCEPT ![current] = cause]
  /\ LowerSkip
  /\ IF RunsTeardown
     THEN /\ status' = [status EXCEPT ![current] = StatusOfTest]
          /\ Enter("teardown", testPoint)
          /\ UNCHANGED totals
     ELSE Account(StatusOfTest)
  /\ UNCHANGED <<group, testPoint, groupPoint, verdict, cause, failures>>

\* (mutant of StatusAfterTeardown: a failed teardown is not reported)
StatusOfTestAlone == status[current]

StatusAfterTeardown == IF rc = 0 THEN status[current] ELSE "error"

AfterTeardown ==
  /\ Returned("teardown")
  /\ Account(StatusAfterTeardown)
  /\ UNCHANGED <<group, skipTest, testPoint, groupPoint, verdict, history>>

WrapUp ==
  /\ pc = "wrapUp" \/ (pc = "next" /\ current = NumTests)
  /\ IF suite.groupTeardown THEN Enter("groupTeardown", groupPoint) ELSE Goto("finish")
  /\ UNCHANGED <<group, skipTest, testPoint, groupPoint, report, history>>

\* (mutant of AfterGroupTeardown: a failed group teardown is run again)
AfterGroupTeardownRetried ==
  /\ Returned("groupTeardown")
  /\ Goto(IF rc = 0 THEN "finish" ELSE "wrapUp")
  /\ UNCHANGED <<group, skipTest, testPoint, groupPoint, report, history>>

\* What the group teardown returned is printed and not counted.
AfterGroupTeardown ==
  /\ Returned("groupTeardown")
  /\ Goto("finish")
  /\ UNCHANGED <<group, skipTest, testPoint, groupPoint, report, history>>

\* Blocks that outlive the group end the process: no frame is left to jump to.
\* The check point is the root of the list, since no group leaves a block.
Finish ==
  /\ pc = "finish"
  /\ Follows(groupPoint)
  /\ \/ /\ BlocksAfter(groupPoint) = {}
        /\ pc' = "returned"
        /\ verdict' = totals["failed"] + totals["errors"]
        /\ UNCHANGED <<cause, heap>>
     \/ /\ BlocksAfter(groupPoint) # {}
        /\ FreeAllocatedBlocks(groupPoint)
        /\ ExitTest(skipTest)
        /\ cause' = "failed"
        /\ UNCHANGED verdict
  /\ UNCHANGED <<frame, ops, group, flags, signals, points, rc, status, totals, guarded,
                 own, ended, failures, expectations>>
-----------------------------------------------------------------------------
UserStep ==
  \/ ReturnFromBody
  \/ UseMock \/ UseOrderedCall
  \/ UseMalloc \/ UseFree \/ UseRealloc \/ OverrunBlock
  \/ Fail \/ Skip \/ Stop
  \/ ExpectAssertFailure \/ AssertMissing \/ MockAssert

FrameStep == LeakCheck \/ FailIfLeftoverValues \/ Landed \/ Leave

GroupStep ==
  \/ BeginGroup \/ OutOfMemory \/ AfterGroupSetup
  \/ StartTest \/ AfterSetup \/ AfterTest \/ AfterTeardown
  \/ WrapUp \/ AfterGroupTeardown \/ Finish

Next == UserStep \/ FrameStep \/ GroupStep

\* One thread runs it all, and user functions come to an end.
Spec == Init /\ [][Next]_vars /\ WF_vars(Next)
-----------------------------------------------------------------------------
(* What a user function can rely on, and what the report can be trusted    *)
(* for.                                                                    *)

\* exit_test only jumps while the frame it jumps to is active, signals are only
\* caught there, and stop() is only remembered on the way to its setjmp
\* (cmocka_run_one_test_or_fixture).
FrameDiscipline ==
  pc \notin Lost =>
    /\ running <=> pc \in {"body", "checks", "leftovers", "jumped"}
    /\ handler = "exception_handler" <=>
         pc \in {"body", "checks", "leftovers", "jumped", "leave"}
    /\ stopTest => pc = "jumped"

\* Two rules for user functions: only test functions call skip(), and what runs
\* under expect_assert_failure() cannot leave by another call into cmocka.
Leaving == {"check", "order", "free", "fail", "signal", "skip", "stop"}

SafeScripts ==
  \A mayDo \in Scripts, kind \in Frames :
    /\ "skip" \in mayDo[kind] => kind = "test"
    /\ "expectAssert" \in mayDo[kind] => mayDo[kind] \cap Leaving = {}

\* With these rules nothing a user function left behind reaches the next one: no
\* declared expectation, no flag of skip(), stop() or expect_assert_failure().
StartsClean ==
  pc = "body" /\ ops = 0 =>
    /\ \A f \in Functions : results[f] = <<>>
    /\ calls = <<>>
    /\ ~skipTest /\ ~stopTest /\ ~expecting

\* Two rules for blocks: setups and tests free only what was allocated in them, ...
FreesOwn ==
  \A mayDo \in Scripts : "freeAny" \notin mayDo["setup"] \cup mayDo["test"]

\* ... and tests that call stop() allocate nothing.
StopsWithoutBlocks ==
  \A mayDo \in Scripts : "stop" \in mayDo["test"] => mayDo["test"] \cap {"alloc", "free"} = {}

\* cmocka.h on test_malloc: blocks that are still allocated when a test completes
\* fail it (fail_if_blocks_allocated). That is, it does not pass: of a test that calls
\* skip() nobody looks at the blocks, and it is reported as skipped, not as failed.
LeaksAreFailures ==
  Returned("test") /\ own # {} => rc # 0

\* No group starts with blocks of an earlier one, so its check point is the root of
\* the list (_cmocka_run_group_tests).
GroupsStartEmpty ==
  /\ pc \in {"group", "returned"} => blocks = <<>>
  /\ groupPoint = Root

\* Unless the running function frees blocks of others, the check points that are
\* still to be used point to nodes in the list of blocks
\* (check_point_allocated_blocks takes the address of the last node).
CheckPointsFollow ==
  /\ GroupsStartEmpty
  /\ running /\ "freeAny" \notin suite.mayDo[frame] => Follows(checkPoint)
  /\ running /\ frame \in {"setup", "test"} /\ testPoint # Null => Follows(testPoint)

\* A test is reported by what happened in its own functions: passed when it ran
\* to its end or was stopped, skipped when it called skip(), failed when it
\* failed, in error when its setup or teardown failed (cmocka_run_one_tests).
Accounted(t) == t < current \/ (t = current /\ pc \in {"next", "wrapUp", "finish", "returned"})

FailedIn(kinds, t) == \E kind \in kinds : <<kind, t>> \in failures

StatusIsOwn ==
  \A t \in Tests : Accounted(t) =>
    /\ status[t] = "error" <=> FailedIn({"setup", "teardown"}, t)
    /\ CASE status[t] = "passed"  -> ended[t] \in {"returned", "stopped"}
         [] status[t] = "skipped" -> ended[t] = "skipped"
         [] status[t] = "failed"  -> ended[t] = "failed"
         [] OTHER -> status[t] = "error" \/ FailedIn({"groupSetup"}, 0)

\* cmocka.h on skip(): it marks the test as skipped; the comment where the flag is
\* lowered again says that the next test is not skipped by it.
SkippedMeansSkipped ==
  \A t \in Tests : Accounted(t) /\ status[t] = "skipped" => ended[t] = "skipped"

\* The counters and the number the group returns agree with the statuses: every
\* test is counted once, and failed and erroneous tests, and a failed group
\* setup, make up the result (_cmocka_run_group_tests).
InStatus(s) == {t \in Tests : Accounted(t) /\ status[t] = s}

TotalsAgree ==
  pc \in {"next", "wrapUp", "finish", "returned"} /\ groups > 0 =>
    LET setupFailed == IF FailedIn({"groupSetup"}, 0) THEN 1 ELSE 0 IN
    /\ totals["executed"] = IF setupFailed = 1 THEN 0 ELSE current
    /\ \A s \in {"passed", "failed", "skipped"} : totals[s] = Cardinality(InStatus(s))
    /\ totals["errors"] = Cardinality(InStatus("error")) + setupFailed
    /\ pc = "returned" /\ verdict # -1 =>
         verdict = Cardinality(InStatus("failed") \cup InStatus("error")) + setupFailed

\* What a build relies on: when a group returns 0, all of its tests were executed, and
\* each of them is reported as passed or skipped (_cmocka_run_group_tests).
ZeroMeansAllPassed ==
  pc = "returned" /\ verdict = 0 => \A t \in Tests : status[t] \in {"passed", "skipped"}

\* And that is what happened: no test function failed, and no setup or teardown of a
\* test or setup of the group; what the group teardown returns is not counted.
ZeroMeansNothingFailed ==
  pc = "returned" /\ verdict = 0 =>
    /\ \A t \in Tests : /\ ended[t] \in {"returned", "stopped", "skipped"}
                        /\ ~FailedIn({"setup", "teardown"}, t)
    /\ ~FailedIn({"groupSetup"}, 0)

\* cmocka.h on mock_assert: a false assertion fails the test, or is caught by the
\* expect_assert_failure around the call; control goes nowhere else.
AssertsFailTheTest == pc # "undefined"

\* mainpage.dox: with CMOCKA_TEST_ABORT=1 cmocka calls abort() if a test fails, and
\* only then, except that stop() aborts as well (exit_test).
AbortMeansFailed ==
  /\ pc = "aborted" => cause \in {"failed", "stopped"}
  /\ suite.testAbort /\ Returned("test") => cause # "failed"

\* Where a group is in the eyes of the program that runs it.
Phase ==
  CASE pc \in {"group", "returned"} -> "none"
    [] pc \in Lost -> "gone"
    [] pc = "next" -> IF totals["executed"] = NumTests THEN "end" ELSE "tests"
    [] pc \in {"wrapUp", "finish"} -> "end"
    [] OTHER -> CASE frame = "groupSetup" -> "setup"
                  [] frame = "groupTeardown" -> "end"
                  [] OTHER -> "tests"

Abstract ==
  INSTANCE TestGroup WITH
    phase    <- Phase,
    left     <- NumTests - totals["executed"],
    executed <- totals["executed"],
    errors   <- totals["failed"] + totals["errors"],
    result   <- IF pc = "returned" THEN verdict ELSE 0

\* Whatever the user functions do, a group executes each of its tests once, or none
\* when its setup fails, and returns the number of errors
\* (_cmocka_run_group_tests implements TestGroup).
RunsEveryTest == Abstract!Spec

\* Once a test has started, however it ends, its teardown runs as well, unless the
\* process ends (cmocka_run_one_tests).
TornDown ==
  \A t \in Tests :
    (pc = "body" /\ frame = "test" /\ current = t /\ t \in suite.teardown)
      ~> ((pc = "body" /\ frame = "teardown" /\ current = t) \/ pc \in Lost)

\* How far a group is from its end: the tests it has not begun, the stages before the
\* next test, the places before the frame is left, and the calls of its function.
StagesLeft ==
  CASE pc \in Lost \cup {"group", "returned"} -> 0
    [] pc = "finish" -> 1
    [] pc = "wrapUp" -> 3
    [] pc = "next"   -> 4
    [] OTHER -> [groupSetup |-> 8, setup |-> 7, test |-> 6, teardown |-> 5,
                 groupTeardown |-> 2][frame]

PlacesLeft ==
  CASE pc = "body"      -> 5
    [] pc = "checks"    -> 4
    [] pc = "leftovers" -> 3
    [] pc = "jumped"    -> 2
    [] pc = "leave"     -> 1
    [] OTHER            -> 0

\* One of these numbers gets less, and those before it stay.
Nearer ==
  \/ NumTests - current' < NumTests - current
  \/ /\ current' = current
     /\ \/ StagesLeft' < StagesLeft
        \/ /\ StagesLeft' = StagesLeft
           /\ \/ PlacesLeft' < PlacesLeft
              \/ PlacesLeft' = PlacesLeft /\ MaxOps - ops' < MaxOps - ops

\* Every step of a group brings it nearer to its end: no order of failures, skips, stops
\* and teardowns leads back to a place where the same group has been
\* (_cmocka_run_group_tests, cmocka_run_one_tests, cmocka_run_one_test_or_fixture).
GroupAdvances == [][groups' = groups => Nearer]_vars

\* A group comes to its end, with a result or with the process.
GroupEnds == \A n \in 1 .. MaxGroups : groups = n ~> (pc = "returned" \/ pc \in Lost)
=============================================================================
