---------------------------- MODULE CounterTests ----------------------------
(* UnitTest_trcCounter: counters with limits and a callback for values beyond *)
(* them (trcCounter.h, external).                                             *)
EXTENDS EntryTable

Int32Min == -1000
Int32Max == 1000
Beyond   == 1500    \* 0xDEADBEEF, which is beyond INT32_MAX in a build for 64 bits

CounterGlobals ==
  EntryGlobals @@
  [counter  |-> [value |-> 0, low |-> 0, high |-> 0],
   callback |-> FALSE,     \* whether a callback is set
   called   |-> FALSE]     \* xCallbackCounterHandle has the handle of the counter
-----------------------------------------------------------------------------
InLimits(c) == c.low <= c.value /\ c.value <= c.high

\* A counter takes any value, and calls back when it is beyond the limits.
Changed(s, value) ==
  LET c == [s.counter EXCEPT !.value = value] IN
  [s EXCEPT !.counter = c, !.called = @ \/ (s.callback /\ ~InLimits(c))]

CounterOutcome(step, s) ==
  LET a == step.args IN
  CASE step.call = "Initialize" ->
         Succeeds(SetComponentInitialized("counter", [s EXCEPT !.callback = FALSE]))
    [] step.call = "SetCallback" ->
         If(IsComponentInitialized("counter", s), [s EXCEPT !.callback = TRUE], s)
    [] step.call = "Create" ->
         LET c == [value |-> a[1], low |-> a[2], high |-> a[3]] IN
         IF a[4] = Null \/ ~InLimits(c) THEN Refuses(s)
         ELSE Create(a[4], LAMBDA slot : slot, [s EXCEPT !.counter = c])
    [] step.call = "Get"      -> Returns(s.counter.value, s)
    [] step.call = "GetUpperLimit" -> Returns(s.counter.high, s)
    [] step.call = "GetLowerLimit" -> Returns(s.counter.low, s)
    [] step.call = "Add"      -> Succeeds(Changed(s, s.counter.value + a[1]))
    [] step.call = "Set"      -> Succeeds(Changed(s, a[1]))
    [] step.call = "Increase" -> Succeeds(Changed(s, s.counter.value + 1))
    [] step.call = "Decrease" -> Succeeds(Changed(s, s.counter.value - 1))
    [] OTHER -> EntryOutcome(step, s)
-----------------------------------------------------------------------------
ResetsMocks == <<Set("components", {"core"}), Set("critical", 0), Set("critical_expected", 0)>>

group_setup_Counter == ResetsMocks

group_teardown_Counter == <<Set("components", {"core"})>>

\* (mutant of setup_Counter: the mocks are left as the last test left them)
setup_CounterOnly == InitializesTables \o <<Ok("Initialize", <<>>)>>

setup_Counter == ResetsMocks \o InitializesTables \o <<Ok("Initialize", <<>>)>>

teardown_Counter == <<Set("components", {"core"})>>
-----------------------------------------------------------------------------
\* This test has no setup: the component must not be initialized when it starts.
test_xTraceCounterSetCallback ==
  InitializesTables
    \o <<Fails("SetCallback", <<>>), Ok("Initialize", <<>>)>>
    \o NullTest("SetCallback") \o <<Ok("SetCallback", <<>>)>>

CreatesCounter(value, low, high) == <<Ok("Create", <<value, low, high, "counter">>)>>

Created(value) == CreatesCounter(value, Int32Min, Int32Max)

CreatedAt(value) == Created(value) \o <<Gives("Get", <<>>, value)>>

\* The calls with a value beyond the limits are also without a handle.
test_xTraceCounterCreate ==
  Created(0) \o NullTest("Create")
    \o <<Fails("Create", <<-1, 0, 5, Null>>), Fails("Create", <<6, 0, 5, Null>>)>> \o Created(0)

test_xTraceCounterIncrease ==
  CreatedAt(10) \o <<Ok("Increase", <<>>), Gives("Get", <<>>, 11),
                     Ok("Increase", <<>>), Gives("Get", <<>>, 12)>>

test_xTraceCounterDecrease ==
  CreatedAt(10) \o <<Ok("Decrease", <<>>), Gives("Get", <<>>, 9),
                     Ok("Decrease", <<>>), Gives("Get", <<>>, 8)>>

test_xTraceCounterAdd ==
  CreatedAt(0) \o <<Ok("Add", <<Beyond>>), Gives("Get", <<>>, Beyond),
                    Ok("Add", <<-1400>>), Gives("Get", <<>>, Beyond - 1400)>>

test_xTraceCounterSet ==
  CreatedAt(0) \o <<Ok("Set", <<Beyond>>), Gives("Get", <<>>, Beyond)>>

\* One step beyond a limit or back, and whether the callback is called.
Passes(delta, called) == <<Set("called", FALSE), Ok("Add", <<delta>>), See("called", called)>>

test_xTraceCounterSetBeyondLimit ==
  CreatesCounter(1, 0, 2) \o
  <<Set("called", FALSE),
    Ok("Add", <<-2>>), See("called", FALSE), Ok("Add", <<2>>), See("called", FALSE),
    Unchecked("SetCallback", <<>>)>>
    \o Passes(-2, TRUE) \o Passes(2, FALSE) \o Passes(2, TRUE) \o Passes(-2, FALSE)

test_xTraceCounterGet == CreatedAt(123)

test_xTraceCounterGetUpperLimit == Created(0) \o <<Gives("GetUpperLimit", <<>>, Int32Max)>>

test_xTraceCounterGetLowerLimit == Created(0) \o <<Gives("GetLowerLimit", <<>>, Int32Min)>>

runCounterTests ==
  LET unit_test(name, body) == Test(name, setup_Counter, body, teardown_Counter) IN
  <<Test("SetCallback", <<>>, test_xTraceCounterSetCallback, teardown_Counter),
    unit_test("Create", test_xTraceCounterCreate),
    unit_test("Set", test_xTraceCounterSet),
    unit_test("SetBeyondLimit", test_xTraceCounterSetBeyondLimit),
    unit_test("Increase", test_xTraceCounterIncrease),
    unit_test("Decrease", test_xTraceCounterDecrease),
    unit_test("Add", test_xTraceCounterAdd),
    unit_test("Get", test_xTraceCounterGet),
    unit_test("GetLowerLimit", test_xTraceCounterGetLowerLimit),
    unit_test("GetUpperLimit", test_xTraceCounterGetUpperLimit)>>
=============================================================================
