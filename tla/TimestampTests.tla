---------------------------- MODULE TimestampTests ----------------------------
(* UnitTest_trcTimestamp: the clock of the recorder on a counter that runs    *)
(* down (TRC_HWTC_TYPE in its mocks; trcTimestamp.h, external).               *)
EXTENDS TestScript

\* Values of 32 bits beyond 2^31 are negative.
LastValue == -1     \* 0xFFFFFFFF

TimestampGlobals ==
  [cycle     |-> 0,     \* MOCK_uiCycleCounterTest
   increment |-> 0,     \* MOCK_uiCycleCounterIncrementTest
   period |-> 0, frequency |-> 0, ticks |-> 0,
   latest |-> 0, wraparounds |-> 0]

TimestampOutcome(step, s) ==
  LET a == step.args IN
  CASE step.call = "TimestampInitialize" ->
         Succeeds([s EXCEPT !.period = 0, !.frequency = 0, !.ticks = 0,
                            !.latest = LastValue, !.wraparounds = 0])
    [] step.call = "TimestampSet" -> Succeeds([s EXCEPT ![a[1]] = a[2]])
    [] step.call = "TimestampGetValue" -> Returns(s[a[1]], s)
    \* TRC_HWTC_COUNT counts down; a value above the latest one is a wraparound.
    [] step.call = "TimestampGet" ->
         LET now == s.cycle - s.increment IN
         Returns(now, [s EXCEPT !.cycle = now, !.latest = now,
                                !.wraparounds = IF now > s.latest THEN @ + 1 ELSE @])
    \* MOCK_uiCycleCounterTest = pxTraceTimestamp->latestTimestamp
    [] step.call = "prime" -> Succeeds([s EXCEPT !.cycle = s.latest])
-----------------------------------------------------------------------------
group_setup_Timestamp    == <<>>
group_teardown_Timestamp == <<>>
setup_Timestamp          == <<Ok("TimestampInitialize", <<>>)>>
teardown_Timestamp       == <<>>

test_xTraceTimestampInitialize ==
  NullTest("TimestampInitialize") \o <<Ok("TimestampInitialize", <<>>)>>

SetsAndGets(what) ==
  NullTest("TimestampGetValue")
    \o Repeat(4, LAMBDA i : LET value == <<0, 10, 20, 123456>>[i] IN
         <<Ok("TimestampSet", <<what, value>>), Gives("TimestampGetValue", <<what>>, value)>>)

test_xTraceTimestampSetGetPeriod      == SetsAndGets("period")
test_xTraceTimestampSetGetFrequency   == SetsAndGets("frequency")
test_xTraceTimestampSetGetOsTickCount == SetsAndGets("ticks")

\* The counter gives a value, and has wrapped around so often.
Reads(value)   == <<Gives("TimestampGet", <<>>, value), See("cycle", value)>>
HasWrapped(n)  == <<Gives("TimestampGetValue", <<"wraparounds">>, n)>>

\* The mocked counter starts at the latest timestamp.  MOCK_uiPeriod is 0: the second increment makes the counter go up.
test_xTraceTimestampGet ==
  NullTest("TimestampGet") \o <<Assign("prime")>> \o <<Set("increment", 1)>>
    \o Reads(-2) \o Reads(-3) \o Reads(-4) \o Reads(-5) \o HasWrapped(0)
    \o <<Set("increment", -1)>>
    \o Reads(-4) \o HasWrapped(1) \o Reads(-3) \o HasWrapped(2)

runTimestampTests ==
  LET unit_test(name, body) == Test(name, setup_Timestamp, body, teardown_Timestamp) IN
  <<Test("Initialize", <<>>, test_xTraceTimestampInitialize, <<>>),
    unit_test("SetGetFrequency", test_xTraceTimestampSetGetFrequency),
    unit_test("SetGetPeriod", test_xTraceTimestampSetGetPeriod),
    unit_test("SetGetOsTickCount", test_xTraceTimestampSetGetOsTickCount),
    unit_test("Get", test_xTraceTimestampGet)>>
=============================================================================
