----------------------- MODULE EventVerificationTests -----------------------
(* UnitTest_trcEventVerification: events that say what other events the tool  *)
(* is to expect (trcEventVerification.h, external); not in the list of        *)
(* UnitTest_RUNNER.                                                           *)
EXTENDS TestScript

\* The event in MOCK_streamPortBuffer: its code and values.
EventVerificationGlobals == [written |-> <<>>]

EventVerificationOutcome(step, s) ==
  CASE step.call \in {"DiagnosticsInitialize", "EventInitialize"} -> Succeeds(s)
    [] OTHER -> Succeeds([s EXCEPT !.written = step.args])
-----------------------------------------------------------------------------
group_setup_EventVerification    == <<>>
group_teardown_EventVerification == <<>>
setup_EventVerification ==
  <<Ok("DiagnosticsInitialize", <<>>), Ok("EventInitialize", <<>>)>>
teardown_EventVerification       == <<>>

\* An event of n values, and what is then in the buffer: its code, and the values that
\* the test looks at.
Writes(call, code, n, i) ==
  LET event == <<code>> \o [k \in 1 .. n |-> 16 * k + i] IN
  <<[call EXCEPT !.args = event], See("written", event)>>

\* xTraceEventExpect_0, _Handle_0, _1, _Handle_1, _2, _Handle_2 and _3, whose result is
\* not looked at, have 3, 4, 4, 5, 5, 6 and 6 values, the second one the line.
test_xTraceEventExpect ==
  <<Set("critical_expected", 0)>>
    \o Writes(Ok("EventExpectNever", <<>>), "EXPECT_EMPTY", 1, 0)
    \o Writes(Ok("EventExpectEmpty", <<>>), "EXPECT_EMPTY", 2, 0)
    \o Repeat(7, LAMBDA i : LET n == <<3, 4, 4, 5, 5, 6, 6>>[i] IN
         Writes(Unchecked("EventExpect", <<>>), "EXPECT", n, i))

runEventVerificationTests ==
  <<Test("Expect", setup_EventVerification, test_xTraceEventExpect, teardown_EventVerification)>>
=============================================================================
