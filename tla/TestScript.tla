----------------------------- MODULE TestScript -----------------------------
(***************************************************************************)
(* What the unit tests of the recorder are made of: scripts of steps, and  *)
(* the mocks they set.  A step assigns a global of the program, asserts    *)
(* something of the globals, or calls the recorder and asserts what comes  *)
(* back.                                                                   *)
(*                                                                         *)
(* The recorder is not part of the repository.  The operators named        *)
(* ...Outcome say no more of it than what the tests rely on.  Data of the  *)
(* tests are small numbers and names: only what they compare is kept.      *)
(***************************************************************************)
EXTENDS Integers, Sequences, FiniteSets, SequencesExt, FiniteSetsExt

Null == "null"

(* A step: its kind, the call and its arguments, the beginning of <<result,  *)
(* value>> that it asserts, and what it asserts of the event that the call   *)
(* creates and of the data of that event, a buffer with its size.            *)
Step(kind, call, args, want) ==
  [kind |-> kind, call |-> call, args |-> args, want |-> want, event |-> <<>>, data |-> Null]

Ok(call, args)       == Step("call", call, args, <<"OK">>)
Fails(call, args)    == Step("call", call, args, <<"FAIL">>)
Gives(call, args, v) == Step("call", call, args, <<"OK", v>>)

\* A call whose result the test does not look at.
Unchecked(call, args) == Step("call", call, args, <<>>)

\* The same with assert_int_equal, which does not look at the critical sections.
Plainly(call) == [call EXCEPT !.kind = "plain"]

\* Calls with n different arguments null: each must be refused, with the checks of
\* arguments compiled in (TRC_CFG_USE_TRACE_ASSERT).
NullTests(call, n) == [i \in 1 .. n |-> Step("null", call, <<>>, <<"FAIL">>)]
NullTest(call)     == NullTests(call, 1)

\* assert_int_equal_cs_create0 .. 6, and assert_int_equal_cs_create_data0 .. 6
Creates(call, args, event) ==
  [Step("call", call, args, <<"OK">>) EXCEPT !.event = event]

CreatesData(call, args, event, data) == [Creates(call, args, event) EXCEPT !.data = data]

\* An assignment to a global of the program, and an assertion on its globals.
Set(global, value) == Step("set", global, <<value>>, <<>>)
Assign(call)       == Step("assign", call, <<>>, <<>>)   \* from the recorder's data
See(what, value)   == Step("see", what, <<>>, <<"OK", value>>)

\* The same with assert_int_not_equal or assert_true, which do not look at the critical
\* sections either.
Glance(what, value) == [See(what, value) EXCEPT !.kind = "glance"]

\* The steps Round(1) .. Round(n).
Repeat(n, Round(_)) == FlattenSeq([i \in 1 .. n |-> Round(i)])

\* cmocka_unit_test_setup_teardown; a fixture that is not given is empty.
Test(name, setup, body, teardown) ==
  [name |-> name, setup |-> setup, body |-> body, teardown |-> teardown]
-----------------------------------------------------------------------------
(* The mocks.                                                              *)

\* The globals of every test program, as they are defined in it: critical is
\* MOCK_uiCriticalSection, critical_expected MOCK_uiCriticalSectionExpectedValue,
\* components the bits of MOCK_RecorderInitialized, event MOCK_EVENT_CREATE_uiEventCode
\* and the values after it, data the text in
\* MOCK_EVENT_CREATE_DATA_pxBuffer, with its length MOCK_EVENT_CREATE_DATA_uxSize.
MockGlobals == [critical |-> 0, critical_expected |-> 0, components |-> {"core"},
                event |-> <<>>, data |-> Null]

Balanced(s) == s.critical = s.critical_expected

\* (mutant of assert_int_equal_cs: it is assert_int_equal)
AssertsValue(step, result, s) == SubSeq(result, 1, Len(step.want)) = step.want

\* assert_int_equal_cs(_x, _y): a value is asserted, and that the recorder has left
\* its critical sections.
assert_int_equal_cs(step, result, s) ==
  /\ SubSeq(result, 1, Len(step.want)) = step.want
  /\ step.want = <<>> \/ step.kind \in {"plain", "glance"} \/ Balanced(s)

prvClearEventData(s) == [s EXCEPT !.event = <<>>, !.data = Null]

prvVerifyEventCreate(step, s) ==
  step.event # <<>> => s.event = step.event /\ s.data = step.data

\* xTraceEventCreate0 .. 6: the values that an event does not have keep those of the
\* event before it.
xTraceEventCreate(s, event) ==
  [s EXCEPT !.event = event \o SubSeq(@, Len(event) + 1, Len(@))]

\* xTraceEventCreateData0 .. 6
xTraceEventCreateData(s, event, data) == [xTraceEventCreate(s, event) EXCEPT !.data = data]

\* (mutant of SetComponentInitialized: it stays in the critical section)
SetAndStay(component, s) == [s EXCEPT !.components = @ \cup {component}, !.critical = @ + 1]

\* xTraceSetComponentInitialized, xTraceIsComponentInitialized
SetComponentInitialized(component, s) == [s EXCEPT !.components = @ \cup {component}]
IsComponentInitialized(component, s)  == component \in s.components

\* TRACE_ENTER_CRITICAL_SECTION
EnterCriticalSection(s) == [s EXCEPT !.critical = @ + 1]
-----------------------------------------------------------------------------
(* What a call returns and leaves behind.                                  *)

Outcome(ok, value, s) == [result |-> IF ok THEN <<"OK", value>> ELSE <<"FAIL", value>>, s |-> s]

Succeeds(s)    == Outcome(TRUE, Null, s)
Returns(v, s)  == Outcome(TRUE, v, s)
Refuses(s)     == Outcome(FALSE, Null, s)

\* The call succeeds with state t if its arguments are right, else it does nothing.
If(right, t, s) == IF right THEN Succeeds(t) ELSE Refuses(s)
=============================================================================
