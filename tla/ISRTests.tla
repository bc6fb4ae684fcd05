------------------------------ MODULE ISRTests ------------------------------
(* UnitTest_trcISR: interrupt handlers that nest, and the events they create  *)
(* (trcISR.h, external).                                                      *)
EXTENDS EntryTable

\* task is MOCK_TASK_pvCurrentTask, nested the handlers that run, the last one on top.
ISRGlobals == EntryGlobals @@ [task |-> 0, nested |-> <<>>]

ISROutcome(step, s) ==
  LET a == step.args IN
  CASE step.call = "ISRInitialize" -> Succeeds([s EXCEPT !.nested = <<>>])
    [] step.call = "ISRRegister" ->
         LET new == Create("isr", LAMBDA slot : slot, s).s
             named == SetState(Of("isr", new), 0, a[2], SetSymbol(Of("isr", new), a[1], new).s).s
         IN Succeeds(xTraceEventCreateData(named, <<"DEFINE_ISR", new.handles["isr"], a[2]>>, a[1]))
    [] step.call \in {"ISRGetCurrentNesting", "ISRGetCurrentNestingReturned"} ->
         Returns(Len(s.nested) - 1, s)
    [] step.call = "ISRGetCurrent" ->
         IF s.nested = <<>> THEN Refuses(s) ELSE Returns(Last(s.nested), s)
    [] step.call = "ISRBegin" ->
         Succeeds(xTraceEventCreate([s EXCEPT !.nested = Append(@, a[1])], <<"ISR_BEGIN", a[1]>>))
    [] step.call = "ISREnd" ->
         IF s.nested = <<>> THEN Refuses(s)
         ELSE LET outer == Front(s.nested) IN
              Succeeds(xTraceEventCreate([s EXCEPT !.nested = outer],
                         IF outer = <<>> THEN <<"TASK_ACTIVATE", s.task>>
                         ELSE <<"ISR_RESUME", Last(outer)>>))
    [] OTHER -> EntryOutcome(step, s)
-----------------------------------------------------------------------------
group_setup_ISR    == <<>>
group_teardown_ISR == <<>>

setup_ISR ==
  <<Ok("EntryTableInitialize", <<>>), Ok("EntryIndexTableInitialize", <<>>),
    Ok("ISRInitialize", <<>>), Ok("DiagnosticsInitialize", <<>>)>>

teardown_ISR == <<>>

test_xTraceISRInitialize == NullTest("ISRInitialize") \o <<Ok("ISRInitialize", <<>>)>>

Registers(name, priority, slot) ==
  Clears("isr")
    \o <<CreatesData("ISRRegister", <<name, priority>>, <<"DEFINE_ISR", slot, priority>>, name)>>

\* A handler is registered in a slot, and what its entry has.
Registered(name, priority, slot) ==
  Registers(name, priority, slot) \o IsSet("isr") \o
  <<Gives("EntryGetSymbol", <<"isr">>, name), Gives("EntryGetState", <<"isr", 0>>, priority)>>

test_xTraceISRRegister ==
  Clears("isr") \o NullTest("ISRRegister") \o Registers("", 1, 1)
    \o Registered("TEST_ISR1", 1, 2) \o Registered("TEST_ISR2", 5, 3)

Current(handle) == <<Gives("ISRGetCurrent", <<>>, handle)>>
Begins(handle)  == <<Creates("ISRBegin", <<handle>>, <<"ISR_BEGIN", handle>>)>>
Resumes(handle) == <<Creates("ISREnd", <<>>, <<"ISR_RESUME", handle>>)>>
ToTask ==
  <<Set("task", 12343214), Creates("ISREnd", <<>>, <<"TASK_ACTIVATE", 12343214>>)>>
NoneCurrent == <<Fails("ISRGetCurrent", <<>>)>>

Nesting(n) == <<Gives("ISRGetCurrentNesting", <<>>, n), Gives("ISRGetCurrentNestingReturned", <<>>, n)>>

test_xTraceISRGetCurrentAndCurrentNesting ==
  LET begins(handle, n)  == Begins(handle) \o Nesting(n) \o Current(handle)
      resumes(handle, n) == Resumes(handle) \o Nesting(n) \o Current(handle)
  IN NullTest("ISRGetCurrentNesting") \o Nesting(-1) \o NoneCurrent
       \o begins(1, 0) \o begins(2, 1) \o begins(3, 2) \o resumes(2, 1)
       \o begins(3, 2) \o resumes(2, 1) \o resumes(1, 0) \o ToTask \o Nesting(-1) \o NoneCurrent

Handlers == <<5, 4, 2, 3, 1, 9>>

test_xTraceISRBegin ==
  Repeat(Len(Handlers), LAMBDA i : Begins(Handlers[i]) \o Current(Handlers[i]))

test_xTraceISREnd ==
  Repeat(Len(Handlers), LAMBDA i : <<Ok("ISRBegin", <<Handlers[i]>>)>>) \o Current(9)
    \o Repeat(5, LAMBDA i : Resumes(Handlers[6 - i]) \o Current(Handlers[6 - i]))
    \o ToTask \o NoneCurrent

runISRTests ==
  LET unit_test(name, body) == Test(name, setup_ISR, body, teardown_ISR) IN
  <<Test("Initialize", <<>>, test_xTraceISRInitialize, <<>>),
    unit_test("Register", test_xTraceISRRegister),
    unit_test("GetCurrentAndCurrentNesting", test_xTraceISRGetCurrentAndCurrentNesting),
    unit_test("Begin", test_xTraceISRBegin),
    unit_test("End", test_xTraceISREnd)>>
=============================================================================
