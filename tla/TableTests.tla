------------------------------ MODULE TableTests ------------------------------
(* UnitTest_trcStackMonitor and UnitTest_trcStaticBuffer: the tasks whose     *)
(* stacks are watched, and the buffers of cores and nested interrupts         *)
(* (trcStackMonitor.h, trcStaticBuffer.h, external).                          *)
EXTENDS TestScript

MaxTasks == 4          \* TRC_CFG_STACK_MONITOR_MAX_TASKS

StackMonitorGlobals == [tasks |-> <<>>, no_slots |-> 0]

StackMonitorOutcome(step, s) ==
  LET a == step.args IN
  CASE step.call = "StackMonitorInitialize" -> Succeeds([s EXCEPT !.tasks = <<>>])
    [] step.call = "DiagnosticsInitialize"  -> Succeeds([s EXCEPT !.no_slots = 0])
    [] step.call = "StackMonitorAdd" ->
         If(Len(s.tasks) < MaxTasks, [s EXCEPT !.tasks = Append(@, a[1])], s)
    [] step.call = "StackMonitorRemove" ->
         IF a[1] \notin ToSet(s.tasks) THEN Refuses(s)
         ELSE LET first == Min({i \in DOMAIN s.tasks : s.tasks[i] = a[1]}) IN
              Succeeds([s EXCEPT !.tasks = RemoveAt(@, first)])
    \* The task at an index; the low water mark is MOCK_uiUnusedStack.
    [] step.call = "StackMonitorGetAtIndex" ->
         IF a[1] \in DOMAIN s.tasks THEN Returns(s.tasks[a[1]], s) ELSE Refuses(s)
    [] step.call = "StackMonitorReport" -> Succeeds(s)
    [] step.call = "DiagnosticsSet"     -> Succeeds([s EXCEPT !.no_slots = a[1]])
    [] step.call = "DiagnosticsGet"     -> Returns(s.no_slots, s)

Cores      == 5        \* TRC_CFG_CORE_COUNT
MaxNesting == 16       \* TRC_CFG_MAX_ISR_NESTING

\* core is MOCK_uiCurrentCore, nesting MOCK_iISRNesting.
StaticBufferGlobals == [core |-> 0, nesting |-> -1]

StaticBufferOutcome(step, s) ==
  CASE step.call = "StaticBufferInitialize" -> Succeeds(s)
    [] step.call = "StaticBufferGet"        -> Returns(<<s.core, s.nesting + 1>>, s)
-----------------------------------------------------------------------------
(* UnitTest_trcStackMonitor                                                   *)

group_setup_StackMonitor    == <<>>
group_teardown_StackMonitor == <<>>
setup_StackMonitor ==
  <<Ok("StackMonitorInitialize", <<>>), Ok("DiagnosticsInitialize", <<>>)>>
teardown_StackMonitor       == <<>>

test_xTraceStackMonitorInitialize ==
  NullTest("StackMonitorInitialize") \o <<Ok("StackMonitorInitialize", <<>>)>>

Adds(task)    == <<Ok("StackMonitorAdd", <<task>>)>>
Removes(task) == <<Ok("StackMonitorRemove", <<task>>)>>
IsGone(task)  == <<Fails("StackMonitorRemove", <<task>>)>>

\* A task may be added more than once, until there is no room.
test_xTraceStackMonitorAdd ==
  NullTests("StackMonitorAdd", 2) \o Repeat(MaxTasks, LAMBDA i : Adds(8))
    \o <<Fails("StackMonitorAdd", <<8>>)>>

\* Tasks are removed in another order than that in which they were added.
test_xTraceStackMonitorRemove ==
  NullTest("StackMonitorRemove") \o IsGone(8) \o Adds(8) \o Removes(8) \o IsGone(8)
    \o Adds(8) \o Adds(9) \o Adds(10) \o Adds(11)
    \o Removes(10) \o Removes(11) \o Removes(8) \o Removes(9)
    \o IsGone(10) \o IsGone(11) \o IsGone(8) \o IsGone(9)

test_xTraceStackMonitorGetAtIndex ==
  NullTests("StackMonitorGetAtIndex", 3) \o Repeat(MaxTasks, LAMBDA i : Adds(7 + i))
    \o Repeat(MaxTasks, LAMBDA i : <<Gives("StackMonitorGetAtIndex", <<i>>, 7 + i)>>)

test_xTraceStackMonitorReport == <<Ok("StackMonitorReport", <<>>)>>

test_xTraceStackMonitorDiagnosticsGetSet ==
  Repeat(3, LAMBDA i : LET value == <<12345678, 77654321, 12344321>>[i] IN
    <<Ok("DiagnosticsSet", <<value>>), Gives("DiagnosticsGet", <<>>, value)>>)

runStackMonitorTests ==
  LET unit_test(name, body) == Test(name, setup_StackMonitor, body, teardown_StackMonitor) IN
  <<unit_test("Initialize", test_xTraceStackMonitorInitialize),
    unit_test("Add", test_xTraceStackMonitorAdd), unit_test("Remove", test_xTraceStackMonitorRemove),
    unit_test("GetAtIndex", test_xTraceStackMonitorGetAtIndex),
    unit_test("Report", test_xTraceStackMonitorReport),
    unit_test("DiagnosticsGetSet", test_xTraceStackMonitorDiagnosticsGetSet)>>
-----------------------------------------------------------------------------
(* UnitTest_trcStaticBuffer                                                   *)

group_setup_StaticBuffer    == <<>>
group_teardown_StaticBuffer == <<>>
setup_StaticBuffer          == <<Ok("StaticBufferInitialize", <<>>)>>
teardown_StaticBuffer       == <<>>

test_xTraceStaticBufferInitialize ==
  NullTest("StaticBufferInitialize") \o <<Ok("StaticBufferInitialize", <<>>)>>

\* Every core and nesting has a buffer of its own; the mocks are set back at the end,
\* which a test that fails does not come to.
test_xTraceStaticBufferGet ==
  NullTest("StaticBufferGet")
    \o Repeat(Cores, LAMBDA core :
         <<Set("core", core - 1)>>
           \o Repeat(MaxNesting + 1, LAMBDA i :
                <<Set("nesting", i - 2), Gives("StaticBufferGet", <<>>, <<core - 1, i - 1>>)>>))
    \o <<Set("core", 0), Set("nesting", -1)>>

runStaticBufferTests ==
  <<Test("Initialize", <<>>, test_xTraceStaticBufferInitialize, <<>>),
    Test("Get", setup_StaticBuffer, test_xTraceStaticBufferGet, teardown_StaticBuffer)>>
=============================================================================
