------------------------------ MODULE TaskTests ------------------------------
(* UnitTest_trcTask: tasks, which are entries with a priority as their state, *)
(* with and without a handle, and the current task (trcTask.h, external).     *)
EXTENDS EntryTable

TaskGlobals == EntryGlobals @@ [current |-> 2]

pvTask == 12345678       \* the address of the task of a test

TaskOutcome(step, s) ==
  LET a == step.args IN
  CASE step.call = "TaskInitialize" -> Succeeds([s EXCEPT !.current = 2])
    [] step.call = "TaskRegister" -> Register(a[4], a[1], a[2], a[3], s)
    [] step.call = "TaskRegisterWithoutHandle" -> Register("none", a[1], a[2], a[3], s)
    [] step.call = "TaskUnregister" -> Delete(Of(a[1], s), s)
    [] step.call = "TaskUnregisterWithoutHandle" -> Delete(At(a[1], s), s)
    [] step.call = "TaskSetName" -> SetSymbol(Of(a[1], s), a[2], s)
    \* A task that is not there is registered first.
    [] step.call = "TaskSetNameWithoutHandle" ->
         LET t == IF At(a[1], s) # {} THEN s ELSE Register("none", a[1], "", 0, s).s
         IN SetSymbol(At(a[1], t), a[2], t)
    [] step.call = "TaskSetPriority" -> SetState(Of(a[1], s), 0, a[2], s)
    [] step.call = "TaskSetPriorityWithoutHandle" -> SetState(At(a[1], s), 0, a[2], s)
    [] step.call \in {"TaskSwitch", "TaskReady"} -> Succeeds(s)
    [] step.call = "TaskSetCurrent" -> Succeeds([s EXCEPT !.current = a[1]])
    [] step.call \in {"TaskGetCurrent", "TaskGetCurrentReturn"} -> Returns(s.current, s)
    [] OTHER -> EntryOutcome(step, s)
-----------------------------------------------------------------------------
group_setup_Task    == <<>>
group_teardown_Task == <<>>

setup_Task ==
  <<Ok("EntryTableInitialize", <<>>), Ok("EntryIndexTableInitialize", <<>>),
    Ok("TaskInitialize", <<>>), Ok("DiagnosticsInitialize", <<>>)>>

teardown_Task == <<>>

Registers(address, name) == <<Ok("TaskRegister", <<address, name, 10, "task">>)>>
RegistersWithoutHandle(address, name) == <<Ok("TaskRegisterWithoutHandle", <<address, name, 10>>)>>

FindsEntry(address) == <<Ok("EntryFind", <<address, "entry">>)>>
HasSymbol(name)     == <<Gives("EntryGetSymbol", <<"entry">>, name)>>
HasPriority(value)  == <<Gives("EntryGetState", <<"entry", 0>>, value)>>

test_xTraceTaskRegister ==
  Clears("task") \o NullTests("TaskRegister", 2) \o Registers(pvTask, "TEST")
    \o FindsEntry(pvTask) \o HasSymbol("TEST") \o Registers(pvTask + 1, "")

test_xTraceTaskRegisterWithoutHandle ==
  NullTest("TaskRegisterWithoutHandle") \o RegistersWithoutHandle(pvTask, "TEST")
    \o FindsEntry(pvTask) \o HasSymbol("TEST") \o RegistersWithoutHandle(pvTask + 1, "")

test_xTraceTaskUnregister ==
  Clears("task") \o NullTest("TaskUnregister") \o Registers(pvTask, "TEST")
    \o <<Ok("TaskUnregister", <<"task">>), Fails("TaskUnregister", <<"task">>)>>

test_xTraceTaskUnregisterWithoutHandle ==
  LET call == "TaskUnregisterWithoutHandle" IN
  NullTest(call) \o <<Fails(call, <<pvTask>>)>> \o RegistersWithoutHandle(pvTask, "TEST")
    \o <<Ok(call, <<pvTask>>), Fails(call, <<pvTask>>)>>

test_xTraceTaskSetName ==
  LET named(name) == <<Ok("TaskSetName", <<"task", name>>)>> \o HasSymbol(name) IN
  Clears("task") \o NullTest("TaskSetName") \o Registers(pvTask + 1, "TEST")
    \o FindsEntry(pvTask + 1) \o HasSymbol("TEST") \o named("") \o named("") \o named("TEST")

test_xTraceTaskSetNameWithoutHandle ==
  LET name(new) == <<Ok("TaskSetNameWithoutHandle", <<pvTask, new>>)>> IN
  NullTest("TaskSetNameWithoutHandle") \o name("") \o FindsEntry(pvTask) \o HasSymbol("")
    \o name("") \o HasSymbol("") \o name("") \o HasSymbol("") \o name("TEST") \o HasSymbol("TEST")

test_xTraceTaskSetPriority ==
  Clears("task") \o NullTest("TaskSetPriority") \o Registers(pvTask, "TEST")
    \o FindsEntry(pvTask) \o HasPriority(10) \o <<Ok("TaskSetPriority", <<"task", 20>>)>> \o HasPriority(20)

test_xTraceTaskSetPriorityWithoutHandle ==
  LET call == "TaskSetPriorityWithoutHandle" IN
  NullTest(call) \o <<Fails(call, <<pvTask, 10>>)>> \o RegistersWithoutHandle(pvTask, "TEST")
    \o FindsEntry(pvTask) \o HasPriority(10) \o <<Ok(call, <<pvTask, 20>>)>> \o HasPriority(20)

test_xTraceTaskSwitch == <<Ok("TaskSwitch", <<0, 10>>), Ok("TaskSwitch", <<pvTask, 10>>)>>

test_xTraceTaskReady == <<Ok("TaskReady", <<0>>), Ok("TaskReady", <<pvTask>>)>>

test_xTraceTaskSetGetCurrent ==
  LET current(task) == <<Gives("TaskGetCurrent", <<>>, task), Gives("TaskGetCurrentReturn", <<>>, task)>>
      sets(task) == <<Ok("TaskSetCurrent", <<task>>)>> \o current(task)
  IN current(2) \o sets(12345678) \o sets(87654321)

\* test_xTraceTaskInitialize is not in the list.
runTaskTests ==
  LET unit_test(name, body) == Test(name, setup_Task, body, teardown_Task) IN
  <<unit_test("Register", test_xTraceTaskRegister),
    unit_test("RegisterWithoutHandle", test_xTraceTaskRegisterWithoutHandle),
    unit_test("Unregister", test_xTraceTaskUnregister),
    unit_test("UnregisterWithoutHandle", test_xTraceTaskUnregisterWithoutHandle),
    unit_test("SetName", test_xTraceTaskSetName),
    unit_test("SetNameWithoutHandle", test_xTraceTaskSetNameWithoutHandle),
    unit_test("SetPriority", test_xTraceTaskSetPriority),
    unit_test("SetPriorityWithoutHandle", test_xTraceTaskSetPriorityWithoutHandle),
    unit_test("Switch", test_xTraceTaskSwitch),
    unit_test("Ready", test_xTraceTaskReady),
    unit_test("SetGetCurrent", test_xTraceTaskSetGetCurrent)>>
=============================================================================
