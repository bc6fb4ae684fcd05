-------------------------- MODULE StateMachineTests --------------------------
(* UnitTest_trcStateMachine: machines, and states that belong to one machine  *)
(* (trcStateMachine.h, external).                                             *)
EXTENDS EntryTable

StateMachineGlobals == EntryGlobals

\* A state's entry keeps the handle of its machine as its state 0.
StateMachineOutcome(step, s) ==
  LET a == step.args IN
  CASE step.call = "StateMachineCreate" -> Create(a[1], LAMBDA slot : slot, s)
    [] step.call = "StateMachineStateCreate" ->
         LET t == Create(a[2], LAMBDA slot : slot, s).s
         IN IF Of(a[1], s) = {} THEN Refuses(s)
            ELSE SetState(Of(a[2], t), 0, s.handles[a[1]], t)
    [] step.call = "StateMachineSetState" ->
         If(\E m \in Of(a[1], s), t \in Of(a[2], s) : s.entries[t].states[0] = m, s, s)
    [] step.call = "Differ" -> Returns(Of(a[1], s) # Of(a[2], s), s)
    [] OTHER -> EntryOutcome(step, s)
-----------------------------------------------------------------------------
\* The handles that the test state starts and ends with are all 0.
NoHandles == <<Set("handles", <<>>)>>

group_setup_StateMachine    == NoHandles
group_teardown_StateMachine == NoHandles

setup_emptyStateMachine == InitializesTables

setup_twoStatesTwoMachines ==
  Nested(setup_emptyStateMachine)
    \o <<Ok("StateMachineCreate", <<"machine1">>), Ok("StateMachineCreate", <<"machine2">>)>>

CreatesState(machine, state) == <<Ok("StateMachineStateCreate", <<machine, state>>)>>

setup_all ==
  Nested(setup_twoStatesTwoMachines)
    \o CreatesState("machine1", "state11") \o CreatesState("machine1", "state12")
    \o CreatesState("machine2", "state21") \o CreatesState("machine2", "state22")

teardown_stateMachine == NoHandles

Differ(a, b) == <<[Glance("Differ", TRUE) EXCEPT !.args = <<a, b>>]>>

test_xTraceStateMachineCreate ==
  <<Ok("StateMachineCreate", <<"machine1">>)>> \o NullTest("StateMachineCreate")
    \o <<Ok("StateMachineCreate", <<"machine1">>), Ok("StateMachineCreate", <<"machine2">>)>>
    \o Differ("machine1", "machine2")

test_xTraceStateMachineStateCreate ==
  NullTest("StateMachineStateCreate") \o CreatesState("machine1", "state11")
    \o NullTest("StateMachineStateCreate")
    \o CreatesState("machine1", "state11") \o CreatesState("machine1", "state12")
    \o Differ("state11", "state12")
    \o CreatesState("machine2", "state21") \o CreatesState("machine2", "state22")
    \o Differ("state21", "state22")

test_xTraceStateMachineSetState ==
  LET enters(machine, state) == Ok("StateMachineSetState", <<machine, state>>)
      not(machine, state)    == Fails("StateMachineSetState", <<machine, state>>)
  IN NullTests("StateMachineSetState", 2)
       \o <<enters("machine1", "state11"), enters("machine1", "state12"),
            not("machine1", "state21"), not("machine1", "state22"),
            not("machine2", "state11"), not("machine2", "state12"),
            enters("machine2", "state21"), enters("machine2", "state22")>>

runStateMachineTests ==
  <<Test("Create", setup_emptyStateMachine, test_xTraceStateMachineCreate, teardown_stateMachine),
    Test("StateCreate", setup_twoStatesTwoMachines, test_xTraceStateMachineStateCreate,
         teardown_stateMachine),
    Test("SetState", setup_all, test_xTraceStateMachineSetState, teardown_stateMachine)>>
=============================================================================
