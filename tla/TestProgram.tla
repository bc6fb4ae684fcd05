---------------------------- MODULE TestProgram ----------------------------
(***************************************************************************)
(* A unit test program: one group of tests, which share the globals of the *)
(* program's mocks and of the recorder.  The tests are scripts of steps;   *)
(* how a group goes through them is that of TestRunner, seen from outside: *)
(* a test or fixture fails at the first assertion that does not hold.      *)
(*                                                                         *)
(* The recorder under test may be faulty: a call may return what it should *)
(* not, with or without its effect, lose its effect, or stay in a critical *)
(* section.  A good test program reports the tests in which that happens,  *)
(* and no others.                                                          *)
(***************************************************************************)
EXTENDS TestScript

CONSTANTS Groups,              (* each program's globals, group fixtures and tests *)
          Recorder(_, _, _),   (* what a program's recorder does without a fault   *)
          MaxFaults            (* bound: faults of the recorder in a run           *)

\* Every program has a finite number of tests.
ASSUME GroupsAssumption ==
  /\ \A p \in DOMAIN Groups : Len(Groups[p].tests) \in Nat
  /\ MaxFaults \in Nat

\* The scripts of a group.
ScriptsOf(group) ==
  {group.setup, group.teardown}
    \cup UNION {{t.setup, t.body, t.teardown} : t \in {group.tests[i] : i \in 1 .. Len(group.tests)}}

\* What is asserted of a result begins with whether the call succeeded, and the counters
\* of critical sections are only set to 0.
IsStep(st) ==
  /\ st.want = <<>> \/ (Len(st.want) \in {1, 2} /\ st.want[1] \in {"OK", "FAIL"})
  /\ st.kind = "set" /\ st.call \in {"critical", "critical_expected"} => st.args[1] = 0

\* The scripts are made of such steps.
ASSUME ScriptsAssumption ==
  \A p \in DOMAIN Groups : \A script \in ScriptsOf(Groups[p]) :
    \A i \in 1 .. Len(script) : IsStep(script[i])

\* Programs in which every setup makes the critical sections of the mocks balanced
\* again; in the others every test after a fault in them fails.
Resetting == {"Counter"}

\* A step sets the counters of critical sections, or asserts something and that they
\* are balanced.
SetsSections(st) == st.kind = "set" /\ st.call \in {"critical", "critical_expected"}
Guards(st)       == st.want # <<>> /\ st.kind \notin {"plain", "glance", "set"}

SetsNothing(script) == \A i \in 1 .. Len(script) : ~SetsSections(script[i])
IsGuarded(script)   == \E i \in 1 .. Len(script) : Guards(script[i])

\* In the other programs only bodies set the counters (those of Event and
\* EventVerification), and only after a setup that asserts that they are balanced.
ASSUME SectionsAssumption ==
  \A p \in DOMAIN Groups \ Resetting :
    /\ SetsNothing(Groups[p].teardown)
    /\ \A i \in 1 .. Len(Groups[p].tests) :
         LET t == Groups[p].tests[i] IN
         /\ SetsNothing(t.setup) /\ SetsNothing(t.teardown)
         /\ SetsNothing(t.body) \/ IsGuarded(t.setup)

VARIABLES
  program,     \* the program
  place,       \* the user function that runs, or where the runner is
  test,        \* the test it is at, 0 in the group setup
  step,        \* steps of the user function done
  globals,     \* the globals of the program and of the recorder
  failed,      \* the test has failed, or one of its fixtures
  errors,      \* tests that failed, and the group setup: what the group returns
  faults,      \* history: faults of the recorder so far
  fault,       \* history: whether an assertion is to notice a fault in the test
  visible,     \* history: tests with a fault to be noticed, and the group setup
  suspects     \* history: tests with any fault, and the group setup

history == <<faults, fault, visible, suspects>>
vars    == <<program, place, test, step, globals, failed, errors, history>>

UserFunctions == {"groupSetup", "setup", "body", "teardown", "groupTeardown"}

Places == UserFunctions \cup {"account", "returned"}

Programs == DOMAIN Groups

Group == Groups[program]

\* The globals as they are defined: those of the mocks, and those of the program.
FirstGlobals(p) ==
  [x \in DOMAIN MockGlobals \cup DOMAIN Groups[p].globals |->
     IF x \in DOMAIN MockGlobals THEN MockGlobals[x] ELSE Groups[p].globals[x]]

\* The globals when a step starts: the events of the mocks are cleared first.
Before(st) == IF st.event = <<>> THEN globals ELSE prvClearEventData(globals)

Does(st) ==
  CASE st.kind = "set"  -> Succeeds([globals EXCEPT ![st.call] = st.args[1]])
    [] st.kind = "null" -> Refuses(globals)
    [] st.kind \in {"see", "glance"} /\ st.call \in DOMAIN globals -> Returns(globals[st.call], globals)
    [] OTHER -> Recorder(program, st, Before(st))

TypeOK ==
  /\ program \in Programs
  /\ place \in Places
  /\ test \in 0 .. Len(Group.tests)
  /\ step \in Nat
  /\ failed \in BOOLEAN /\ fault \in {"none", "silent", "visible"}
  /\ errors \in 0 .. test + 1
  /\ visible \in 0 .. test + 1 /\ suspects \in 0 .. test + 1
  /\ faults \in 0 .. MaxFaults

Init ==
  /\ program \in Programs
  /\ place = "groupSetup"
  /\ test = 0 /\ step = 0
  /\ globals = FirstGlobals(program)
  /\ failed = FALSE /\ errors = 0
  /\ faults = 0 /\ fault = "none" /\ visible = 0 /\ suspects = 0
-----------------------------------------------------------------------------
Script ==
  CASE place = "groupSetup"    -> Group.setup
    [] place = "setup"         -> Group.tests[test].setup
    [] place = "body"          -> Group.tests[test].body
    [] place = "teardown"      -> Group.tests[test].teardown
    [] place = "groupTeardown" -> Group.teardown

\* (mutant of After: the body also runs when its setup has failed)
AfterAnySetup(hasFailed) ==
  CASE place = "setup"         -> "body"
    [] place = "body"          -> "teardown"
    [] place = "groupTeardown" -> "returned"
    [] OTHER                   -> "account"

\* Where the runner goes when a user function has ended.
After(hasFailed) ==
  CASE place = "setup" /\ ~hasFailed -> "body"
    [] place = "body"                -> "teardown"
    [] place = "groupTeardown"       -> "returned"
    [] OTHER                         -> "account"

Leave(hasFailed) ==
  /\ place' = After(hasFailed)
  /\ step' = 0
  /\ failed' = (failed \/ hasFailed)

Running == place \in UserFunctions /\ step < Len(Script)

\* The step ends with an outcome; an assertion that does not hold ends the function.
Ends(st, outcome) ==
  /\ globals' = outcome.s
  /\ IF assert_int_equal_cs(st, outcome.result, outcome.s) /\ prvVerifyEventCreate(st, outcome.s)
     THEN step' = step + 1 /\ UNCHANGED <<place, failed>>
     ELSE Leave(TRUE)
  /\ UNCHANGED <<program, test, errors, visible, suspects>>

DoStep(st, right) == Ends(st, right) /\ UNCHANGED <<faults, fault>>

\* The recorder is at fault in a call.
HasFault(st, seen) ==
  /\ st.kind \in {"call", "plain", "null"}
  /\ faults < MaxFaults
  /\ faults' = faults + 1
  /\ fault' = IF seen \/ fault = "visible" THEN "visible" ELSE "silent"

\* There is an assertion on the result of the call.
Asserted(st) == st.want # <<>>

\* A call returns something else than it should, whether or not it had its effect.
ReturnWrongly(st, right) ==
  /\ HasFault(st, Asserted(st))
  /\ \E after \in {Before(st), right.s} : Ends(st, [result |-> <<"WRONG", Null>>, s |-> after])

\* A call does not leave its critical section.
StayInCritical(st, right) ==
  /\ HasFault(st, Asserted(st) /\ st.kind # "plain" /\ Balanced(globals))
  /\ Ends(st, [right EXCEPT !.s = EnterCriticalSection(@)])

\* A call returns what it should, and has not done it.
LoseEffect(st, right) ==
  /\ HasFault(st, FALSE)
  /\ right.s # Before(st)
  /\ Ends(st, [right EXCEPT !.s = Before(st)])

RunStep(st, right) ==
  \/ DoStep(st, right)
  \/ ReturnWrongly(st, right)
  \/ StayInCritical(st, right)
  \/ LoseEffect(st, right)

CallRecorder ==
  /\ Running
  /\ \E st \in {Script[step + 1]} : \E right \in {Does(st)} : RunStep(st, right)

EndOfFunction ==
  /\ place \in UserFunctions
  /\ step = Len(Script)
  /\ Leave(FALSE)
  /\ UNCHANGED <<program, test, globals, errors, history>>

Counts ==
  /\ place = "account"
  /\ errors' = IF failed THEN errors + 1 ELSE errors
  /\ visible' = IF fault = "visible" THEN visible + 1 ELSE visible
  /\ suspects' = IF fault # "none" THEN suspects + 1 ELSE suspects
  /\ fault' = "none"
  /\ UNCHANGED <<program, step, globals, faults>>

GoesOnUnless(over) ==
  IF over THEN place' = "groupTeardown" /\ UNCHANGED test
  ELSE place' = "setup" /\ test' = test + 1

IsLast == test = Len(Group.tests) \/ (test = 0 /\ failed)

\* (mutant of Account: a test that fails marks those after it)
AccountForEver == Counts /\ GoesOnUnless(IsLast) /\ UNCHANGED failed

\* (mutant of Account: the first test that fails is the last)
AccountUntilFailure == Counts /\ GoesOnUnless(IsLast \/ failed) /\ failed' = FALSE

\* The group setup or a test is over: count it, and go on unless it was the last test
\* or the group setup has failed.
Account == Counts /\ GoesOnUnless(IsLast) /\ failed' = FALSE

Next == CallRecorder \/ EndOfFunction \/ Account

Spec == Init /\ [][Next]_vars /\ WF_vars(Next)
-----------------------------------------------------------------------------
(* A program is a group of tests as TestGroup has it.                      *)

\* The group has executed what it will.
TestsAreOver == place \in {"groupTeardown", "returned"}

Executed == IF TestsAreOver \/ test = 0 THEN test ELSE test - 1

Phase ==
  CASE place = "returned"           -> "none"
    [] place = "groupTeardown"      -> "end"
    [] ~TestsAreOver /\ test = 0   -> "setup"
    [] ~TestsAreOver /\ test # 0   -> "tests"

Abstract == INSTANCE TestGroup WITH
  phase    <- Phase,
  left     <- Len(Group.tests) - Executed,
  executed <- Executed,
  errors   <- errors,
  result   <- IF place = "returned" THEN errors ELSE 0

\* However its tests and fixtures end, a program executes each of its tests once, or none
\* of them when the group setup has failed, and returns how many failed (run...Tests).
RunsEveryTest == Abstract!Spec
-----------------------------------------------------------------------------
Unbalanced == ~Balanced(globals)

\* A fault of the recorder that an assertion is to notice fails the test in which it
\* happens, also when the step returns what it should and only its critical section is
\* left open (assert_int_equal_cs).
NoticedFaultsFail ==
  place = "account" /\ fault = "visible" => failed

\* A test fails only when the recorder was at fault in it: what the tests before it left
\* in the globals, wherever they ended, does not matter (the setups of the programs).
TestsAreIsolated ==
  place = "account" /\ failed => fault # "none" \/ (Unbalanced /\ program \notin Resetting)

\* A call without a fault leaves the counters of critical sections as it found them, and
\* an assignment those that it does not set (TRACE_ENTER_CRITICAL_SECTION).
CallsLeaveSections ==
  Running =>
    \E st \in {Script[step + 1]} : \E right \in {Does(st)} :
      /\ right = [result |-> right.result, s |-> right.s]
      /\ right.s = [x \in DOMAIN right.s |-> right.s[x]] /\ DOMAIN globals \subseteq DOMAIN right.s
      /\ \A x \in {"critical", "critical_expected"} :
           right.s[x] = IF st.kind = "set" /\ st.call = x THEN st.args[1] ELSE globals[x]

\* Once a test has failed only because an earlier one had left the critical sections
\* open, nothing closes them again: every test until the end of the program fails in its
\* setup, and the bodies that would reset the counters are not run.
StaysUnbalanced ==
  [][program' = program /\ errors > suspects /\ Unbalanced => Unbalanced']_vars

\* A program that returns 0 has executed all of its tests (run...Tests).
ZeroMeansAllRan ==
  place = "returned" /\ errors = 0 => test = Len(Group.tests)

\* The places that a program has before it, until its next test is counted.
PlacesLeft ==
  [groupSetup |-> 6, setup |-> 5, body |-> 4, teardown |-> 3, account |-> 2,
   groupTeardown |-> 1, returned |-> 0][place]

\* Nearer to the end: a test further, or a place, or a step of the same script.
Nearer ==
  \/ Len(Group.tests) - test' < Len(Group.tests) - test
  \/ /\ test' = test
     /\ PlacesLeft' < PlacesLeft \/ (place' = place /\ step < step' /\ step < Len(Script))

\* What a program returns counts the tests, group setup included, in which the recorder
\* was at fault: all of those with a fault to be noticed, and no test without a fault
\* (README.md: "Each test also return the number of errors").
ErrorsAreFaults ==
  place = "returned" =>
    /\ visible <= errors
    /\ errors <= suspects \/ (Unbalanced /\ program \notin Resetting)
=============================================================================
