--------------------------- MODULE UnitTestRunner ---------------------------
(***************************************************************************)
(* Running the unit test programs one after another, in the two ways that  *)
(* the repository has for it: the main of UnitTest_RUNNER, and the shell   *)
(* script of README.md over the directory of the built programs.           *)
(***************************************************************************)
EXTENDS TestProgram

CONSTANTS
  Ways,     (* the ways of this instance                     *)
  Chained   (* bound: programs that are run after each other *)

VARIABLES
  way,       \* "RUNNER", "script" or "alone": one program is run
  left,      \* programs still to run, after the one that runs
  ret,       \* ret of the runner's main
  FAILURE,   \* FAILURE of the script
  exit,      \* exit status of the runner or the script, -1 before it ends
  noticed    \* history: in a test of a program, there was a fault to be noticed

runnerVars == <<left, ret, FAILURE, exit, noticed>>

\* The list of UnitTest_RUNNER, without Dependency and EventVerification.
test_components ==
  <<"Counter", "Diagnostics", "EntryTable", "Error", "Event", "EventBuffer", "Extension",
    "Heap", "Interval", "ISR", "MultiCoreEventBuffer", "Object", "Print", "Runnable",
    "StackMonitor", "StateMachine", "StaticBuffer", "String", "Task", "Timestamp">>

\* The programs that are built, in the order in which the shell lists them.
Built ==
  <<"Counter", "Dependency", "Diagnostics", "EntryTable", "Error", "Event", "EventBuffer",
    "Extension", "Heap", "ISR", "Interval", "MultiCoreEventBuffer", "Object", "Print",
    "Runnable", "StackMonitor", "StateMachine", "StaticBuffer", "String", "Task", "Timestamp">>

\* The programs of the instance that are run after each other.  Of a program the next
\* ones, and the outcome, only depend on its errors.
RunBy(w) ==
  SelectSeq(CASE w = "RUNNER" -> test_components [] w = "script" -> Built [] OTHER -> <<>>,
            LAMBDA p : p \in Chained \cap Programs)

\* In each way of the instance there is a program to run first and none is run twice, and
\* no program has so many tests that its errors would not fit into an exit status.
ASSUME RunsAssumption ==
  /\ Ways \subseteq {"RUNNER", "script", "alone"}
  /\ \A w \in Ways : RunBy(w) \in Seq(Programs) /\ (w = "alone" \/ RunBy(w) # <<>>)
  /\ \A w \in Ways : IsInjective(RunBy(w))
  /\ \A p \in Programs : Len(Groups[p].tests) < 255

\* (mutant of ExitStatus: the status is what main returns)
WholeStatus(value) == value

\* A process has the last eight bits of what its main returns as exit status, which on
\* POSIX are not the last eight bits of what system() returns.
ExitStatus(value) == value % 256
WaitStatus(value) == 256 * ExitStatus(value)

RunnerTypeOK ==
  /\ TypeOK
  /\ way \in Ways
  /\ IsSuffix(left, RunBy(way))
  /\ ret \in Nat
  /\ FAILURE \in BOOLEAN
  /\ exit \in -1 .. 255
  /\ noticed \in BOOLEAN

RunnerInit ==
  /\ way \in Ways
  /\ Init
  /\ way # "alone" => program = Head(RunBy(way))
  /\ left = IF way = "alone" THEN <<>> ELSE Tail(RunBy(way))
  /\ ret = 0 /\ FAILURE = FALSE
  /\ exit = -1
  /\ noticed = FALSE
-----------------------------------------------------------------------------
\* A process begins with the globals as they are defined.
Starts(p) ==
  /\ program' = p
  /\ place' = "groupSetup"
  /\ test' = 0 /\ step' = 0
  /\ globals' = FirstGlobals(p)
  /\ failed' = FALSE /\ errors' = 0
  /\ fault' = "none" /\ visible' = 0 /\ suspects' = 0

GoesOn ==
  IF left # <<>> THEN Starts(Head(left)) /\ left' = Tail(left) /\ UNCHANGED exit
  ELSE /\ exit' = CASE way = "RUNNER" -> ExitStatus(ret')
                    [] way = "script" -> IF FAILURE' THEN 1 ELSE 0
                    [] way = "alone"  -> ExitStatus(errors)
       /\ UNCHANGED <<program, place, test, step, globals, failed, errors, fault, visible,
                      suspects, left>>

ProgramStep == Next /\ UNCHANGED <<way, runnerVars>>

\* (mutant of Collect: FAILURE is that of the last program)
CollectLast ==
  /\ place = "returned" /\ exit = -1
  /\ ret' = IF way = "RUNNER" THEN ret + WaitStatus(errors) ELSE ret
  /\ FAILURE' = (way = "script" /\ ExitStatus(errors) # 0)
  /\ noticed' = (noticed \/ visible > 0)
  /\ GoesOn
  /\ UNCHANGED <<way, faults>>

\* The program has returned, and the next one is run.
Collect ==
  /\ place = "returned" /\ exit = -1
  /\ ret' = IF way = "RUNNER" THEN ret + WaitStatus(errors) ELSE ret
  /\ FAILURE' = (FAILURE \/ (way = "script" /\ ExitStatus(errors) # 0))
  /\ noticed' = (noticed \/ visible > 0)
  /\ GoesOn
  /\ UNCHANGED <<way, faults>>

RunnerNext == ProgramStep \/ Collect

RunnerSpec == RunnerInit /\ [][RunnerNext]_<<vars, way, runnerVars>>
-----------------------------------------------------------------------------
\* README.md: with a return value other than 0 an error has occurred.  A program, and the
\* script, end with another status than 0 when the recorder was at fault in a way that an
\* assertion of one of the programs is to notice, and only if it was at fault; the runner
\* prints another number than 0 as UNIT TEST ERRORS (main of UnitTest_RUNNER, README.md).
FaultsAreReported ==
  exit # -1 =>
    LET reported == IF way = "RUNNER" THEN ret # 0 ELSE exit # 0 IN
    /\ noticed => reported
    /\ reported => faults > 0

\* Whatever the recorder and the assertions do, each step of a run is one nearer to its
\* end: a program that has returned is not run again, and no failed assertion leads back
\* to a test or fixture that is over (main of UnitTest_RUNNER, run...Tests).
RunAdvances ==
  [][\/ Len(left') < Len(left)
     \/ left' = left /\ exit = -1 /\ exit' # -1
     \/ UNCHANGED <<left, exit, program>> /\ Nearer]_<<vars, way, runnerVars>>

\* README.md: "if return value from execution != 0 then an error has occurred", which is
\* said of every program in the directory; for the runner: if a program it ran had
\* errors, it does not return 0.
ExitMeansErrors == exit = 0 => ~noticed
=============================================================================
