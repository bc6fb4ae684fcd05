------------------------- MODULE TestProgram_proofs -------------------------
(* Theorems about TestProgram and UnitTestRunner, for all programs, whatever  *)
(* their scripts are made of and whatever the recorder does.                  *)
EXTENDS UnitTestRunner, SequenceTheorems, TLAPS

Bound == IF TestsAreOver THEN test + 1 ELSE test

\* The inductive invariant: the test that a place is about, and how many can have been
\* counted there.
ProgramInv ==
  /\ TypeOK
  /\ place = "groupSetup" => test = 0
  /\ place \in {"setup", "body", "teardown"} => test > 0
  /\ errors \in 0 .. Bound /\ visible \in 0 .. Bound /\ suspects \in 0 .. Bound

LEMMA ProgramInvInit == Init => ProgramInv
<1> SUFFICES ASSUME Init
             PROVE  ProgramInv
  OBVIOUS
<1>1. test \in 0 .. Len(Group.tests)
  BY GroupsAssumption DEF Init, Group, Programs
<1>2. Bound = 0 /\ test + 1 = 1
  BY DEF Init, Bound, TestsAreOver
<1>3. faults \in 0 .. MaxFaults
  BY GroupsAssumption DEF Init
<1>4. /\ program \in Programs /\ place = "groupSetup" /\ test = 0 /\ step = 0
      /\ failed = FALSE /\ fault = "none" /\ errors = 0 /\ visible = 0 /\ suspects = 0
  BY DEF Init
<1>5. /\ place \in Places /\ step \in Nat
      /\ failed \in BOOLEAN /\ fault \in {"none", "silent", "visible"}
  BY <1>4 DEF Places, UserFunctions
<1>6. 0 \in 0 .. test + 1
  BY <1>4
<1>7. TypeOK
  BY <1>1, <1>3, <1>4, <1>5, <1>6 DEF TypeOK
<1> QED
  BY <1>2, <1>4, <1>7 DEF ProgramInv

\* A user function ends and leaves its place for the next one.
LEMMA LeaveKeepsInv ==
  ASSUME ProgramInv, NEW hasFailed \in BOOLEAN, place \in UserFunctions, Leave(hasFailed),
         UNCHANGED <<program, test, errors, visible, suspects>>,
         faults' \in 0 .. MaxFaults, fault' \in {"none", "silent", "visible"}
  PROVE  ProgramInv'
<1>1. /\ place' \in {"body", "teardown", "returned", "account"}
      /\ place' \in {"body", "teardown"} => test > 0
      /\ TestsAreOver' <=> TestsAreOver
      /\ step' = 0 /\ failed' \in BOOLEAN
  BY DEF Leave, After, ProgramInv, TypeOK, UserFunctions, TestsAreOver
<1>2. Group' = Group /\ Bound' = Bound
  BY <1>1 DEF Group, Bound
<1> QED
  BY <1>1, <1>2 DEF ProgramInv, TypeOK, Places, UserFunctions

LEMMA EndsKeepsInv ==
  ASSUME ProgramInv, NEW st, NEW outcome, place \in UserFunctions, Ends(st, outcome),
         faults' \in 0 .. MaxFaults, fault' \in {"none", "silent", "visible"}
  PROVE  ProgramInv'
<1>1. \/ step' = step + 1 /\ UNCHANGED <<place, failed>>
      \/ Leave(TRUE)
  BY DEF Ends
<1>2. UNCHANGED <<program, test, errors, visible, suspects>>
  BY DEF Ends
<1>3. CASE step' = step + 1 /\ UNCHANGED <<place, failed>>
  BY <1>2, <1>3 DEF ProgramInv, TypeOK, Group, TestsAreOver, Bound
<1>4. CASE Leave(TRUE)
  BY <1>2, <1>4, LeaveKeepsInv
<1> QED
  BY <1>1, <1>3, <1>4

\* However a step comes out, the function goes on or ends.
LEMMA StepEnds ==
  ASSUME ProgramInv, CallRecorder
  PROVE  /\ place \in UserFunctions
         /\ \E st, outcome : Ends(st, outcome)
         /\ faults' \in 0 .. MaxFaults /\ fault' \in {"none", "silent", "visible"}
<1>1. PICK st, right : RunStep(st, right)
  BY DEF CallRecorder
<1>2. place \in UserFunctions /\ faults \in 0 .. MaxFaults
  BY DEF CallRecorder, Running, ProgramInv, TypeOK
<1>3. ASSUME NEW seen, HasFault(st, seen)
      PROVE  faults' \in 0 .. MaxFaults /\ fault' \in {"none", "silent", "visible"}
  BY <1>2, <1>3, GroupsAssumption DEF HasFault
<1>4. CASE DoStep(st, right)
  BY <1>2, <1>4 DEF DoStep, ProgramInv, TypeOK
<1>5. CASE ReturnWrongly(st, right)
  BY <1>2, <1>3, <1>5 DEF ReturnWrongly
<1>6. CASE StayInCritical(st, right)
  BY <1>2, <1>3, <1>6 DEF StayInCritical
<1>7. CASE LoseEffect(st, right)
  BY <1>2, <1>3, <1>7 DEF LoseEffect
<1> QED
  BY <1>1, <1>4, <1>5, <1>6, <1>7 DEF RunStep

LEMMA AccountKeepsInv ==
  ASSUME ProgramInv, Account
  PROVE  ProgramInv'
<1>1. /\ place = "account" /\ program' = program /\ step' = step /\ faults' = faults
      /\ failed' = FALSE /\ fault' = "none"
      /\ errors' \in {errors, errors + 1} /\ visible' \in {visible, visible + 1}
      /\ suspects' \in {suspects, suspects + 1}
  BY DEF Account, Counts
<1>2. \/ place' = "groupTeardown" /\ test' = test
      \/ place' = "setup" /\ test' = test + 1 /\ test # Len(Group.tests)
  BY DEF Account, GoesOnUnless, IsLast
<1>3. /\ test \in 0 .. Len(Group.tests) /\ Len(Group.tests) \in Nat
      /\ errors \in 0 .. test /\ visible \in 0 .. test /\ suspects \in 0 .. test
  BY <1>1, GroupsAssumption DEF ProgramInv, TypeOK, TestsAreOver, Bound, Group, Programs
<1>4. test' \in 0 .. Len(Group.tests) /\ Group' = Group
  BY <1>1, <1>2, <1>3 DEF Group
<1>5. Bound' = test + 1
  BY <1>2, <1>3 DEF Bound, TestsAreOver
<1>6. /\ errors' \in 0 .. test + 1 /\ visible' \in 0 .. test + 1
      /\ suspects' \in 0 .. test + 1
  BY <1>1, <1>3
<1>7. /\ errors' \in 0 .. test' + 1 /\ visible' \in 0 .. test' + 1
      /\ suspects' \in 0 .. test' + 1
  BY <1>2, <1>3, <1>6
<1>8. TypeOK'
  BY <1>1, <1>2, <1>4, <1>7 DEF ProgramInv, TypeOK, Places, UserFunctions
<1> QED
  BY <1>2, <1>3, <1>5, <1>6, <1>8 DEF ProgramInv

LEMMA ProgramInvStep == ProgramInv /\ [Next]_vars => ProgramInv'
<1> SUFFICES ASSUME ProgramInv, [Next]_vars
             PROVE  ProgramInv'
  OBVIOUS
<1>1. CASE CallRecorder
  BY <1>1, StepEnds, EndsKeepsInv
<1>2. CASE EndOfFunction
  BY <1>2, LeaveKeepsInv DEF EndOfFunction, history, ProgramInv, TypeOK
<1>3. CASE Account
  BY <1>3, AccountKeepsInv
<1>4. CASE UNCHANGED vars
  BY <1>4 DEF vars, history, ProgramInv, TypeOK, Group, TestsAreOver, Bound
<1> QED
  BY <1>1, <1>2, <1>3, <1>4 DEF Next

LEMMA ProgramInvHolds == Spec => []ProgramInv
BY ProgramInvInit, ProgramInvStep, PTL DEF Spec

\* The variables of a program keep their types, and no more is counted than the group
\* setup and the tests that have ended, for programs with any tests (run...Tests).
THEOREM ProgramTypeCorrect == Spec => []TypeOK
<1>1. ProgramInv => TypeOK
  BY DEF ProgramInv
<1> QED
  BY <1>1, ProgramInvHolds, PTL
-----------------------------------------------------------------------------
PhaseOfPlace ==
  /\ place = "returned" => Phase = "none"
  /\ place = "groupTeardown" => Phase = "end"
  /\ ~TestsAreOver => Phase = IF test = 0 THEN "setup" ELSE "tests"

LEMMA PhaseValues == PhaseOfPlace /\ PhaseOfPlace'
<1>1. PhaseOfPlace
  BY DEF PhaseOfPlace, Phase, TestsAreOver
<1>2. PhaseOfPlace'
  BY DEF PhaseOfPlace, Phase, TestsAreOver
<1> QED
  BY <1>1, <1>2

LEMMA AbstractStays ==
  ASSUME UNCHANGED <<place, program, test, errors>>
  PROVE  UNCHANGED Abstract!vars
BY DEF Abstract!vars, Executed, Group, Phase, TestsAreOver

\* A step of a user function means nothing to the group, unless its last function ends.
LEMMA FunctionSimulated ==
  ASSUME ProgramInv, place \in UserFunctions, UNCHANGED <<program, test, errors>>,
         place' = place \/ \E hasFailed \in BOOLEAN : place' = After(hasFailed)
  PROVE  [Abstract!Next]_Abstract!vars
<1>1. CASE place' = place
  BY <1>1, AbstractStays
<1>2. ASSUME NEW hasFailed \in BOOLEAN, place' = After(hasFailed)
      PROVE  [Abstract!Next]_Abstract!vars
  <2>1. CASE place = "groupTeardown"
    <3>1. place' = "returned"
      BY <1>2, <2>1 DEF After
    <3>2. Phase = "end" /\ Phase' = "none"
      BY <2>1, <3>1, PhaseValues DEF PhaseOfPlace
    <3> QED
      BY <2>1, <3>1, <3>2 DEF Abstract!Next, Abstract!End, Executed, TestsAreOver, Group
  <2>2. CASE place # "groupTeardown"
    <3>1. place' \in {"body", "teardown", "account"} /\ place \notin {"returned"}
      BY <1>2, <2>2 DEF After, UserFunctions
    <3> QED
      BY <2>2, <3>1 DEF Abstract!vars, Executed, Group, Phase, TestsAreOver
  <2> QED
    BY <2>1, <2>2
<1> QED
  BY <1>1, <1>2

\* What is accounted for is the group setup, or a test that has been executed.
LEMMA AccountSimulated ==
  ASSUME ProgramInv, Account
  PROVE  Abstract!Next
<1>1. /\ place = "account" /\ program' = program /\ Group' = Group
      /\ errors' = IF failed THEN errors + 1 ELSE errors
  BY DEF Account, Counts, Group
<1>2. /\ IsLast => place' = "groupTeardown" /\ test' = test
      /\ ~IsLast => place' = "setup" /\ test' = test + 1
  BY DEF Account, GoesOnUnless
<1>3. test \in 0 .. Len(Group.tests) /\ Len(Group.tests) \in Nat /\ errors \in Nat
  BY GroupsAssumption DEF ProgramInv, TypeOK, Group, Programs
<1>4. failed \in BOOLEAN
  BY DEF ProgramInv, TypeOK
<1>5. Phase' = IF IsLast THEN "end" ELSE "tests"
  BY <1>2, <1>3, PhaseValues DEF PhaseOfPlace, TestsAreOver
<1>6. CASE test = 0
  <2>1. Executed = 0 /\ Executed' = 0
    BY <1>1, <1>2, <1>3, <1>6 DEF Executed, TestsAreOver
  <2>2. Phase = "setup"
    BY <1>1, <1>6, PhaseValues DEF PhaseOfPlace, TestsAreOver
  <2>3. CASE failed
    BY <1>1, <1>2, <1>3, <1>5, <1>6, <2>1, <2>2, <2>3
    DEF Abstract!Next, Abstract!Setup, IsLast
  <2>4. CASE ~failed
    BY <1>1, <1>2, <1>3, <1>5, <1>6, <2>1, <2>2, <2>4
    DEF Abstract!Next, Abstract!Setup, Abstract!Upcoming, IsLast
  <2> QED
    BY <2>3, <2>4
<1>7. CASE test > 0
  <2>1. Executed = test - 1 /\ Executed' = test
    BY <1>1, <1>2, <1>3, <1>7 DEF Executed, TestsAreOver
  <2>2. Phase = "tests"
    BY <1>1, <1>7, PhaseValues DEF PhaseOfPlace, TestsAreOver
  <2> QED
    BY <1>1, <1>2, <1>3, <1>4, <1>5, <1>7, <2>1, <2>2
    DEF Abstract!Next, Abstract!Execute, Abstract!Upcoming, IsLast
<1> QED
  BY <1>3, <1>6, <1>7

\* Every program executes each of its tests once, or none of them when its group setup
\* fails, and returns how many failed, whatever its scripts and the recorder do:
\* a program implements TestGroup (run...Tests, _cmocka_run_group_tests).
THEOREM RunsEveryTestHolds == Spec => RunsEveryTest
<1>1. Init => Abstract!Init
  BY GroupsAssumption DEF Init, Abstract!Init, Executed, Phase, TestsAreOver, Group, Programs
<1>2. ProgramInv /\ [Next]_vars => [Abstract!Next]_Abstract!vars
  <2> SUFFICES ASSUME ProgramInv, [Next]_vars
               PROVE  [Abstract!Next]_Abstract!vars
    OBVIOUS
  <2>1. CASE CallRecorder
    <3>1. /\ place \in UserFunctions /\ UNCHANGED <<program, test, errors>>
          /\ place' = place \/ place' = After(TRUE)
      BY <2>1, StepEnds DEF Ends, Leave
    <3> QED
      BY <3>1, FunctionSimulated
  <2>2. CASE EndOfFunction
    BY <2>2, FunctionSimulated DEF EndOfFunction, Leave
  <2>3. CASE Account
    BY <2>3, AccountSimulated
  <2>4. CASE UNCHANGED vars
    BY <2>4, AbstractStays DEF vars
  <2> QED
    BY <2>1, <2>2, <2>3, <2>4 DEF Next
<1> QED
  BY <1>1, <1>2, ProgramInvHolds, PTL DEF Spec, RunsEveryTest, Abstract!Spec
-----------------------------------------------------------------------------
(* Programs that are run after each other.                                    *)

\* left are the last programs of s.
Ending(s) ==
  /\ left \in Seq(Programs) /\ Len(left) <= Len(s)
  /\ \A i \in 1 .. Len(left) : left[i] = s[i + (Len(s) - Len(left))]

LEMMA EndingIsSuffix ==
  ASSUME NEW s \in Seq(Programs), Ending(s)
  PROVE  IsSuffix(left, s)
<1> DEFINE r == Reverse(left)  t == Reverse(s)
<1>1. /\ Len(left) \in Nat /\ Len(s) \in Nat /\ Len(left) <= Len(s)
  BY DEF Ending
<1>2. /\ r \in Seq(Programs) /\ Len(r) = Len(left)
      /\ \A i \in 1 .. Len(left) : r[i] = left[Len(left) - i + 1]
  BY <1>1 DEF Reverse, Ending
<1>3. /\ t \in Seq(Programs) /\ Len(t) = Len(s)
      /\ \A i \in 1 .. Len(s) : t[i] = s[Len(s) - i + 1]
  BY <1>1 DEF Reverse
<1> HIDE DEF r, t
<1>4. ASSUME NEW i \in 1 .. Len(left)
      PROVE  r[i] = t[i]
  <2>1. PICK j \in Int : j = Len(left) - i + 1
    BY <1>1
  <2>2. j \in 1 .. Len(left)
    BY <1>1, <2>1
  <2>3. r[i] = left[j] /\ left[j] = s[j + (Len(s) - Len(left))]
    BY <1>1, <1>2, <2>1, <2>2 DEF Ending
  <2>4. j + (Len(s) - Len(left)) = Len(s) - i + 1
    BY <1>1, <2>1
  <2>5. i \in 1 .. Len(s)
    BY <1>1
  <2>6. t[i] = s[Len(s) - i + 1]
    BY <1>3, <2>5
  <2> QED
    BY <2>3, <2>4, <2>6
<1>5. SubSeq(r, 1, Len(r)) = SubSeq(t, 1, Len(r))
  BY <1>1, <1>2, <1>3, <1>4
<1> QED
  BY <1>1, <1>2, <1>3, <1>5 DEF IsSuffix, IsPrefix, r, t

\* The inductive invariant of the types: of each way there is always an ending of its
\* programs left.
RunnerInv ==
  /\ ProgramInv
  /\ way \in Ways
  /\ Ending(RunBy(way)) /\ (way = "alone" => left = <<>>)
  /\ ret \in Nat /\ FAILURE \in BOOLEAN /\ noticed \in BOOLEAN
  /\ exit \in -1 .. 255

LEMMA RunnerInvInit == RunnerInit => RunnerInv
<1> SUFFICES ASSUME RunnerInit
             PROVE  RunnerInv
  OBVIOUS
<1>1. ProgramInv
  BY ProgramInvInit DEF RunnerInit
<1>2. way \in Ways /\ ret = 0 /\ exit = -1
  BY DEF RunnerInit
<1>3. FAILURE \in BOOLEAN /\ noticed \in BOOLEAN
  BY DEF RunnerInit
<1>4. RunBy(way) \in Seq(Programs) /\ (way = "alone" \/ RunBy(way) # <<>>)
  BY <1>2, RunsAssumption
<1>5. CASE way = "alone"
  <2>1. left = <<>>
    BY <1>5 DEF RunnerInit
  <2>2. Ending(RunBy(way))
    BY <1>4, <2>1 DEF Ending
  <2> QED
    BY <1>1, <1>2, <1>3, <2>1, <2>2 DEF RunnerInv
<1>6. CASE way # "alone"
  <2>1. left = Tail(RunBy(way))
    BY <1>6 DEF RunnerInit
  <2>2. /\ left \in Seq(Programs) /\ Len(left) = Len(RunBy(way)) - 1
        /\ \A i \in 1 .. Len(left) : left[i] = RunBy(way)[i + 1]
    BY <1>4, <1>6, <2>1, HeadTailProperties
  <2>3. Len(RunBy(way)) \in Nat
    BY <1>4
  <2>4. Len(RunBy(way)) - Len(left) = 1
    BY <2>2, <2>3
  <2>5. Ending(RunBy(way))
    BY <2>2, <2>3, <2>4 DEF Ending
  <2> QED
    BY <1>1, <1>2, <1>6, <1>3, <2>5 DEF RunnerInv
<1> QED
  BY <1>5, <1>6

LEMMA StartsKeepsInv ==
  ASSUME ProgramInv, NEW p \in Programs, Starts(p), UNCHANGED faults
  PROVE  ProgramInv'
<1>1. /\ program' = p /\ place' = "groupSetup" /\ test' = 0 /\ step' = 0
      /\ failed' = FALSE /\ errors' = 0 /\ fault' = "none" /\ visible' = 0 /\ suspects' = 0
  BY DEF Starts
<1>2. test' \in 0 .. Len(Group'.tests)
  BY <1>1, GroupsAssumption DEF Group, Programs
<1>3. Bound' = 0
  BY <1>1 DEF Bound, TestsAreOver
<1>4. faults' \in 0 .. MaxFaults
  BY DEF ProgramInv, TypeOK
<1>5. /\ errors' \in 0 .. test' + 1 /\ visible' \in 0 .. test' + 1
      /\ suspects' \in 0 .. test' + 1
  BY <1>1
<1>6. /\ place' \in Places /\ step' \in Nat /\ program' \in Programs
      /\ fault' \in {"none", "silent", "visible"} /\ failed' \in BOOLEAN
  BY <1>1 DEF Places, UserFunctions
<1>7. TypeOK'
  BY <1>2, <1>4, <1>5, <1>6 DEF TypeOK
<1> QED
  BY <1>1, <1>3, <1>7 DEF ProgramInv

LEMMA LastBits == ASSUME NEW n \in Nat PROVE n % 256 \in 0 .. 255
OBVIOUS

\* What is counted in a program fits into its exit status.
LEMMA ErrorsFit ==
  ASSUME ProgramInv
  PROVE  /\ errors \in 0 .. 255 /\ ExitStatus(errors) = errors
         /\ WaitStatus(errors) = 256 * errors
<1>1. /\ test \in 0 .. Len(Groups[program].tests) /\ program \in Programs
      /\ errors \in 0 .. test + 1
  BY DEF ProgramInv, TypeOK, Group
<1>2. Len(Groups[program].tests) \in Nat /\ Len(Groups[program].tests) < 255
  BY <1>1, GroupsAssumption, RunsAssumption DEF Programs
<1>3. errors \in 0 .. 255
  BY <1>1, <1>2
<1> QED
  BY <1>3 DEF ExitStatus, WaitStatus

\* Collecting what a program returned, as the proofs need it.
LEMMA CollectCases ==
  ASSUME RunnerInv, Collect
  PROVE  /\ way' = way /\ faults' = faults /\ ret' \in Nat /\ FAILURE' \in BOOLEAN
         /\ noticed' \in BOOLEAN
         /\ \/ left # <<>> /\ Starts(Head(left)) /\ left' = Tail(left) /\ exit' = exit
            \/ /\ left = <<>> /\ UNCHANGED <<vars, left>>
               /\ way = "RUNNER" => exit' = ret' % 256
               /\ way = "script" => exit' = IF FAILURE' THEN 1 ELSE 0
               /\ way = "alone"  => exit' = errors
<1>1. errors \in 0 .. 255 /\ ExitStatus(errors) = errors /\ WaitStatus(errors) = 256 * errors
  BY ErrorsFit DEF RunnerInv
<1>2. ret' \in Nat
  BY <1>1 DEF Collect, RunnerInv
<1>3. FAILURE' \in BOOLEAN /\ noticed' \in BOOLEAN
  BY DEF Collect, RunnerInv
<1>4. way \in {"RUNNER", "script", "alone"}
  BY RunsAssumption DEF RunnerInv
<1>5. way' = way /\ faults' = faults /\ GoesOn
  BY DEF Collect
<1>6. CASE left # <<>>
  BY <1>2, <1>3, <1>5, <1>6 DEF GoesOn
<1>7. CASE left = <<>>
  <2>1. UNCHANGED <<vars, left>>
    BY <1>5, <1>7 DEF GoesOn, vars, history
  <2>2. /\ way = "RUNNER" => exit' = ret' % 256
        /\ way = "script" => exit' = IF FAILURE' THEN 1 ELSE 0
        /\ way = "alone"  => exit' = errors
    BY <1>1, <1>4, <1>5, <1>7 DEF GoesOn, ExitStatus
  <2> QED
    BY <1>2, <1>3, <1>5, <1>7, <2>1, <2>2
<1> QED
  BY <1>6, <1>7

LEMMA RunnerInvStep == RunnerInv /\ [RunnerNext]_<<vars, way, runnerVars>> => RunnerInv'
<1> SUFFICES ASSUME RunnerInv, [RunnerNext]_<<vars, way, runnerVars>>
             PROVE  RunnerInv'
  OBVIOUS
<1>1. ASSUME [Next]_vars, UNCHANGED <<way, runnerVars>>
      PROVE  RunnerInv'
  <2>1. ProgramInv'
    BY <1>1, ProgramInvStep DEF RunnerInv
  <2>2. UNCHANGED <<way, left, ret, FAILURE, exit, noticed>>
    BY <1>1 DEF runnerVars
  <2> QED
    BY <2>1, <2>2 DEF RunnerInv, Ending
<1>2. CASE Collect
  <2>1. CASE left # <<>> /\ Starts(Head(left)) /\ left' = Tail(left) /\ exit' = exit
    <3>1. left \in Seq(Programs) /\ way' = way /\ Len(left) <= Len(RunBy(way))
      BY <1>2, CollectCases DEF RunnerInv, Ending
    <3>2. /\ Head(left) \in Programs /\ left' \in Seq(Programs) /\ Len(left') = Len(left) - 1
          /\ \A i \in 1 .. Len(left') : left'[i] = left[i + 1]
      BY <2>1, <3>1, HeadTailProperties
    <3>3. ProgramInv'
      BY <1>2, <2>1, <3>2, CollectCases, StartsKeepsInv DEF RunnerInv
    <3>4. Len(RunBy(way)) \in Nat
      BY RunsAssumption DEF RunnerInv
    <3>5. ASSUME NEW i \in 1 .. Len(left')
          PROVE  left'[i] = RunBy(way)[i + (Len(RunBy(way)) - Len(left'))]
      <4>1. i + 1 \in 1 .. Len(left) /\ left'[i] = left[i + 1]
        BY <3>1, <3>2
      <4>2. left[i + 1] = RunBy(way)[i + 1 + (Len(RunBy(way)) - Len(left))]
        BY <4>1 DEF RunnerInv, Ending
      <4>3. i + 1 + (Len(RunBy(way)) - Len(left)) = i + (Len(RunBy(way)) - Len(left'))
        BY <3>1, <3>2, <3>4
      <4> QED
        BY <4>1, <4>2, <4>3
    <3>6. Ending(RunBy(way))'
      BY <3>1, <3>2, <3>4, <3>5 DEF Ending
    <3>7. way' # "alone"
      BY <2>1, <3>1 DEF RunnerInv
    <3> QED
      BY <1>2, <2>1, <3>1, <3>3, <3>6, <3>7, CollectCases DEF RunnerInv
  <2>2. CASE /\ left = <<>> /\ UNCHANGED <<vars, left>>
             /\ way = "RUNNER" => exit' = ret' % 256
             /\ way = "script" => exit' = IF FAILURE' THEN 1 ELSE 0
             /\ way = "alone"  => exit' = errors
    <3>1. ProgramInv'
      BY <2>2, ProgramInvStep DEF RunnerInv
    <3>2. ret' \in Nat /\ errors \in 0 .. 255 /\ way \in {"RUNNER", "script", "alone"}
      BY <1>2, CollectCases, ErrorsFit, RunsAssumption DEF RunnerInv
    <3>3. ret' % 256 \in 0 .. 255
      BY <3>2, LastBits
    <3>4. exit' \in -1 .. 255
      <4>1. CASE way = "RUNNER"
        BY <2>2, <3>3, <4>1
      <4>2. CASE way = "script"
        BY <2>2, <4>2
      <4>3. CASE way = "alone"
        BY <2>2, <3>2, <4>3
      <4> QED
        BY <3>2, <4>1, <4>2, <4>3
    <3> QED
      BY <1>2, <2>2, <3>1, <3>4, CollectCases DEF RunnerInv, Ending
  <2> QED
    BY <1>2, <2>1, <2>2, CollectCases
<1>3. ([Next]_vars /\ UNCHANGED <<way, runnerVars>>) \/ Collect
  BY DEF RunnerNext, ProgramStep
<1> QED
  BY <1>1, <1>2, <1>3

LEMMA RunnerInvHolds == RunnerSpec => []RunnerInv
BY RunnerInvInit, RunnerInvStep, PTL DEF RunnerSpec

\* The variables of the runner and of the program it runs keep their types, the programs
\* that are left are the last ones of its list, and its exit status is one (main of
\* UnitTest_RUNNER, the script of README.md).
THEOREM RunnerTypeCorrect == RunnerSpec => []RunnerTypeOK
<1>1. RunnerInv => RunnerTypeOK
  BY RunsAssumption, EndingIsSuffix DEF RunnerInv, RunnerTypeOK, ProgramInv
<1> QED
  BY <1>1, RunnerInvHolds, PTL
-----------------------------------------------------------------------------
(* Faults of the recorder.                                                    *)

Counters == {"critical", "critical_expected"}

\* The counters of critical sections are integers.
SectionsInv ==
  /\ Counters \subseteq DOMAIN globals
  /\ globals = [x \in DOMAIN globals |-> globals[x]]
  /\ \A x \in Counters : globals[x] \in Int

\* A fault that is to be noticed has failed its test as soon as it happened.
NoticedInv == (fault = "visible" => failed) /\ visible <= errors

\* Without a fault of the recorder nothing is wrong.
QuietInv ==
  faults = 0 =>
    /\ fault = "none" /\ suspects = 0
    /\ globals["critical"] = 0 /\ globals["critical_expected"] = 0

\* s is what the globals may be after a step that began with the globals g: the counters
\* are as before, or they are set to 0.
Follows(s, g) ==
  /\ Counters \subseteq DOMAIN s
  /\ s = [x \in DOMAIN s |-> s[x]]
  /\ \A x \in Counters : s[x] = g[x] \/ s[x] = 0

LEMMA FollowsKeeps ==
  ASSUME SectionsInv, Follows(globals', globals)
  PROVE  /\ SectionsInv'
         /\ globals["critical"] = 0 => globals'["critical"] = 0
         /\ globals["critical_expected"] = 0 => globals'["critical_expected"] = 0
BY DEF SectionsInv, Follows, Counters

LEMMA BeforeFollows ==
  ASSUME SectionsInv, NEW st
  PROVE  Follows(Before(st), globals)
<1>1. Follows(globals, globals)
  BY DEF SectionsInv, Follows
<1>2. Follows(prvClearEventData(globals), globals)
  BY DEF SectionsInv, Follows, Counters, prvClearEventData
<1> QED
  BY <1>1, <1>2 DEF Before

\* The step that runs is one of a script of the program.
LEMMA ScriptSteps ==
  ASSUME ProgramInv, Running
  PROVE  step + 1 \in 1 .. Len(Script) /\ IsStep(Script[step + 1])
<1>1. Script \in ScriptsOf(Groups[program])
  <2>1. place \in {"setup", "body", "teardown"} => test \in 1 .. Len(Group.tests)
    BY GroupsAssumption DEF ProgramInv, TypeOK, Group, Programs
  <2>2. CASE place = "groupSetup"
    BY <2>2 DEF Script, ScriptsOf, Group
  <2>3. CASE place = "groupTeardown"
    BY <2>3 DEF Script, ScriptsOf, Group
  <2>4. CASE place \in {"setup", "body", "teardown"}
    <3>1. Script \in {Group.tests[test].setup, Group.tests[test].body, Group.tests[test].teardown}
      BY <2>4 DEF Script
    <3>2. Group.tests[test] \in {Group.tests[i] : i \in 1 .. Len(Group.tests)}
      BY <2>1, <2>4
    <3> QED
      BY <3>1, <3>2 DEF ScriptsOf, Group
  <2> QED
    BY <2>2, <2>3, <2>4 DEF Running, UserFunctions
<1>2. program \in DOMAIN Groups
  BY DEF ProgramInv, TypeOK, Programs
<1>3. step + 1 \in 1 .. Len(Script)
  BY DEF Running, ProgramInv, TypeOK
<1> QED
  BY <1>1, <1>2, <1>3, ScriptsAssumption

\* What a step without a fault leaves, as the recorder keeps its rule.
LEMMA CallFollows ==
  ASSUME ProgramInv, SectionsInv, CallsLeaveSections, Running,
         NEW st, st = Script[step + 1], NEW right, right = Does(st)
  PROVE  /\ Follows(right.s, globals)
         /\ st.kind # "set" => \A x \in Counters : right.s[x] = globals[x]
         /\ IsStep(st) /\ right = [result |-> right.result, s |-> right.s]
<1>1. /\ right = [result |-> right.result, s |-> right.s]
      /\ right.s = [x \in DOMAIN right.s |-> right.s[x]] /\ DOMAIN globals \subseteq DOMAIN right.s
      /\ \A x \in {"critical", "critical_expected"} :
           right.s[x] = IF st.kind = "set" /\ st.call = x THEN st.args[1] ELSE globals[x]
  BY DEF CallsLeaveSections
<1>2. IsStep(st)
  BY ScriptSteps
<1>3. ASSUME NEW x \in Counters
      PROVE  /\ right.s[x] = globals[x] \/ right.s[x] = 0
             /\ st.kind # "set" => right.s[x] = globals[x]
  BY <1>1, <1>2, <1>3 DEF Counters, IsStep
<1> QED
  BY <1>1, <1>2, <1>3 DEF Follows, SectionsInv

\* A result that is asserted is never the wrong one.
LEMMA WrongIsNoticed ==
  ASSUME NEW st, IsStep(st), Asserted(st), NEW s
  PROVE  ~assert_int_equal_cs(st, <<"WRONG", Null>>, s)
<1>1. Len(st.want) \in {1, 2} /\ st.want[1] \in {"OK", "FAIL"}
  BY DEF IsStep, Asserted
<1>2. SubSeq(<<"WRONG", Null>>, 1, Len(st.want))[1] = "WRONG"
  BY <1>1
<1>3. "WRONG" \notin {"OK", "FAIL"}
  OBVIOUS
<1> QED
  BY <1>1, <1>2, <1>3 DEF assert_int_equal_cs

LEMMA FailedAssertion ==
  ASSUME NEW st, NEW outcome, Ends(st, outcome),
         ~assert_int_equal_cs(st, outcome.result, outcome.s)
  PROVE  failed'
BY DEF Ends, Leave

\* Entering a critical section for good is noticed where the sections were balanced.
LEMMA EnterIsNoticed ==
  ASSUME NEW st, Asserted(st), st.kind \notin {"plain", "glance"}, NEW s, NEW result,
         Counters \subseteq DOMAIN s, s = [x \in DOMAIN s |-> s[x]],
         s["critical"] \in Int, Balanced(s)
  PROVE  ~assert_int_equal_cs(st, result, EnterCriticalSection(s))
<1>1. /\ EnterCriticalSection(s)["critical"] = s["critical"] + 1
      /\ EnterCriticalSection(s)["critical_expected"] = s["critical_expected"]
  BY DEF EnterCriticalSection, Counters
<1>2. s["critical"] = s["critical_expected"]
  BY DEF Balanced
<1>3. EnterCriticalSection(s)["critical"] # EnterCriticalSection(s)["critical_expected"]
  BY <1>1, <1>2
<1> QED
  BY <1>3 DEF assert_int_equal_cs, Balanced, Asserted

\* What a step without a fault, and each of the faults, does to the globals, and whether
\* it fails the test.
LEMMA RunStepOutcome ==
  ASSUME ProgramInv, SectionsInv, NoticedInv, CallsLeaveSections, CallRecorder
  PROVE  /\ SectionsInv' /\ failed' \in BOOLEAN
         /\ \/ Follows(globals', globals) /\ UNCHANGED <<faults, fault>>
            \/ faults' = faults + 1
         /\ fault' = "visible" => failed'
<1>1. PICK st, right : st = Script[step + 1] /\ right = Does(st) /\ RunStep(st, right)
  BY DEF CallRecorder
<1>2. Running
  BY DEF CallRecorder
<1>3. /\ Follows(right.s, globals)
      /\ st.kind # "set" => \A x \in Counters : right.s[x] = globals[x]
      /\ IsStep(st) /\ right = [result |-> right.result, s |-> right.s]
  BY <1>1, <1>2, CallFollows
<1>4. failed \in BOOLEAN /\ (fault = "visible" => failed)
  BY DEF ProgramInv, TypeOK, NoticedInv
<1>5. ASSUME NEW outcome, Ends(st, outcome)
      PROVE  /\ globals' = outcome.s /\ failed' \in BOOLEAN /\ (failed => failed')
             /\ Follows(outcome.s, globals) => SectionsInv'
  BY <1>4, <1>5, FollowsKeeps DEF Ends, Leave
<1>6. CASE DoStep(st, right)
  BY <1>3, <1>4, <1>5, <1>6 DEF DoStep
<1>7. CASE ReturnWrongly(st, right)
  <2>1. PICK after \in {Before(st), right.s} : Ends(st, [result |-> <<"WRONG", Null>>, s |-> after])
    BY <1>7 DEF ReturnWrongly
  <2>2. Follows(after, globals)
    BY <1>3, BeforeFollows
  <2>3. Asserted(st) => failed'
    BY <1>3, <2>1, WrongIsNoticed, FailedAssertion
  <2>4. faults' = faults + 1 /\ (fault' = "visible" => Asserted(st) \/ fault = "visible")
    BY <1>7 DEF ReturnWrongly, HasFault
  <2> QED
    BY <1>4, <1>5, <2>1, <2>2, <2>3, <2>4
<1>8. CASE StayInCritical(st, right)
  <2> DEFINE outcome == [result |-> right.result, s |-> EnterCriticalSection(right.s)]
  <2>1. Ends(st, outcome)
    BY <1>3, <1>8 DEF StayInCritical
  <2>2. /\ st.kind # "set" /\ faults' = faults + 1
        /\ fault' = "visible" =>
             (Asserted(st) /\ st.kind \notin {"plain", "glance"} /\ Balanced(globals)) \/ fault = "visible"
    BY <1>8 DEF StayInCritical, HasFault
  <2>3. /\ Counters \subseteq DOMAIN right.s /\ right.s = [x \in DOMAIN right.s |-> right.s[x]]
        /\ \A x \in Counters : right.s[x] = globals[x] /\ right.s[x] \in Int
    BY <1>3, <2>2 DEF Follows, SectionsInv
  <2>4. Asserted(st) /\ st.kind \notin {"plain", "glance"} /\ Balanced(globals) => failed'
    <3>1. Balanced(globals) => Balanced(right.s)
      BY <2>3 DEF Balanced, Counters
    <3>2. right.s["critical"] \in Int
      BY <2>3 DEF Counters
    <3> QED
      BY <2>1, <2>3, <3>1, <3>2, EnterIsNoticed, FailedAssertion
  <2>5. /\ Counters \subseteq DOMAIN outcome.s
        /\ outcome.s = [x \in DOMAIN outcome.s |-> outcome.s[x]]
        /\ \A x \in Counters : outcome.s[x] \in Int
    BY <2>3 DEF EnterCriticalSection, Counters
  <2>6. SectionsInv'
    BY <1>5, <2>1, <2>5 DEF SectionsInv
  <2> QED
    BY <1>4, <1>5, <2>1, <2>2, <2>4, <2>6
<1>9. CASE LoseEffect(st, right)
  <2> DEFINE outcome == [result |-> right.result, s |-> Before(st)]
  <2>1. Ends(st, outcome)
    BY <1>3, <1>9 DEF LoseEffect
  <2>2. faults' = faults + 1 /\ (fault' = "visible" => fault = "visible")
    BY <1>9 DEF LoseEffect, HasFault
  <2> QED
    BY <1>4, <1>5, <2>1, <2>2, BeforeFollows
<1> QED
  BY <1>1, <1>6, <1>7, <1>8, <1>9 DEF RunStep

FaultInv == SectionsInv /\ NoticedInv /\ QuietInv

LEMMA FirstGlobalsSections ==
  ASSUME NEW p
  PROVE  /\ Counters \subseteq DOMAIN FirstGlobals(p)
         /\ FirstGlobals(p) = [x \in DOMAIN FirstGlobals(p) |-> FirstGlobals(p)[x]]
         /\ FirstGlobals(p)["critical"] = 0 /\ FirstGlobals(p)["critical_expected"] = 0
<1>1. /\ Counters \subseteq DOMAIN MockGlobals
      /\ MockGlobals["critical"] = 0 /\ MockGlobals["critical_expected"] = 0
  BY DEF Counters, MockGlobals
<1>2. \A x \in Counters : x \in DOMAIN FirstGlobals(p) /\ FirstGlobals(p)[x] = MockGlobals[x]
  BY <1>1 DEF FirstGlobals
<1>3. FirstGlobals(p) = [x \in DOMAIN FirstGlobals(p) |-> FirstGlobals(p)[x]]
  BY DEF FirstGlobals
<1> QED
  BY <1>1, <1>2, <1>3 DEF Counters

LEMMA FaultInvNext ==
  ASSUME ProgramInv, FaultInv, CallsLeaveSections, [Next]_vars
  PROVE  FaultInv'
<1>1. /\ faults \in Nat /\ errors \in Nat /\ visible \in Nat /\ suspects \in Nat
      /\ failed \in BOOLEAN
  BY GroupsAssumption DEF ProgramInv, TypeOK
<1>2. CASE CallRecorder
  <2>1. UNCHANGED <<errors, visible, suspects>>
    BY <1>2, StepEnds DEF Ends
  <2>2. /\ SectionsInv' /\ (fault' = "visible" => failed')
        /\ \/ Follows(globals', globals) /\ UNCHANGED <<faults, fault>>
           \/ faults' = faults + 1
    BY <1>2, RunStepOutcome DEF FaultInv
  <2>3. NoticedInv'
    BY <2>1, <2>2 DEF FaultInv, NoticedInv
  <2>4. QuietInv'
    BY <1>1, <2>1, <2>2, FollowsKeeps DEF FaultInv, QuietInv
  <2> QED
    BY <2>2, <2>3, <2>4 DEF FaultInv
<1>3. CASE EndOfFunction
  <2>1. UNCHANGED <<globals, errors, faults, fault, visible, suspects>> /\ (failed => failed')
    BY <1>3 DEF EndOfFunction, Leave, history
  <2> QED
    BY <2>1 DEF FaultInv, SectionsInv, NoticedInv, QuietInv
<1>4. CASE Account
  <2>1. /\ UNCHANGED <<globals, faults>> /\ fault' = "none"
        /\ errors' = IF failed THEN errors + 1 ELSE errors
        /\ visible' = IF fault = "visible" THEN visible + 1 ELSE visible
        /\ suspects' = IF fault # "none" THEN suspects + 1 ELSE suspects
    BY <1>4 DEF Account, Counts
  <2>2. visible' <= errors'
    BY <1>1, <2>1 DEF FaultInv, NoticedInv
  <2> QED
    BY <2>1, <2>2 DEF FaultInv, SectionsInv, NoticedInv, QuietInv
<1>5. CASE UNCHANGED vars
  BY <1>5 DEF vars, history, FaultInv, SectionsInv, NoticedInv, QuietInv
<1> QED
  BY <1>2, <1>3, <1>4, <1>5 DEF Next

LEMMA FaultInvStarts ==
  ASSUME NEW p, Starts(p)
  PROVE  FaultInv'
<1>1. SectionsInv' /\ globals'["critical"] = 0 /\ globals'["critical_expected"] = 0
  BY FirstGlobalsSections DEF Starts, SectionsInv, Counters
<1> QED
  BY <1>1 DEF Starts, FaultInv, NoticedInv, QuietInv

LEMMA FaultInvInit == RunnerInit => FaultInv
<1> SUFFICES ASSUME RunnerInit
             PROVE  FaultInv
  OBVIOUS
<1>1. globals = FirstGlobals(program)
  BY DEF RunnerInit, Init
<1>2. SectionsInv /\ globals["critical"] = 0 /\ globals["critical_expected"] = 0
  BY <1>1, FirstGlobalsSections DEF SectionsInv, Counters
<1> QED
  BY <1>2 DEF RunnerInit, Init, FaultInv, NoticedInv, QuietInv

\* The three kinds of steps of the runner.
LEMMA RunnerSteps ==
  ASSUME RunnerInv, [RunnerNext]_<<vars, way, runnerVars>>
  PROVE  \/ [Next]_vars /\ UNCHANGED <<way, left, ret, FAILURE, exit, noticed>>
         \/ Collect /\ left # <<>> /\ Starts(Head(left)) /\ exit' = exit
         \/ /\ Collect /\ left = <<>> /\ UNCHANGED <<vars, left>>
            /\ way = "RUNNER" => exit' = ret' % 256
            /\ way = "script" => exit' = IF FAILURE' THEN 1 ELSE 0
            /\ way = "alone"  => exit' = errors
BY CollectCases DEF RunnerNext, ProgramStep, runnerVars

LEMMA FaultInvStep ==
  ASSUME RunnerInv, FaultInv, CallsLeaveSections, [RunnerNext]_<<vars, way, runnerVars>>
  PROVE  FaultInv'
<1>1. CASE [Next]_vars
  BY <1>1, FaultInvNext DEF RunnerInv
<1>2. CASE Starts(Head(left))
  BY <1>2, FaultInvStarts
<1>3. CASE UNCHANGED vars
  BY <1>3, FaultInvNext DEF RunnerInv
<1> QED
  BY <1>1, <1>2, <1>3, RunnerSteps

LEMMA FaultInvHolds == RunnerSpec /\ []CallsLeaveSections => []FaultInv
<1>1. /\ RunnerInv /\ FaultInv /\ CallsLeaveSections
      /\ [RunnerNext]_<<vars, way, runnerVars>>
      => FaultInv'
  BY FaultInvStep
<1> QED
  BY <1>1, FaultInvInit, RunnerInvHolds, PTL DEF RunnerSpec

\* A fault that an assertion is to notice fails the test in which it happens, whatever
\* the scripts of the programs are, as long as the calls without a fault leave the
\* critical sections that they enter (assert_int_equal_cs).
THEOREM NoticedFaultsFailHolds ==
  RunnerSpec /\ []CallsLeaveSections => []NoticedFaultsFail
<1>1. FaultInv => NoticedFaultsFail
  BY DEF FaultInv, NoticedInv, NoticedFaultsFail
<1> QED
  BY <1>1, FaultInvHolds, PTL
-----------------------------------------------------------------------------
\* When the tests of a group are over, all were executed, or the group setup has failed.
RanInv == TestsAreOver => test = Len(Group.tests) \/ errors > 0

LEMMA RanNext ==
  ASSUME ProgramInv, RanInv, [Next]_vars
  PROVE  RanInv'
<1>1. ASSUME UNCHANGED <<program, test, errors>>, TestsAreOver' => TestsAreOver
      PROVE  RanInv'
  BY <1>1 DEF RanInv, Group
<1>2. CASE CallRecorder
  <2>1. place \in UserFunctions /\ (place' = place \/ place' = After(TRUE))
    BY <1>2, StepEnds DEF Ends, Leave
  <2>2. TestsAreOver' => TestsAreOver
    BY <2>1 DEF After, UserFunctions, TestsAreOver
  <2> QED
    BY <1>1, <1>2, <2>2, StepEnds DEF Ends
<1>3. CASE EndOfFunction
  <2>1. TestsAreOver' => TestsAreOver
    BY <1>3 DEF EndOfFunction, Leave, After, UserFunctions, TestsAreOver
  <2> QED
    BY <1>1, <1>3, <2>1 DEF EndOfFunction
<1>4. CASE Account
  <2>1. /\ program' = program /\ errors' = IF failed THEN errors + 1 ELSE errors
        /\ IF IsLast THEN place' = "groupTeardown" /\ test' = test ELSE place' = "setup"
    BY <1>4 DEF Account, Counts, GoesOnUnless
  <2>2. errors \in Nat
    BY DEF ProgramInv, TypeOK
  <2>3. IsLast => test = Len(Group.tests) \/ errors' > 0
    BY <2>1, <2>2 DEF IsLast
  <2>4. Group' = Group
    BY <2>1 DEF Group
  <2> QED
    BY <2>1, <2>3, <2>4 DEF RanInv, TestsAreOver
<1>5. CASE UNCHANGED vars
  BY <1>1, <1>5 DEF vars, TestsAreOver
<1> QED
  BY <1>2, <1>3, <1>4, <1>5 DEF Next

\* Whatever the scripts are and the recorder does, a program that returns 0 has executed
\* all of its tests, in each way of running it (run...Tests, _cmocka_run_group_tests).
THEOREM ZeroMeansAllRanHolds == RunnerSpec => []ZeroMeansAllRan
<1>1. RunnerInit => RanInv
  BY DEF RunnerInit, Init, RanInv, TestsAreOver
<1>2. RunnerInv /\ RanInv /\ [RunnerNext]_<<vars, way, runnerVars>> => RanInv'
  <2> SUFFICES ASSUME RunnerInv, RanInv, [RunnerNext]_<<vars, way, runnerVars>>
               PROVE  RanInv'
    OBVIOUS
  <2>1. CASE [Next]_vars
    BY <2>1, RanNext DEF RunnerInv
  <2>2. CASE Starts(Head(left))
    BY <2>2 DEF Starts, RanInv, TestsAreOver
  <2>3. CASE UNCHANGED vars
    BY <2>3, RanNext DEF RunnerInv
  <2> QED
    BY <2>1, <2>2, <2>3, RunnerSteps
<1>3. RunnerInv /\ RanInv => ZeroMeansAllRan
  BY DEF RanInv, ZeroMeansAllRan, TestsAreOver
<1> QED
  BY <1>1, <1>2, <1>3, RunnerInvHolds, PTL DEF RunnerSpec
-----------------------------------------------------------------------------
(* What an open critical section does, and what is returned.                  *)

\* Only an open section is ever unbalanced: it is entered, but never left, too often.
NestedInv == globals["critical"] \in Nat /\ globals["critical_expected"] = 0

\* What a step can do to the counters, and that no guard holds while they are unbalanced.
LEMMA StepOnSections ==
  ASSUME ProgramInv, SectionsInv, NestedInv, CallsLeaveSections, CallRecorder,
         NEW st, st = Script[step + 1]
  PROVE  /\ globals'["critical_expected"] = 0
         /\ globals'["critical"] \in {globals["critical"], globals["critical"] + 1, 0}
         /\ ~SetsSections(st) => globals'["critical"] # 0 \/ globals["critical"] = 0
         /\ Guards(st) /\ globals'["critical"] # 0 => Leave(TRUE)
<1>1. PICK right : right = Does(st) /\ RunStep(st, right)
  BY DEF CallRecorder
<1>2. Running
  BY DEF CallRecorder
<1>3. /\ right = [result |-> right.result, s |-> right.s]
      /\ right.s = [x \in DOMAIN right.s |-> right.s[x]] /\ DOMAIN globals \subseteq DOMAIN right.s
      /\ \A x \in {"critical", "critical_expected"} :
           right.s[x] = IF st.kind = "set" /\ st.call = x THEN st.args[1] ELSE globals[x]
  BY <1>1, <1>2 DEF CallsLeaveSections
<1>4. IsStep(st)
  BY <1>2, ScriptSteps
<1>5. /\ right.s["critical_expected"] = 0
      /\ right.s["critical"] = globals["critical"] \/ (SetsSections(st) /\ right.s["critical"] = 0)
      /\ st.kind # "set" => right.s["critical"] = globals["critical"]
  BY <1>3, <1>4 DEF NestedInv, IsStep, SetsSections
<1>6. /\ Before(st)["critical"] = globals["critical"]
      /\ Before(st)["critical_expected"] = 0
  BY DEF Before, prvClearEventData, SectionsInv, Counters, NestedInv
<1>7. PICK outcome :
        /\ Ends(st, outcome)
        /\ outcome.s["critical_expected"] = 0
        /\ \/ outcome.s["critical"] \in {globals["critical"], globals["critical"] + 1}
           \/ SetsSections(st) /\ outcome.s["critical"] = 0
  <2>1. CASE DoStep(st, right)
    BY <1>5, <2>1 DEF DoStep
  <2>2. CASE ReturnWrongly(st, right)
    <3>1. PICK after \in {Before(st), right.s} : Ends(st, [result |-> <<"WRONG", Null>>, s |-> after])
      BY <2>2 DEF ReturnWrongly
    <3>2. /\ after["critical_expected"] = 0
          /\ after["critical"] = globals["critical"] \/ (SetsSections(st) /\ after["critical"] = 0)
      BY <1>5, <1>6
    <3> QED
      BY <3>1, <3>2
  <2>3. CASE StayInCritical(st, right)
    <3>1. Ends(st, [result |-> right.result, s |-> EnterCriticalSection(right.s)])
      BY <1>3, <2>3 DEF StayInCritical
    <3>2. st.kind # "set"
      BY <2>3 DEF StayInCritical, HasFault
    <3>3. Counters \subseteq DOMAIN right.s
      BY <1>3 DEF SectionsInv
    <3>4. /\ EnterCriticalSection(right.s)["critical"] = globals["critical"] + 1
          /\ EnterCriticalSection(right.s)["critical_expected"] = 0
      BY <1>3, <1>5, <3>2, <3>3 DEF EnterCriticalSection, Counters
    <3> QED
      BY <3>1, <3>4
  <2>4. CASE LoseEffect(st, right)
    <3>1. Ends(st, [result |-> right.result, s |-> Before(st)])
      BY <1>3, <2>4 DEF LoseEffect
    <3> QED
      BY <1>6, <3>1
  <2> QED
    BY <1>1, <2>1, <2>2, <2>3, <2>4 DEF RunStep
<1>8. globals' = outcome.s
  BY <1>7 DEF Ends
<1>9. ASSUME Guards(st), globals'["critical"] # 0
      PROVE  Leave(TRUE)
  <2>1. ~Balanced(outcome.s)
    BY <1>7, <1>8, <1>9 DEF Balanced
  <2>2. ~assert_int_equal_cs(st, outcome.result, outcome.s)
    BY <1>9, <2>1 DEF Guards, assert_int_equal_cs
  <2> QED
    BY <1>7, <2>2 DEF Ends
<1>10. globals["critical"] \in Nat
  BY DEF NestedInv
<1>11. globals["critical"] + 1 # 0
  BY <1>10
<1>12. /\ globals'["critical_expected"] = 0
       /\ globals'["critical"] \in {globals["critical"], globals["critical"] + 1, 0}
       /\ ~SetsSections(st) => globals'["critical"] # 0 \/ globals["critical"] = 0
  BY <1>7, <1>8, <1>11
<1> QED
  BY <1>9, <1>12

\* Once there are more errors than suspects, a critical section is open, no guard was
\* passed in a setup, and no body is run after a setup with a guard.
OpenInv ==
  /\ place = "account" => step = 0
  /\ errors > suspects =>
       /\ Unbalanced /\ program \notin Resetting
       /\ place # "groupSetup"
       /\ place = "setup" => \A i \in 1 .. step : ~Guards(Script[i])
       /\ place = "body" => ~IsGuarded(Group.tests[test].setup)

LEMMA UnbalancedIsOpen ==
  ASSUME NestedInv
  PROVE  Unbalanced <=> globals["critical"] # 0
BY DEF NestedInv, Unbalanced, Balanced

\* So no step that runs then sets the counters.
LEMMA NothingIsSet ==
  ASSUME ProgramInv, OpenInv, errors > suspects, Running
  PROVE  ~SetsSections(Script[step + 1])
<1>1. /\ program \in DOMAIN Groups \ Resetting
      /\ place \in {"setup", "body", "teardown", "groupTeardown"}
      /\ step + 1 \in 1 .. Len(Script)
  BY ScriptSteps DEF ProgramInv, TypeOK, Programs, OpenInv, Running, UserFunctions
<1>2. place # "groupTeardown" => test \in 1 .. Len(Groups[program].tests)
  BY <1>1, GroupsAssumption DEF ProgramInv, TypeOK, Group
<1>3. SetsNothing(Groups[program].teardown)
  BY <1>1, SectionsAssumption
<1>4. ASSUME place # "groupTeardown"
      PROVE  /\ SetsNothing(Group.tests[test].setup) /\ SetsNothing(Group.tests[test].teardown)
             /\ SetsNothing(Group.tests[test].body) \/ IsGuarded(Group.tests[test].setup)
  BY <1>1, <1>2, <1>4, SectionsAssumption DEF Group
<1>5. SetsNothing(Script)
  BY <1>1, <1>3, <1>4 DEF Script, OpenInv, Group
<1> QED
  BY <1>1, <1>5 DEF SetsNothing

LEMMA OpenNext ==
  ASSUME ProgramInv, SectionsInv, NestedInv, OpenInv, TestsAreIsolated, CallsLeaveSections,
         [Next]_vars
  PROVE  /\ NestedInv' /\ OpenInv'
         /\ errors > suspects /\ Unbalanced => Unbalanced'
<1>1. errors \in Nat /\ suspects \in Nat /\ failed \in BOOLEAN /\ step \in Nat
  BY DEF ProgramInv, TypeOK
<1>2. CASE CallRecorder
  <2>1. /\ Running /\ place \in UserFunctions
        /\ UNCHANGED <<program, test, errors, suspects>>
        /\ (step' = step + 1 /\ place' = place) \/ Leave(TRUE)
    BY <1>2, StepEnds DEF Ends, CallRecorder
  <2>2. PICK st : st = Script[step + 1]
    OBVIOUS
  <2>3. /\ globals'["critical_expected"] = 0
        /\ globals'["critical"] \in {globals["critical"], globals["critical"] + 1, 0}
        /\ ~SetsSections(st) => globals'["critical"] # 0 \/ globals["critical"] = 0
        /\ Guards(st) /\ globals'["critical"] # 0 => Leave(TRUE)
    BY <1>2, <2>2, StepOnSections
  <2>4. NestedInv' /\ (place' = "account" => step' = 0)
    <3>1. NestedInv'
      BY <2>3 DEF NestedInv
    <3>2. place' = "account" => step' = 0
      BY <2>1 DEF Leave, UserFunctions
    <3> QED
      BY <3>1, <3>2
  <2>5. CASE ~(errors > suspects)
    BY <2>1, <2>4, <2>5 DEF OpenInv
  <2>6. CASE errors > suspects
    <3>1. ~SetsSections(st)
      BY <2>1, <2>2, <2>6, NothingIsSet
    <3>2. globals["critical"] # 0
      BY <2>6, UnbalancedIsOpen DEF OpenInv
    <3>3. globals'["critical"] # 0
      BY <2>3, <3>1, <3>2
    <3>4. Unbalanced'
      BY <2>3, <3>3 DEF Unbalanced, Balanced
    <3>5. CASE Leave(TRUE)
      <4>1. place' # "groupSetup" /\ place' # "setup" /\ place' # "body"
        BY <2>1, <3>5 DEF Leave, After, UserFunctions
      <4> QED
        BY <2>1, <2>4, <2>6, <3>4, <4>1 DEF OpenInv
    <3>6. CASE step' = step + 1 /\ place' = place /\ ~Guards(st)
      <4>1. Script' = Script /\ Group' = Group
        BY <2>1, <3>6 DEF Script, Group
      <4>2. ASSUME place = "setup", NEW i \in 1 .. step'
            PROVE  ~Guards(Script[i])
        BY <1>1, <2>2, <2>6, <3>6, <4>2 DEF OpenInv
      <4> QED
        BY <2>1, <2>4, <2>6, <3>4, <3>6, <4>1, <4>2 DEF OpenInv
    <3> QED
      BY <2>1, <2>3, <3>3, <3>5, <3>6
  <2> QED
    BY <2>5, <2>6
<1>3. CASE EndOfFunction
  <2>1. /\ place \in UserFunctions /\ step = Len(Script) /\ Leave(FALSE)
        /\ UNCHANGED <<program, test, globals, errors, suspects>>
    BY <1>3 DEF EndOfFunction, history
  <2>2. NestedInv' /\ (Unbalanced' <=> Unbalanced)
    BY <2>1 DEF NestedInv, Unbalanced, Balanced
  <2>3. place' # "groupSetup" /\ place' # "setup" /\ (place' = "body" => place = "setup")
    BY <2>1 DEF Leave, After, UserFunctions
  <2>4. ASSUME errors > suspects, place = "setup"
        PROVE  ~IsGuarded(Group.tests[test].setup)
    <3>1. \A i \in 1 .. Len(Script) : ~Guards(Script[i])
      BY <2>1, <2>4 DEF OpenInv
    <3>2. Script = Group.tests[test].setup
      BY <2>4 DEF Script
    <3> QED
      BY <3>1, <3>2 DEF IsGuarded
  <2>5. Group' = Group /\ step' = 0
    BY <2>1 DEF Group, Leave
  <2> QED
    BY <2>1, <2>2, <2>3, <2>4, <2>5 DEF OpenInv
<1>4. CASE Account
  <2>1. /\ UNCHANGED <<program, globals, step>> /\ place = "account"
        /\ errors' = IF failed THEN errors + 1 ELSE errors
        /\ suspects' = IF fault # "none" THEN suspects + 1 ELSE suspects
    BY <1>4 DEF Account, Counts
  <2>2. NestedInv' /\ (Unbalanced' <=> Unbalanced)
    BY <2>1 DEF NestedInv, Unbalanced, Balanced
  <2>3. failed => fault # "none" \/ (Unbalanced /\ program \notin Resetting)
    BY <2>1 DEF TestsAreIsolated
  <2>4. place' \in {"setup", "groupTeardown"}
    BY <1>4 DEF Account, GoesOnUnless
  <2>5. step = 0
    BY <2>1 DEF OpenInv
  <2>6. errors' > suspects' => Unbalanced /\ program \notin Resetting
    BY <1>1, <2>1, <2>3 DEF OpenInv
  <2> QED
    BY <2>1, <2>2, <2>4, <2>5, <2>6 DEF OpenInv
<1>5. CASE UNCHANGED vars
  BY <1>5 DEF vars, history, NestedInv, OpenInv, Unbalanced, Balanced, Group, Script
<1> QED
  BY <1>2, <1>3, <1>4, <1>5 DEF Next

LEMMA OpenStarts ==
  ASSUME NEW p, Starts(p)
  PROVE  NestedInv' /\ OpenInv'
<1>1. globals'["critical"] = 0 /\ globals'["critical_expected"] = 0
  BY FirstGlobalsSections DEF Starts
<1> QED
  BY <1>1 DEF Starts, NestedInv, OpenInv

LEMMA OpenStep ==
  ASSUME RunnerInv, FaultInv, NestedInv, OpenInv, TestsAreIsolated, CallsLeaveSections,
         [RunnerNext]_<<vars, way, runnerVars>>
  PROVE  NestedInv' /\ OpenInv'
<1>1. CASE [Next]_vars
  BY <1>1, OpenNext DEF RunnerInv, FaultInv
<1>2. CASE Starts(Head(left))
  BY <1>2, OpenStarts
<1>3. CASE UNCHANGED vars
  BY <1>3, OpenNext DEF RunnerInv, FaultInv
<1> QED
  BY <1>1, <1>2, <1>3, RunnerSteps

LEMMA OpenInvHolds ==
  RunnerSpec /\ []CallsLeaveSections /\ []TestsAreIsolated => [](NestedInv /\ OpenInv)
<1>1. RunnerInit => NestedInv /\ OpenInv
  <2> SUFFICES ASSUME RunnerInit
               PROVE  NestedInv /\ OpenInv
    OBVIOUS
  <2>1. globals["critical"] = 0 /\ globals["critical_expected"] = 0
    BY FirstGlobalsSections DEF RunnerInit, Init
  <2> QED
    BY <2>1 DEF RunnerInit, Init, NestedInv, OpenInv
<1>2. /\ RunnerInv /\ FaultInv /\ NestedInv /\ OpenInv /\ TestsAreIsolated
      /\ CallsLeaveSections /\ [RunnerNext]_<<vars, way, runnerVars>>
      => (NestedInv /\ OpenInv)'
  BY OpenStep
<1> QED
  BY <1>1, <1>2, RunnerInvHolds, FaultInvHolds, PTL DEF RunnerSpec

\* The program that runs is the one of the list before those that are left.
OrderInv ==
  way # "alone" =>
    /\ Len(left) < Len(RunBy(way))
    /\ program = RunBy(way)[Len(RunBy(way)) - Len(left)]

LEMMA OrderInit == RunnerInit => OrderInv
<1> SUFFICES ASSUME RunnerInit, way # "alone"
             PROVE  OrderInv
  BY DEF OrderInv
<1>1. RunBy(way) \in Seq(Programs) /\ RunBy(way) # <<>>
  BY RunsAssumption DEF RunnerInit
<1>2. left = Tail(RunBy(way)) /\ program = Head(RunBy(way))
  BY DEF RunnerInit
<1>3. Len(left) = Len(RunBy(way)) - 1 /\ Len(RunBy(way)) \in Nat \ {0}
  BY <1>1, <1>2, HeadTailProperties, LenProperties, EmptySeq
<1>4. Len(RunBy(way)) - Len(left) = 1
  BY <1>3
<1> QED
  BY <1>1, <1>2, <1>3, <1>4 DEF OrderInv

LEMMA NextProgramIsAnother ==
  ASSUME RunnerInv, OrderInv, Collect, left # <<>>, Starts(Head(left))
  PROVE  OrderInv' /\ program' # program
<1> DEFINE all == RunBy(way)
<1>1. /\ way \in Ways /\ way # "alone" /\ way' = way /\ left' = Tail(left)
  BY DEF RunnerInv, Collect, GoesOn
<1>2. all \in Seq(Programs) /\ left \in Seq(Programs) /\ Len(all) \in Nat /\ Len(left) \in Nat
  BY <1>1, RunsAssumption DEF RunnerInv, Ending
<1>3. PICK i \in Int : i = Len(all) - Len(left)
  BY <1>2
<1>4. Len(left) > 0 /\ Len(left) < Len(all) /\ program = all[i]
  BY <1>1, <1>2, <1>3 DEF OrderInv
<1>5. i \in DOMAIN all /\ i + 1 \in DOMAIN all
  BY <1>2, <1>3, <1>4
<1>6. program' = all[i + 1]
  <2>1. program' = left[1] /\ 1 \in 1 .. Len(left)
    BY <1>2, <1>4 DEF Starts
  <2>2. left[1] = all[1 + (Len(all) - Len(left))]
    BY <2>1 DEF RunnerInv, Ending
  <2>3. 1 + (Len(all) - Len(left)) = i + 1
    BY <1>2, <1>3
  <2> QED
    BY <2>1, <2>2, <2>3
<1>7. program' # program
  <2>1. IsInjective(all)
    BY <1>1, RunsAssumption
  <2>2. all[i] # all[i + 1]
    BY <1>5, <2>1 DEF IsInjective
  <2> QED
    BY <1>4, <1>6, <2>2
<1>8. Len(left') = Len(left) - 1
  BY <1>1, <1>2, HeadTailProperties
<1>9. Len(all) - Len(left') = i + 1 /\ Len(left') < Len(all)
  BY <1>2, <1>3, <1>4, <1>8
<1> HIDE DEF all
<1>10. RunBy(way') = all
  BY <1>1 DEF all
<1> QED
  BY <1>1, <1>6, <1>7, <1>9, <1>10 DEF OrderInv

LEMMA OrderStep ==
  ASSUME RunnerInv, OrderInv, [RunnerNext]_<<vars, way, runnerVars>>
  PROVE  OrderInv'
<1>1. CASE [Next]_vars /\ UNCHANGED <<way, left>>
  <2>1. program' = program
    BY <1>1, StepEnds DEF RunnerInv, Next, Ends, EndOfFunction, Account, Counts, vars
  <2> QED
    BY <1>1, <2>1 DEF OrderInv
<1>2. CASE Collect /\ left # <<>> /\ Starts(Head(left))
  BY <1>2, NextProgramIsAnother
<1>3. CASE Collect /\ UNCHANGED <<vars, left>>
  BY <1>3 DEF Collect, OrderInv, vars
<1> QED
  BY <1>1, <1>2, <1>3, RunnerSteps

\* From the isolation of the single tests: once a program has more errors than tests with
\* a fault, a critical section is open and no step of it closes that again, whatever faults
\* come then; each test that would set the counters fails in its setup before (the setups
\* of the programs, cmocka_run_one_tests).
THEOREM StaysUnbalancedHolds ==
  RunnerSpec /\ []CallsLeaveSections /\ []TestsAreIsolated => StaysUnbalanced
<1>1. RunnerInit => OrderInv
  BY OrderInit
<1>2. /\ RunnerInv /\ OrderInv /\ [RunnerNext]_<<vars, way, runnerVars>> => OrderInv'
  BY OrderStep
<1>3. /\ RunnerInv /\ FaultInv /\ NestedInv /\ OpenInv /\ OrderInv /\ TestsAreIsolated
      /\ CallsLeaveSections /\ [RunnerNext]_<<vars, way, runnerVars>>
      => [program' = program /\ errors > suspects /\ Unbalanced => Unbalanced']_vars
  <2> SUFFICES ASSUME RunnerInv, FaultInv, NestedInv, OpenInv, OrderInv, TestsAreIsolated,
                      CallsLeaveSections, [RunnerNext]_<<vars, way, runnerVars>>,
                      program' = program, errors > suspects, Unbalanced
               PROVE  Unbalanced'
    OBVIOUS
  <2>1. CASE [Next]_vars
    BY <2>1, OpenNext DEF RunnerInv, FaultInv
  <2>2. CASE Collect /\ left # <<>> /\ Starts(Head(left))
    BY <2>2, NextProgramIsAnother
  <2>3. CASE UNCHANGED vars
    BY <2>3, OpenNext DEF RunnerInv, FaultInv
  <2> QED
    BY <2>1, <2>2, <2>3, RunnerSteps
<1> QED
  BY <1>1, <1>2, <1>3, RunnerInvHolds, FaultInvHolds, OpenInvHolds, PTL
  DEF RunnerSpec, StaysUnbalanced

\* The number that a program returns counts every test with a fault to be noticed, and
\* no test without a fault but where an open section fails all tests from one on, if each
\* test fails only for the faults in it or for such a section.  The number is not more than
\* what is suspected, although many tests end early (README.md, cmocka_run_group_tests).
THEOREM ErrorsAreFaultsHolds ==
  RunnerSpec /\ []CallsLeaveSections /\ []TestsAreIsolated => []ErrorsAreFaults
<1>1. RunnerInv /\ FaultInv /\ OpenInv => ErrorsAreFaults
  <2> SUFFICES ASSUME RunnerInv, FaultInv, OpenInv
               PROVE  ErrorsAreFaults
    OBVIOUS
  <2>1. errors \in Nat /\ suspects \in Nat
    BY DEF RunnerInv, ProgramInv, TypeOK
  <2> QED
    BY <2>1 DEF FaultInv, NoticedInv, OpenInv, ErrorsAreFaults
<1> QED
  BY <1>1, RunnerInvHolds, FaultInvHolds, OpenInvHolds, PTL

\* As long as the recorder was not at fault, nothing is reported.
CleanInv == faults = 0 => errors = 0 /\ ret = 0 /\ ~FAILURE /\ exit \in {-1, 0}

\* A fault noticed in any of the programs is in what the way of running them reports.
ReportInv ==
  /\ noticed => \/ way = "RUNNER" /\ ret > 0
                \/ way = "script" /\ FAILURE
                \/ way = "alone" /\ exit > 0
  /\ way = "script" /\ exit # -1 => exit = IF FAILURE THEN 1 ELSE 0

LEMMA CollectReports ==
  ASSUME RunnerInv, FaultInv, CleanInv, ReportInv, Collect
  PROVE  /\ faults' = 0 => ret' = 0 /\ ~FAILURE'
         /\ noticed' => \/ way' = "RUNNER" /\ ret' > 0
                        \/ way' = "script" /\ FAILURE'
                        \/ way' = "alone" /\ errors > 0
         /\ exit = -1
<1>1. /\ errors \in 0 .. 255 /\ visible \in Nat /\ ExitStatus(errors) = errors
      /\ WaitStatus(errors) = 256 * errors
  BY ErrorsFit DEF RunnerInv, ProgramInv, TypeOK
<1>2. /\ ret' = IF way = "RUNNER" THEN ret + 256 * errors ELSE ret
      /\ FAILURE' <=> (FAILURE \/ (way = "script" /\ errors # 0))
      /\ noticed' = (noticed \/ visible > 0)
      /\ exit = -1 /\ way' = way /\ faults' = faults
  BY <1>1 DEF Collect
<1>3. ret \in Nat /\ way \in {"RUNNER", "script", "alone"}
  BY RunsAssumption DEF RunnerInv
<1>4. noticed \in BOOLEAN /\ FAILURE \in BOOLEAN
  BY DEF RunnerInv
<1>5. visible <= errors
  BY DEF FaultInv, NoticedInv
<1>6. faults' = 0 => ret' = 0 /\ ~FAILURE'
  BY <1>1, <1>2, <1>3 DEF CleanInv
<1>7. CASE visible > 0
  <2>1. errors > 0
    BY <1>1, <1>5, <1>7
  <2>2. way = "RUNNER" => ret' > 0
    BY <1>1, <1>2, <1>3, <2>1
  <2>3. way = "script" => FAILURE'
    BY <1>2, <2>1
  <2> QED
    BY <1>2, <1>3, <1>6, <2>1, <2>2, <2>3
<1>8. CASE ~(visible > 0)
  <2>1. noticed' => noticed
    BY <1>2, <1>8
  <2>2. noticed => (way = "RUNNER" /\ ret > 0) \/ (way = "script" /\ FAILURE)
    BY <1>2 DEF ReportInv
  <2>3. way = "RUNNER" /\ ret > 0 => ret' > 0
    BY <1>1, <1>2, <1>3
  <2>4. FAILURE => FAILURE'
    BY <1>2
  <2> QED
    BY <1>2, <1>6, <2>1, <2>2, <2>3, <2>4
<1> QED
  BY <1>7, <1>8

LEMMA CleanNext ==
  ASSUME ProgramInv, FaultInv, TestsAreIsolated, faults = 0 => errors = 0, [Next]_vars
  PROVE  faults' = 0 => faults = 0 /\ errors' = 0
<1>1. faults \in Nat /\ (CallRecorder => faults' \in {faults, faults + 1})
  BY GroupsAssumption DEF ProgramInv, TypeOK, CallRecorder, RunStep, DoStep, ReturnWrongly,
     StayInCritical, LoseEffect, HasFault
<1>2. CASE CallRecorder
  <2>1. errors' = errors
    BY <1>2, StepEnds DEF Ends
  <2> QED
    BY <1>1, <1>2, <2>1
<1>3. CASE EndOfFunction
  BY <1>3 DEF EndOfFunction, history
<1>4. CASE Account
  <2>1. /\ faults' = faults /\ place = "account"
        /\ errors' = IF failed THEN errors + 1 ELSE errors
    BY <1>4 DEF Account, Counts
  <2>2. faults = 0 => fault = "none" /\ ~Unbalanced
    BY DEF FaultInv, QuietInv, Unbalanced, Balanced
  <2> QED
    BY <2>1, <2>2 DEF TestsAreIsolated
<1>5. CASE UNCHANGED vars
  BY <1>5 DEF vars, history
<1> QED
  BY <1>2, <1>3, <1>4, <1>5 DEF Next

LEMMA ReportStep ==
  ASSUME RunnerInv, FaultInv, TestsAreIsolated, CleanInv, ReportInv,
         [RunnerNext]_<<vars, way, runnerVars>>
  PROVE  CleanInv' /\ ReportInv'
<1>1. CASE [Next]_vars /\ UNCHANGED <<way, left, ret, FAILURE, exit, noticed>>
  <2>1. faults' = 0 => faults = 0 /\ errors' = 0
    BY <1>1, CleanNext DEF RunnerInv, CleanInv
  <2> QED
    BY <1>1, <2>1 DEF CleanInv, ReportInv
<1>2. CASE Collect /\ left # <<>> /\ Starts(Head(left)) /\ exit' = exit
  <2>1. way # "alone" /\ way' = way /\ errors' = 0
    BY <1>2 DEF RunnerInv, Starts, Collect
  <2>2. exit = -1
    BY <1>2 DEF Collect
  <2> QED
    BY <1>2, <2>1, <2>2, CollectReports DEF CleanInv, ReportInv
<1>3. CASE /\ Collect /\ left = <<>> /\ UNCHANGED <<vars, left>>
           /\ way = "RUNNER" => exit' = ret' % 256
           /\ way = "script" => exit' = IF FAILURE' THEN 1 ELSE 0
           /\ way = "alone"  => exit' = errors
  <2>1. /\ way' = way /\ errors' = errors /\ faults' = faults
        /\ way \in {"RUNNER", "script", "alone"}
    BY <1>3, RunsAssumption DEF RunnerInv, Collect, vars
  <2>2. faults' = 0 => errors' = 0 /\ ret' = 0 /\ ~FAILURE'
    BY <1>3, <2>1, CollectReports DEF CleanInv
  <2>3. faults' = 0 => exit' \in {-1, 0}
    <3>1. 0 % 256 = 0
      OBVIOUS
    <3> QED
      BY <1>3, <2>1, <2>2, <3>1
  <2>4. ReportInv'
    BY <1>3, <2>1, CollectReports DEF ReportInv
  <2> QED
    BY <2>2, <2>3, <2>4 DEF CleanInv
<1> QED
  BY <1>1, <1>2, <1>3, RunnerSteps

\* A fault that is noticed in any program, wherever it stands in the list, is reported by
\* each of the three ways of running them, and nothing is reported unless the recorder
\* was at fault, if each test fails only for the faults in it (main of UnitTest_RUNNER,
\* the script of README.md).
THEOREM FaultsAreReportedHolds ==
  RunnerSpec /\ []CallsLeaveSections /\ []TestsAreIsolated => []FaultsAreReported
<1>1. RunnerInit => CleanInv /\ ReportInv
  BY DEF RunnerInit, Init, CleanInv, ReportInv
<1>2. /\ RunnerInv /\ FaultInv /\ TestsAreIsolated /\ CleanInv /\ ReportInv
      /\ [RunnerNext]_<<vars, way, runnerVars>>
      => (CleanInv /\ ReportInv)'
  BY ReportStep
<1>3. RunnerInv /\ CleanInv /\ ReportInv => FaultsAreReported
  <2> SUFFICES ASSUME RunnerInv, CleanInv, ReportInv, exit # -1
               PROVE  LET reported == IF way = "RUNNER" THEN ret # 0 ELSE exit # 0 IN
                      (noticed => reported) /\ (reported => faults > 0)
    BY DEF FaultsAreReported
  <2>1. ret \in Nat /\ exit \in -1 .. 255 /\ faults \in Nat
    BY GroupsAssumption DEF RunnerInv, ProgramInv, TypeOK
  <2>2. noticed => IF way = "RUNNER" THEN ret # 0 ELSE exit # 0
    BY <2>1 DEF ReportInv
  <2>3. (IF way = "RUNNER" THEN ret # 0 ELSE exit # 0) => faults > 0
    BY <2>1 DEF CleanInv
  <2> QED
    BY <2>2, <2>3
<1> QED
  BY <1>1, <1>2, <1>3, RunnerInvHolds, FaultInvHolds, PTL DEF RunnerSpec
-----------------------------------------------------------------------------
(* Every step of a run comes nearer to its end.                               *)

LEMMA PlacesLeftValues ==
  /\ PlacesLeft = [groupSetup |-> 6, setup |-> 5, body |-> 4, teardown |-> 3, account |-> 2,
                   groupTeardown |-> 1, returned |-> 0][place]
  /\ PlacesLeft' = [groupSetup |-> 6, setup |-> 5, body |-> 4, teardown |-> 3, account |-> 2,
                    groupTeardown |-> 1, returned |-> 0][place']
BY DEF PlacesLeft

LEMMA LeaveIsNearer ==
  ASSUME NEW hasFailed \in BOOLEAN, place \in UserFunctions, Leave(hasFailed), test' = test
  PROVE  Nearer
<1>1. place' = After(hasFailed)
  BY DEF Leave
<1>2. PlacesLeft' < PlacesLeft
  BY <1>1, PlacesLeftValues DEF After, UserFunctions
<1> QED
  BY <1>2 DEF Nearer

LEMMA NextIsNearer ==
  ASSUME ProgramInv, Next
  PROVE  Nearer /\ program' = program
<1>1. CASE CallRecorder
  <2>1. step \in Nat /\ step < Len(Script)
    BY <1>1 DEF CallRecorder, Running, ProgramInv, TypeOK
  <2>2. PICK st, outcome : Ends(st, outcome)
    BY <1>1, StepEnds
  <2>3. UNCHANGED <<program, test>>
    BY <2>2 DEF Ends
  <2>4. CASE step' = step + 1 /\ UNCHANGED place
    BY <2>1, <2>3, <2>4 DEF Nearer
  <2>5. CASE Leave(TRUE)
    BY <1>1, <2>3, <2>5, StepEnds, LeaveIsNearer
  <2> QED
    BY <2>2, <2>3, <2>4, <2>5 DEF Ends
<1>2. CASE EndOfFunction
  BY <1>2, LeaveIsNearer DEF EndOfFunction
<1>3. CASE Account
  <2>1. place = "account" /\ program' = program
    BY <1>3 DEF Account, Counts
  <2>2. CASE place' = "groupTeardown" /\ test' = test
    BY <2>1, <2>2, PlacesLeftValues DEF Nearer
  <2>3. CASE test' = test + 1
    <3>1. test \in Nat /\ Len(Group.tests) \in Nat
      BY GroupsAssumption DEF ProgramInv, TypeOK, Group, Programs
    <3> QED
      BY <2>1, <2>3, <3>1 DEF Nearer
  <2> QED
    BY <1>3, <2>1, <2>2, <2>3 DEF Account, GoesOnUnless
<1> QED
  BY <1>1, <1>2, <1>3 DEF Next

\* Whatever the recorder does and whatever the assertions of the scripts are, a run of the
\* programs takes a bounded number of steps: each is one nearer to its end (main of
\* UnitTest_RUNNER, run...Tests, _cmocka_run_group_tests).
THEOREM RunAdvancesHolds == RunnerSpec => RunAdvances
<1> DEFINE Advances == \/ Len(left') < Len(left)
                       \/ left' = left /\ exit = -1 /\ exit' # -1
                       \/ UNCHANGED <<left, exit, program>> /\ Nearer
<1>1. RunnerInv /\ [RunnerNext]_<<vars, way, runnerVars>>
      => [Advances]_<<vars, way, runnerVars>>
  <2> SUFFICES ASSUME RunnerInv, RunnerNext
               PROVE  Advances
    OBVIOUS
  <2>1. CASE ProgramStep
    BY <2>1, NextIsNearer DEF ProgramStep, runnerVars, RunnerInv
  <2>2. CASE Collect /\ left # <<>> /\ left' = Tail(left)
    <3>1. left \in Seq(Programs)
      BY DEF RunnerInv, Ending
    <3>2. Len(left) \in Nat /\ Len(left') = Len(left) - 1
      BY <2>2, <3>1, HeadTailProperties
    <3> QED
      BY <3>2
  <2>3. CASE Collect /\ left = <<>>
    <3>1. /\ exit = -1 /\ left' = left /\ way \in {"RUNNER", "script", "alone"}
          /\ ret' \in Nat /\ errors \in 0 .. 255
      BY <2>3, CollectCases, ErrorsFit, RunsAssumption DEF Collect, RunnerInv
    <3>2. ret' % 256 \in 0 .. 255
      BY <3>1, LastBits
    <3>3. exit' \in 0 .. 255
      <4>1. /\ way = "RUNNER" => exit' = ret' % 256
            /\ way = "script" => exit' = IF FAILURE' THEN 1 ELSE 0
            /\ way = "alone"  => exit' = errors
        BY <2>3, CollectCases
      <4>2. CASE way = "RUNNER"
        BY <3>2, <4>1, <4>2
      <4>3. CASE way = "script"
        BY <4>1, <4>3
      <4>4. CASE way = "alone"
        BY <3>1, <4>1, <4>4
      <4> QED
        BY <3>1, <4>2, <4>3, <4>4
    <3>4. exit' # -1
      BY <3>3
    <3> QED
      BY <3>1, <3>4
  <2> QED
    BY <2>1, <2>2, <2>3, CollectCases DEF RunnerNext
<1> HIDE DEF Advances
<1>2. RunnerSpec => [][Advances]_<<vars, way, runnerVars>>
  BY <1>1, RunnerInvHolds, PTL DEF RunnerSpec
<1> QED
  BY <1>2 DEF Advances, RunAdvances
=============================================================================
