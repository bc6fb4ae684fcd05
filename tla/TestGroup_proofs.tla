-------------------------- MODULE TestGroup_proofs --------------------------
(* Theorems about TestGroup, for groups of any number of tests.            *)
EXTENDS TestGroup, TLAPS

\* The inductive invariant: types, and what the phases say of the counters.
GroupInv ==
  /\ TypeOK
  /\ phase = "setup" => executed = 0 /\ errors = 0
  /\ phase = "tests" => left # 0 /\ errors <= executed
  /\ Accountable

LEMMA GroupInvInit == Init => GroupInv
BY DEF Init, GroupInv, TypeOK, Phases, Accountable

LEMMA GroupInvStep == GroupInv /\ [Next]_vars => GroupInv'
<1> SUFFICES ASSUME GroupInv, [Next]_vars
             PROVE  GroupInv'
  OBVIOUS
<1> USE DEF GroupInv, TypeOK, Phases, Accountable
<1>1. CASE Begin
  BY <1>1 DEF Begin, Upcoming
<1>2. CASE Setup
  BY <1>2 DEF Setup, Upcoming
<1>3. CASE Execute
  BY <1>3 DEF Execute, Upcoming
<1>4. CASE End
  BY <1>4 DEF End
<1>5. CASE Die
  BY <1>5 DEF Die
<1>6. CASE UNCHANGED vars
  BY <1>6 DEF vars
<1> QED
  BY <1>1, <1>2, <1>3, <1>4, <1>5, <1>6 DEF Next

LEMMA GroupInvHolds == Spec => []GroupInv
BY GroupInvInit, GroupInvStep, PTL DEF Spec

\* The counters are numbers, and there are never fewer than no tests left
\* (_cmocka_run_group_tests).
THEOREM GroupTypeCorrect == Spec => []TypeOK
<1>1. GroupInv => TypeOK
  BY DEF GroupInv
<1> QED
  BY <1>1, GroupInvHolds, PTL

\* No group has more errors than tests that were executed and its setup, and none comes
\* to its end before all of its tests were executed or its setup failed
\* (_cmocka_run_group_tests).
THEOREM AccountableHolds == Spec => []Accountable
<1>1. GroupInv => Accountable
  BY DEF GroupInv
<1> QED
  BY <1>1, GroupInvHolds, PTL
=============================================================================
