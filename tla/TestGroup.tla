------------------------------ MODULE TestGroup ------------------------------
(***************************************************************************)
(* What a program can rely on when it runs groups of tests, one after      *)
(* another, with cmocka_run_group_tests: the tests of a group are executed *)
(* once each; if its setup fails none of them is, and the teardown comes   *)
(* next; the result is the number of errors, unless there is no memory for *)
(* the group or the process ends.                                          *)
(***************************************************************************)
EXTENDS Integers

VARIABLES
  phase,      \* no group, its setup, its tests, its end, or no process
  left,       \* tests of the group still to be executed
  executed,   \* those that have been
  errors,     \* those that failed, and the group setup
  result      \* of the last group, 0 while there is none

vars == <<phase, left, executed, errors, result>>

Phases == {"none", "setup", "tests", "end", "gone"}

TypeOK ==
  /\ phase \in Phases
  /\ left \in Nat /\ executed \in Nat
  /\ errors \in Nat
  /\ result \in Nat \cup {-1}

\* A group may have begun.
Init ==
  /\ phase \in {"none", "setup"}
  /\ left \in Nat
  /\ executed = 0 /\ errors = 0 /\ result = 0

\* The phase when there are n tests left.
Upcoming(n) == IF n = 0 THEN "end" ELSE "tests"

\* A group without a setup begins with its tests.
Begin ==
  /\ phase = "none"
  /\ left' \in Nat
  /\ executed' = 0 /\ errors' = 0
  /\ \/ phase' \in {"setup", Upcoming(left')} /\ result' = 0
     \/ phase' = "none" /\ result' = -1

Setup ==
  /\ phase = "setup"
  /\ \/ phase' = Upcoming(left) /\ UNCHANGED errors
     \/ phase' = "end" /\ errors' = errors + 1
  /\ UNCHANGED <<left, executed, result>>

Execute ==
  /\ phase = "tests"
  /\ left' = left - 1
  /\ executed' = executed + 1
  /\ errors' \in {errors, errors + 1}
  /\ phase' = Upcoming(left')
  /\ UNCHANGED result

End ==
  /\ phase = "end"
  /\ phase' = "none"
  /\ result' = errors
  /\ UNCHANGED <<left, executed, errors>>

\* A failure aborts the process, or blocks that are left over end it.
Die ==
  /\ phase # "none"
  /\ phase' = "gone"
  /\ UNCHANGED <<left, executed, errors, result>>

Next == Begin \/ Setup \/ Execute \/ End \/ Die

Spec == Init /\ [][Next]_vars

\* Every error is one of an executed test or of the group setup, and a group only comes
\* to its end when it has executed all of its tests or its setup has failed
\* (cmocka_run_group_tests).
Accountable ==
  /\ errors <= executed + 1
  /\ phase = "end" => left = 0 \/ (executed = 0 /\ errors = 1)
=============================================================================
