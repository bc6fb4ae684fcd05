---------------------------- MODULE MCTestRunner ----------------------------
(* Instances of TestRunner for TLC: what the user functions do.            *)
EXTENDS TestRunner, TLC

BlockSymmetry == Permutations(Blocks)

DocumentedCounts == {-2, -1, 1}

Script(inFixtures, inTests) ==
  [kind \in Frames |-> IF kind = "test" THEN inTests ELSE inFixtures]

\* Every way to end a user function; only tests skip.
EndingScript ==
  Script({"return", "fail", "stop", "mockAssert"},
         {"fail", "signal", "skip", "stop", "mockAssert"})

\* Expectations come and go, tests also skip and stop on top of them, and
\* assertions are false: expected ones in setups, others anywhere.
MockScript ==
  [Script({"check", "order", "mockAssert"}, {"check", "order", "mockAssert", "skip", "stop"})
     EXCEPT !["setup"] = {"mockAssert", "expectAssert"}]

\* Blocks are allocated, reallocated, freed and overrun; the teardown of a test
\* frees any block, those of the group setup included.
HeapScript ==
  [Script({"return", "alloc", "free", "overrun"}, {"alloc", "free", "overrun", "fail", "skip"})
     EXCEPT !["teardown"] = @ \cup {"freeAny"}]

\* The heap, and tests that stop.
StopScript == Script({}, {"alloc", "stop"})

\* Functions under test with assertions, expected and not, and tests that fail.
AssertAndFailScript == Script({"mockAssert"}, {"mockAssert", "expectAssert", "fail"})

\* Fixtures that skip.
SkipScript == Script({"skip"}, {"fail"})

(* What the user functions of a run do.                                    *)
OnlyEndings == {EndingScript}

HeapOrMocks == {HeapScript, MockScript}

OnlyStops == {StopScript}

OnlyAsserts == {AssertAndFailScript}

OnlySkips == {SkipScript}
=============================================================================
