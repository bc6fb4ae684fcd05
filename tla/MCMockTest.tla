----------------------------- MODULE MCMockTest -----------------------------
(* Instances of MockTest for TLC.                                          *)
EXTENDS MockTest, TLC

FunctionSymmetry == Permutations(Functions)

\* Every class of repetition count: -2 and -1, the illegal 0, once, and more
\* than once; -3 behaves like -2 and is left to the proofs.
AllCounts == {-2, -1, 0, 1, 2}

\* The counts cmocka.h gives names to.
DocumentedCounts == {-2, -1, 1}

=============================================================================
