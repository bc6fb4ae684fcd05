--------------------------- MODULE MCUpdateMocks ---------------------------
(* Instances of UpdateMocks for TLC.                                       *)
EXTENDS UpdateMocks

\* Two projects share a file, and one of them has another one.
TwoProjects == {<<"p1", "f1">>, <<"p1", "f2">>, <<"p2", "f1">>}

FileOfPair(c) == c[2]
=============================================================================
