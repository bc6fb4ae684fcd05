------------------------------ MODULE MCReports ------------------------------
(* Instances of Reports for TLC.                                           *)
EXTENDS Reports

\* Groups: one whose name has the pattern of the file's name in it.
AGroup == [name |-> <<"a">>, tests |-> <<<<"a">>, <<"a", "b">>>>]
BGroup == [name |-> <<"b">>, tests |-> <<<<"b">>>>]
GGroup == [name |-> <<"%", "g", "a", "b">>, tests |-> <<<<"b">>>>]

AllGroups == {AGroup, GGroup}
TwoGroups == {AGroup, BGroup}

AllFilters == {NoFilter, <<"*", "b">>, <<"?">>}
NoFilters  == {NoFilter}

AllOutputs == {{"TAP", "XML"}}
NoOutputs  == {}

Env(output, file) == [output |-> output, file |-> file]

\* One file for all groups, one for each group.
File  == <<"x">>
Files == <<"x", "%", "g">>

AllEnvironments ==
  {Env(Illegal, Unset), Env({}, Files), Env(Formats, Files), Env({"XML"}, File)}

XmlFiles == {Env({"XML"}, Files)}

\* The matcher and what is said of it, on all short names and patterns.
Strings(A, n) == UNION {[1 .. k -> A] : k \in 0 .. n}

ASSUME FilterMatches ==
  \A s \in Strings({"a", "b"}, 3), p \in Strings({"a", "b", "*", "?"}, 3) :
    Plain(p) => (c_strmatch(s, p) <=> Matches(s, p))
=============================================================================
