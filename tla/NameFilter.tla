----------------------------- MODULE NameFilter -----------------------------
(***************************************************************************)
(* Which tests of a group are run: cmocka_set_test_filter and              *)
(* cmocka_set_skip_filter take a pattern with the wildcards "*" and "?".   *)
(* Names and patterns are sequences of characters.                         *)
(***************************************************************************)
EXTENDS Naturals, Sequences

NoFilter == <<"no filter">>

\* from[j]: the places of the name from which on it matches the pattern from its j-th
\* character on.
c_strmatch(str, pattern) ==
  LET from[j \in 1 .. Len(pattern) + 1] ==
        IF j > Len(pattern) THEN {Len(str) + 1}
        ELSE IF pattern[j] = "*"
        THEN {i \in 1 .. Len(str) + 1 :
                j = Len(pattern) \/ \E k \in i .. Len(str) : k \in from[j + 1]}
        ELSE {i \in 1 .. Len(str) : pattern[j] \in {"?", str[i]} /\ i + 1 \in from[j + 1]}
  IN 1 \in from[1]

\* The elements of a sequence at some of its places, in their order.
Kept(seq, places) ==
  LET kept[n \in 0 .. Len(seq)] ==
        IF n = 0 THEN <<>>
        ELSE IF n \in places THEN Append(kept[n - 1], seq[n])
        ELSE kept[n - 1]
  IN kept[Len(seq)]

\* (mutant of Selected: the tests that are skipped are looked for only without a filter)
SelectedOrSkipped(tests, test_filter, skip_filter) ==
  Kept(tests, {i \in DOMAIN tests :
    IF test_filter # NoFilter THEN c_strmatch(tests[i], test_filter)
    ELSE skip_filter # NoFilter => ~c_strmatch(tests[i], skip_filter)})

\* The tests of a group that are run.
Selected(tests, test_filter, skip_filter) ==
  Kept(tests, {i \in DOMAIN tests :
    /\ test_filter # NoFilter => c_strmatch(tests[i], test_filter)
    /\ skip_filter # NoFilter => ~c_strmatch(tests[i], skip_filter)})
-----------------------------------------------------------------------------
(* What cmocka.h says of the patterns: "*" matches zero or more characters, *)
(* "?" exactly one.  The j-th character of the pattern stands for those of  *)
(* the name from the cut j - 1 to the cut j.                                *)
Matches(str, pattern) ==
  \E cut \in [0 .. Len(pattern) -> 0 .. Len(str)] :
    /\ cut[0] = 0 /\ cut[Len(pattern)] = Len(str)
    /\ \A j \in 1 .. Len(pattern) :
         CASE pattern[j] = "*" -> cut[j - 1] <= cut[j]
           [] pattern[j] = "?" -> cut[j] = cut[j - 1] + 1
           [] OTHER -> cut[j] = cut[j - 1] + 1 /\ str[cut[j]] = pattern[j]

\* In the middle of a pattern a star is followed by some other character.
Plain(pattern) ==
  \A j \in 1 .. Len(pattern) - 1 : pattern[j] = "*" => pattern[j + 1] # "*"
=============================================================================
