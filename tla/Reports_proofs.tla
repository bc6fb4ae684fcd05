---------------------------- MODULE Reports_proofs ----------------------------
(***************************************************************************)
(* Theorems about Reports, for any groups, filters, environments and names *)
(* of files, and any number of groups and programs.                        *)
(***************************************************************************)
EXTENDS Reports, SequenceTheorems, FiniteSetTheorems, WellFoundedInduction, TLAPS
-----------------------------------------------------------------------------
(* Induction, and the name filters.                                        *)

LEMMA SmallestExists ==
  ASSUME NEW N \in SUBSET Nat, N # {}
  PROVE  \E n \in N : \A m \in N : n <= m
<1>1. PICK n \in N : \A m \in N : <<m, n>> \notin OpToRel(<, Nat)
  BY NatLessThanWellFounded, WFMin
<1>2. ASSUME NEW m \in N, m < n PROVE FALSE
  <2>1. <<m, n>> \in Nat \X Nat /\ <<m, n>>[1] < <<m, n>>[2]
    BY <1>2
  <2>2. <<m, n>> \in OpToRel(<, Nat)
    BY <2>1, Zenon DEF OpToRel
  <2> QED
    BY <1>1, <2>2, Zenon
<1>3. \A m \in N : n <= m
  BY <1>2
<1> QED
  BY <1>3

\* Induction over the natural numbers, for a set.
LEMMA Induction ==
  ASSUME NEW N, 0 \in N, \A n \in Nat : n \in N => n + 1 \in N
  PROVE  Nat \subseteq N
<1> SUFFICES ASSUME Nat \ N # {}
             PROVE  FALSE
  OBVIOUS
<1>1. PICK m \in Nat \ N : \A k \in Nat \ N : m <= k
  BY SmallestExists
<1> QED
  BY <1>1

\* The j-th character of the pattern can stand for what is between two cuts of the name.
StandsFor(str, wild, j, a, b) ==
  CASE wild[j] = "*" -> a <= b
    [] wild[j] = "?" -> b = a + 1
    [] OTHER -> b = a + 1 /\ str[b] = wild[j]

\* The places of the name from which on it matches the pattern from its j-th character on.
MatchFrom(str, wild, j) ==
  {i \in 1 .. Len(str) + 1 :
     \E cut \in [j - 1 .. Len(wild) -> 0 .. Len(str)] :
       /\ cut[j - 1] = i - 1 /\ cut[Len(wild)] = Len(str)
       /\ \A m \in j .. Len(wild) : StandsFor(str, wild, m, cut[m - 1], cut[m])}

LEMMA MatchesFromStart ==
  ASSUME NEW S, NEW str \in Seq(S), NEW wild \in Seq(S)
  PROVE  Matches(str, wild) <=> 1 \in MatchFrom(str, wild, 1)
<1>1. Len(str) \in Nat /\ Len(wild) \in Nat
  BY LenProperties
<1>2. 1 - 1 = 0 /\ 1 \in 1 .. Len(str) + 1
  BY <1>1
<1> QED
  BY <1>2 DEF Matches, MatchFrom, StandsFor

\* One character further.
LEMMA MatchFromNext ==
  ASSUME NEW S, NEW str \in Seq(S), NEW wild \in Seq(S), NEW j \in 1 .. Len(wild),
         NEW i \in 1 .. Len(str) + 1
  PROVE  i \in MatchFrom(str, wild, j) <=>
           \E k \in MatchFrom(str, wild, j + 1) : StandsFor(str, wild, j, i - 1, k - 1)
<1> DEFINE n == Len(wild)
           cuts(h) == [h - 1 .. n -> 0 .. Len(str)]
           fits(cut, h) == \A m \in h .. n : StandsFor(str, wild, m, cut[m - 1], cut[m])
<1>1. Len(str) \in Nat /\ n \in Nat /\ j \in Int /\ (j + 1) - 1 = j
  BY LenProperties
<1>2. ASSUME i \in MatchFrom(str, wild, j)
      PROVE  \E k \in MatchFrom(str, wild, j + 1) : StandsFor(str, wild, j, i - 1, k - 1)
  <2>1. PICK cut \in cuts(j) : cut[j - 1] = i - 1 /\ cut[n] = Len(str) /\ fits(cut, j)
    BY <1>2 DEF MatchFrom
  <2> DEFINE k == cut[j] + 1
             rest == [m \in j .. n |-> cut[m]]
  <2>2. /\ j \in j - 1 .. n /\ cut[j] \in 0 .. Len(str)
        /\ k \in 1 .. Len(str) + 1 /\ k - 1 = cut[j]
    <3>1. j \in j - 1 .. n
      BY <1>1
    <3>2. cut[j] \in 0 .. Len(str)
      BY <3>1
    <3> QED
      BY <1>1, <3>1, <3>2
  <2>3. StandsFor(str, wild, j, i - 1, k - 1)
    <3>1. StandsFor(str, wild, j, cut[j - 1], cut[j])
      BY <1>1, <2>1
    <3> QED
      BY <2>1, <2>2, <3>1
  <2>4. rest \in cuts(j + 1) /\ rest[(j + 1) - 1] = k - 1 /\ rest[n] = Len(str)
    BY <1>1, <2>1, <2>2
  <2>5. fits(rest, j + 1)
    <3> SUFFICES ASSUME NEW m \in j + 1 .. n
                 PROVE  StandsFor(str, wild, m, rest[m - 1], rest[m])
      OBVIOUS
    <3>1. m \in j .. n /\ m - 1 \in j .. n
      BY <1>1
    <3>2. StandsFor(str, wild, m, cut[m - 1], cut[m]) 
      BY <2>1, <3>1
    <3> QED
      BY <3>1, <3>2
  <2>6. k \in MatchFrom(str, wild, j + 1)
    <3> HIDE DEF rest
    <3> QED
      BY <2>2, <2>4, <2>5 DEF MatchFrom
  <2> QED
    BY <2>3, <2>6
<1>3. ASSUME NEW k \in MatchFrom(str, wild, j + 1), StandsFor(str, wild, j, i - 1, k - 1)
      PROVE  i \in MatchFrom(str, wild, j)
  <2>1. PICK rest \in cuts(j + 1) :
          rest[(j + 1) - 1] = k - 1 /\ rest[n] = Len(str) /\ fits(rest, j + 1)
    BY <1>3 DEF MatchFrom
  <2> DEFINE cut == [m \in j - 1 .. n |-> IF m = j - 1 THEN i - 1 ELSE rest[m]]
  <2>2. /\ cut \in cuts(j) /\ cut[j - 1] = i - 1 /\ cut[n] = Len(str)
        /\ cut[j] = k - 1
    <3>1. rest \in [j .. n -> 0 .. Len(str)] /\ rest[j] = k - 1 /\ rest[n] = Len(str)
      BY <1>1, <2>1
    <3>2. i - 1 \in 0 .. Len(str) /\ j # j - 1 /\ n # j - 1
      BY <1>1
    <3>3. j - 1 \in j - 1 .. n /\ j \in j - 1 .. n /\ n \in j - 1 .. n
      BY <1>1
    <3>4. \A m \in j - 1 .. n : m = j - 1 \/ m \in j .. n
      BY <1>1
    <3> QED
      BY <3>1, <3>2, <3>3, <3>4
  <2>3. fits(cut, j)
    <3> SUFFICES ASSUME NEW m \in j .. n
                 PROVE  StandsFor(str, wild, m, cut[m - 1], cut[m])
      OBVIOUS
    <3>1. CASE m = j
      BY <1>3, <2>2, <3>1
    <3>2. CASE m # j
      <4>1. m \in j + 1 .. n /\ m - 1 \in j .. n /\ m - 1 # j - 1 /\ m # j - 1
        BY <1>1, <3>2
      <4>2. cut[m] = rest[m] /\ cut[m - 1] = rest[m - 1]
        BY <1>1, <4>1
      <4> HIDE DEF cut
      <4> QED
        BY <2>1, <4>1, <4>2
    <3> QED
      BY <3>1, <3>2
  <2> HIDE DEF cut
  <2> QED
    BY <2>2, <2>3 DEF MatchFrom
<1> QED
  BY <1>2, <1>3

LEMMA MatchFromEnd ==
  ASSUME NEW S, NEW str \in Seq(S), NEW wild \in Seq(S)
  PROVE  MatchFrom(str, wild, Len(wild) + 1) = {Len(str) + 1}
<1> DEFINE n == Len(wild)
<1>1. Len(str) \in Nat /\ n \in Nat /\ (n + 1) - 1 = n
  BY LenProperties
<1>2. ASSUME NEW i \in MatchFrom(str, wild, n + 1) PROVE i = Len(str) + 1
  BY <1>1, <1>2 DEF MatchFrom
<1>3. Len(str) + 1 \in MatchFrom(str, wild, n + 1)
  <2> DEFINE cut == [m \in n .. n |-> Len(str)]
  <2>1. /\ cut \in [(n + 1) - 1 .. n -> 0 .. Len(str)]
        /\ cut[(n + 1) - 1] = (Len(str) + 1) - 1 /\ cut[n] = Len(str)
        /\ n + 1 .. n = {}
    BY <1>1
  <2> HIDE DEF cut
  <2> QED
    BY <1>1, <2>1 DEF MatchFrom
<1> QED
  BY <1>2, <1>3

\* Where the pattern goes on with one character, the name does.
LEMMA MatchFromCharacter ==
  ASSUME NEW S, NEW str \in Seq(S), NEW wild \in Seq(S), NEW j \in 1 .. Len(wild),
         wild[j] # "*"
  PROVE  MatchFrom(str, wild, j) =
           {i \in 1 .. Len(str) :
              wild[j] \in {"?", str[i]} /\ i + 1 \in MatchFrom(str, wild, j + 1)}
<1> DEFINE later == MatchFrom(str, wild, j + 1)
<1>1. Len(str) \in Nat /\ later \subseteq 1 .. Len(str) + 1
  BY LenProperties DEF MatchFrom
<1>2. MatchFrom(str, wild, j) \subseteq 1 .. Len(str) + 1
  BY DEF MatchFrom
<1> HIDE DEF later
<1>3. ASSUME NEW i \in 1 .. Len(str) + 1
      PROVE  (\E k \in later : StandsFor(str, wild, j, i - 1, k - 1)) <=>
               /\ i \in 1 .. Len(str)
               /\ wild[j] \in {"?", str[i]} /\ i + 1 \in later
  <2>1. ASSUME NEW k \in later
        PROVE  StandsFor(str, wild, j, i - 1, k - 1) <=>
                 k = i + 1 /\ wild[j] \in {"?", str[i]}
    <3>1. k \in Int /\ (k - 1 = (i - 1) + 1 <=> k = i + 1) /\ (k = i + 1 => k - 1 = i)
      BY <1>1
    <3> QED
      BY <3>1 DEF StandsFor
  <2>2. i + 1 \in later => i \in 1 .. Len(str)
    BY <1>1
  <2> QED
    BY <2>1, <2>2
<1>4. \A i \in 1 .. Len(str) + 1 : i \in MatchFrom(str, wild, j) <=>
        \E k \in later : StandsFor(str, wild, j, i - 1, k - 1)
  BY MatchFromNext DEF later
<1>5. 1 .. Len(str) \subseteq 1 .. Len(str) + 1
  BY <1>1
<1> QED
  BY <1>2, <1>3, <1>4, <1>5 DEF later

\* Where it goes on with a star that another character follows, the name goes on there later.
LEMMA MatchFromStar ==
  ASSUME NEW S, NEW str \in Seq(S), NEW wild \in Seq(S), Plain(wild),
         NEW j \in 1 .. Len(wild), wild[j] = "*"
  PROVE  MatchFrom(str, wild, j) =
           {i \in 1 .. Len(str) + 1 : j = Len(wild) \/
              \E k \in i .. Len(str) : k \in MatchFrom(str, wild, j + 1)}
<1> DEFINE later == MatchFrom(str, wild, j + 1)
<1>1. Len(str) \in Nat /\ Len(wild) \in Nat /\ later \subseteq 1 .. Len(str) + 1
  BY LenProperties DEF MatchFrom
<1>2. MatchFrom(str, wild, j) \subseteq 1 .. Len(str) + 1
  BY DEF MatchFrom
<1>3. j = Len(wild) => later = {Len(str) + 1}
  BY MatchFromEnd
<1>4. j # Len(wild) => later \subseteq 1 .. Len(str)
  <2> SUFFICES ASSUME j # Len(wild)
               PROVE  later \subseteq 1 .. Len(str)
    OBVIOUS
  <2>1. j \in 1 .. Len(wild) - 1 /\ j + 1 \in 1 .. Len(wild)
    BY <1>1
  <2>2. wild[j + 1] # "*"
    BY <2>1 DEF Plain
  <2> QED
    BY <2>1, <2>2, MatchFromCharacter
<1> HIDE DEF later
<1>5. ASSUME NEW i \in 1 .. Len(str) + 1
      PROVE  (\E k \in later : StandsFor(str, wild, j, i - 1, k - 1)) <=>
               j = Len(wild) \/ \E k \in i .. Len(str) : k \in later
  <2>1. ASSUME NEW k \in later
        PROVE  StandsFor(str, wild, j, i - 1, k - 1) <=> i <= k
    <3>1. k \in Int /\ (i - 1 <= k - 1 <=> i <= k)
      BY <1>1
    <3> QED
      BY <3>1 DEF StandsFor
  <2>2. CASE j = Len(wild)
    <3>1. Len(str) + 1 \in later /\ i <= Len(str) + 1
      BY <1>3, <2>2, <1>1
    <3> QED
      BY <2>1, <2>2, <3>1
  <2>3. CASE j # Len(wild)
    <3>1. \A k \in later : i <= k <=> k \in i .. Len(str)
      BY <1>1, <1>4, <2>3
    <3> QED
      BY <2>1, <2>3, <3>1
  <2> QED
    BY <2>2, <2>3
<1>6. \A i \in 1 .. Len(str) + 1 : i \in MatchFrom(str, wild, j) <=>
        \E k \in later : StandsFor(str, wild, j, i - 1, k - 1)
  BY MatchFromNext DEF later
<1> QED
  BY <1>2, <1>5, <1>6 DEF later

\* Names match plain patterns as cmocka.h says (c_strmatch).
THEOREM NamesMatch ==
  ASSUME NEW S, NEW str \in Seq(S), NEW wild \in Seq(S), Plain(wild)
  PROVE  c_strmatch(str, wild) <=> Matches(str, wild)
<1> DEFINE n == Len(wild)
           at(j, later) ==
             IF j > n THEN {Len(str) + 1}
             ELSE IF wild[j] = "*"
             THEN {i \in 1 .. Len(str) + 1 : j = n \/ \E k \in i .. Len(str) : k \in later}
             ELSE {i \in 1 .. Len(str) : wild[j] \in {"?", str[i]} /\ i + 1 \in later}
           IsFrom(from) == from = [j \in 1 .. n + 1 |-> at(j, from[j + 1])]
           reference == [j \in 1 .. n + 1 |-> MatchFrom(str, wild, j)]
<1>1. Len(str) \in Nat /\ n \in Nat
  BY LenProperties
<1>2. \A j \in 1 .. n + 1 :
        MatchFrom(str, wild, j) = at(j, MatchFrom(str, wild, j + 1))
  <2> SUFFICES ASSUME NEW j \in 1 .. n + 1
               PROVE  MatchFrom(str, wild, j) = at(j, MatchFrom(str, wild, j + 1))
    OBVIOUS
  <2>1. CASE j = n + 1
    <3>1. j > n /\ MatchFrom(str, wild, j) = {Len(str) + 1}
      BY <1>1, <2>1, MatchFromEnd
    <3> QED
      BY <3>1
  <2>2. CASE j # n + 1 /\ wild[j] = "*"
    <3>1. j \in 1 .. n /\ ~(j > n)
      BY <1>1, <2>2
    <3> QED
      BY <2>2, <3>1, MatchFromStar
  <2>3. CASE j # n + 1 /\ wild[j] # "*"
    <3>1. j \in 1 .. n /\ ~(j > n)
      BY <1>1, <2>3
    <3> QED
      BY <2>3, <3>1, MatchFromCharacter
  <2> QED
    BY <2>1, <2>2, <2>3
<1>3. IsFrom(reference)
  <2>1. ASSUME NEW j \in 1 .. n + 1
        PROVE  MatchFrom(str, wild, j) = at(j, reference[j + 1])
    <3>1. CASE j = n + 1
      <4>1. j > n
        BY <1>1, <3>1
      <4> QED
        BY <1>2, <4>1
    <3>2. CASE j # n + 1
      <4>1. j + 1 \in 1 .. n + 1
        BY <1>1, <3>2
      <4>2. reference[j + 1] = MatchFrom(str, wild, j + 1)
        BY <4>1
      <4> HIDE DEF reference, at
      <4> QED
        BY <1>2, <4>2
    <3> QED
      BY <3>1, <3>2
  <2> HIDE DEF at
  <2> QED
    BY <2>1
<1>4. ASSUME NEW from, IsFrom(from)
      PROVE  from[1] = MatchFrom(str, wild, 1)
  <2> DEFINE agree == {d \in Nat : d <= n => from[n + 1 - d] = MatchFrom(str, wild, n + 1 - d)}
  <2>1. \A j \in 1 .. n + 1 : from[j] = at(j, from[j + 1])
    <3> HIDE DEF at
    <3> QED
      BY <1>4
  <2>2. 0 \in agree
    <3>1. n + 1 - 0 = n + 1 /\ n + 1 \in 1 .. n + 1 /\ n + 1 > n
      BY <1>1
    <3>2. from[n + 1] = {Len(str) + 1}
      BY <2>1, <3>1
    <3> QED
      BY <3>1, <3>2, MatchFromEnd
  <2>3. ASSUME NEW d \in Nat, d \in agree
        PROVE  d + 1 \in agree
    <3> SUFFICES ASSUME d + 1 <= n
                 PROVE  from[n + 1 - (d + 1)] = MatchFrom(str, wild, n + 1 - (d + 1))
      OBVIOUS
    <3> DEFINE j == n + 1 - (d + 1)
    <3>1. j \in 1 .. n + 1 /\ j + 1 = n + 1 - d /\ d <= n
      BY <1>1
    <3>2. from[j + 1] = MatchFrom(str, wild, j + 1)
      BY <2>3, <3>1
    <3> HIDE DEF j, at
    <3>3. from[j] = MatchFrom(str, wild, j)
      BY <1>2, <2>1, <3>1, <3>2
    <3> QED
      BY <3>3 DEF j
  <2>4. n \in agree
    <3> HIDE DEF agree
    <3> QED
      BY <1>1, <2>2, <2>3, Induction
  <2>5. n + 1 - n = 1 /\ n <= n
    BY <1>1
  <2> QED
    BY <2>4, <2>5
<1>5. c_strmatch(str, wild) <=> 1 \in (CHOOSE from : IsFrom(from))[1]
  BY DEF c_strmatch
<1>6. c_strmatch(str, wild) <=> 1 \in MatchFrom(str, wild, 1)
  <2> HIDE DEF IsFrom
  <2>1. IsFrom(CHOOSE from : IsFrom(from))
    BY <1>3
  <2> QED
    BY <1>4, <1>5, <2>1
<1> QED
  BY <1>6, MatchesFromStart

-----------------------------------------------------------------------------
(* The elements of a sequence at some places.                              *)

\* What is kept of the first elements of a sequence, for each number of them.
KeptSoFar(f, s, places, m) ==
  f = [n \in 0 .. m |-> IF n = 0 THEN <<>>
                        ELSE IF n \in places THEN Append(f[n - 1], s[n])
                        ELSE f[n - 1]]

LEMMA KeptSoFarExists ==
  ASSUME NEW s, NEW places, NEW m \in Nat
  PROVE  \E f : KeptSoFar(f, s, places, m)
<1> DEFINE N == {n \in Nat : \E f : KeptSoFar(f, s, places, n)}
<1>1. 0 \in N
  <2>1. 0 .. 0 = {0}
    OBVIOUS
  <2>2. KeptSoFar([n \in 0 .. 0 |-> <<>>], s, places, 0)
    BY <2>1 DEF KeptSoFar
  <2> QED
    BY <2>2
<1>2. ASSUME NEW n \in Nat, n \in N
      PROVE  n + 1 \in N
  <2>1. PICK f : KeptSoFar(f, s, places, n)
    BY <1>2
  <2> DEFINE last == IF n + 1 \in places THEN Append(f[n], s[n + 1]) ELSE f[n]
             g == [k \in 0 .. n + 1 |-> IF k = n + 1 THEN last ELSE f[k]]
  <2>2. ASSUME NEW k \in 0 .. n + 1
        PROVE  g[k] = IF k = 0 THEN <<>>
                      ELSE IF k \in places THEN Append(g[k - 1], s[k])
                      ELSE g[k - 1]
    <3>1. CASE k = n + 1
      <4>1. k # 0 /\ k - 1 = n /\ n \in 0 .. n + 1 /\ n # n + 1
        BY <3>1
      <4>2. g[k] = last /\ g[k - 1] = f[n]
        BY <3>1, <4>1
      <4> HIDE DEF g
      <4> QED
        BY <3>1, <4>1, <4>2
    <3>2. CASE k # n + 1
      <4>1. k \in 0 .. n /\ (k # 0 => k - 1 \in 0 .. n + 1 /\ k - 1 # n + 1)
        BY <3>2
      <4>2. g[k] = f[k] /\ (k # 0 => g[k - 1] = f[k - 1])
        BY <3>2, <4>1
      <4> HIDE DEF g
      <4> QED
        BY <2>1, <4>1, <4>2 DEF KeptSoFar
    <3> QED
      BY <3>1, <3>2
  <2>3. g = [k \in 0 .. n + 1 |-> g[k]]
    OBVIOUS
  <2>4. KeptSoFar(g, s, places, n + 1)
    <3> HIDE DEF g
    <3> QED
      BY <2>2, <2>3 DEF KeptSoFar
  <2> QED
    BY <2>4
<1>3. m \in N
  <2> HIDE DEF N
  <2> QED
    BY <1>1, <1>2, Induction
<1> QED
  BY <1>3

LEMMA KeptIs ==
  ASSUME NEW S, NEW s \in Seq(S), NEW places
  PROVE  \E f : KeptSoFar(f, s, places, Len(s)) /\ Kept(s, places) = f[Len(s)]
<1>1. Len(s) \in Nat
  BY LenProperties
<1>2. \E f : KeptSoFar(f, s, places, Len(s))
  BY <1>1, KeptSoFarExists
<1> DEFINE kept == CHOOSE f : KeptSoFar(f, s, places, Len(s))
<1>3. KeptSoFar(kept, s, places, Len(s))
  BY <1>2
<1>4. Kept(s, places) = kept[Len(s)]
  BY DEF Kept, KeptSoFar
<1> HIDE DEF kept
<1> QED
  BY <1>3, <1>4

\* What is kept of the first elements depends on nothing else.
LEMMA KeptAgrees ==
  ASSUME NEW f, NEW s, NEW p, NEW a \in Nat, KeptSoFar(f, s, p, a),
         NEW g, NEW t, NEW q, NEW b \in Nat, KeptSoFar(g, t, q, b),
         NEW m \in Nat, m <= a, m <= b,
         \A i \in 1 .. m : (i \in p <=> i \in q) /\ (i \in p => s[i] = t[i])
  PROVE  f[m] = g[m]
<1> DEFINE N == {n \in Nat : n <= m => f[n] = g[n]}
<1>1. 0 \in N
  BY DEF KeptSoFar
<1>2. ASSUME NEW n \in Nat, n \in N
      PROVE  n + 1 \in N
  <2> SUFFICES ASSUME n + 1 <= m PROVE f[n + 1] = g[n + 1]
    OBVIOUS
  <2>1. f[n] = g[n]
    BY <1>2
  <2>2. /\ n + 1 \in 0 .. a /\ n + 1 \in 0 .. b /\ n + 1 # 0 /\ (n + 1) - 1 = n
        /\ n + 1 \in 1 .. m
    OBVIOUS
  <2>3. /\ f[n + 1] = IF n + 1 \in p THEN Append(f[n], s[n + 1]) ELSE f[n]
        /\ g[n + 1] = IF n + 1 \in q THEN Append(g[n], t[n + 1]) ELSE g[n]
    BY <2>2 DEF KeptSoFar
  <2> QED
    BY <2>1, <2>2, <2>3
<1>3. m \in N
  <2> HIDE DEF N
  <2> QED
    BY <1>1, <1>2, Induction
<1> QED
  BY <1>3

LEMMA KeptOfNone ==
  ASSUME NEW places
  PROVE  Kept(<<>>, places) = <<>>
<1>1. PICK f : KeptSoFar(f, <<>>, places, Len(<<>>)) /\ Kept(<<>>, places) = f[Len(<<>>)]
  BY EmptySeq, KeptIs
<1> QED
  BY <1>1, EmptySeq DEF KeptSoFar

\* An element more.
LEMMA KeptAppend ==
  ASSUME NEW S, NEW s \in Seq(S), NEW x \in S, NEW p, NEW q,
         \A i \in 1 .. Len(s) : i \in p <=> i \in q
  PROVE  Kept(Append(s, x), q) =
           IF Len(s) + 1 \in q THEN Append(Kept(s, p), x) ELSE Kept(s, p)
<1> DEFINE t == Append(s, x)
<1>1. /\ t \in Seq(S) /\ Len(s) \in Nat /\ Len(t) = Len(s) + 1
      /\ \A i \in 1 .. Len(s) : t[i] = s[i]
      /\ t[Len(s) + 1] = x
  BY AppendProperties, LenProperties
<1>2. PICK f : KeptSoFar(f, s, p, Len(s)) /\ Kept(s, p) = f[Len(s)]
  BY KeptIs
<1> HIDE DEF t
<1>3. PICK g : KeptSoFar(g, t, q, Len(t)) /\ Kept(t, q) = g[Len(t)]
  BY <1>1, KeptIs
<1>4. f[Len(s)] = g[Len(s)]
  <2>1. /\ Len(s) \in Nat /\ Len(t) \in Nat /\ Len(s) <= Len(s) /\ Len(s) <= Len(t)
        /\ \A i \in 1 .. Len(s) : (i \in p <=> i \in q) /\ (i \in p => s[i] = t[i])
    BY <1>1
  <2> QED
    BY <1>2, <1>3, <2>1, KeptAgrees
<1>5. g[Len(s) + 1] = IF Len(s) + 1 \in q THEN Append(g[Len(s)], t[Len(s) + 1]) ELSE g[Len(s)]
  <2>1. Len(s) + 1 \in 0 .. Len(t) /\ Len(s) + 1 # 0 /\ (Len(s) + 1) - 1 = Len(s)
    BY <1>1
  <2> QED
    BY <1>3, <2>1 DEF KeptSoFar
<1> QED
  BY <1>1, <1>2, <1>3, <1>4, <1>5 DEF t

\* What is kept is a sequence over the same set, and not longer.
LEMMA KeptType ==
  ASSUME NEW S, NEW s \in Seq(S), NEW places
  PROVE  Kept(s, places) \in Seq(S) /\ Len(Kept(s, places)) <= Len(s)
<1>1. Len(s) \in Nat
  BY LenProperties
<1>2. PICK f : KeptSoFar(f, s, places, Len(s)) /\ Kept(s, places) = f[Len(s)]
  BY KeptIs
<1> DEFINE N == {n \in Nat : n <= Len(s) => f[n] \in Seq(S) /\ Len(f[n]) <= n}
<1>3. 0 \in N
  BY <1>1, <1>2, EmptySeq DEF KeptSoFar
<1>4. ASSUME NEW n \in Nat, n \in N
      PROVE  n + 1 \in N
  <2> SUFFICES ASSUME n + 1 <= Len(s) PROVE f[n + 1] \in Seq(S) /\ Len(f[n + 1]) <= n + 1
    OBVIOUS
  <2>1. f[n] \in Seq(S) /\ Len(f[n]) <= n /\ Len(f[n]) \in Nat
    BY <1>1, <1>4, LenProperties
  <2>2. n + 1 \in 0 .. Len(s) /\ n + 1 # 0 /\ (n + 1) - 1 = n /\ s[n + 1] \in S
    BY <1>1, ElementOfSeq
  <2>3. f[n + 1] = IF n + 1 \in places THEN Append(f[n], s[n + 1]) ELSE f[n]
    BY <1>2, <2>2 DEF KeptSoFar
  <2>4. CASE n + 1 \in places
    <3>1. f[n + 1] \in Seq(S) /\ Len(f[n + 1]) = Len(f[n]) + 1
      BY <2>1, <2>2, <2>3, <2>4, AppendProperties
    <3> QED
      BY <2>1, <3>1
  <2>5. CASE n + 1 \notin places
    BY <2>1, <2>3, <2>5
  <2> QED
    BY <2>4, <2>5
<1>5. Len(s) \in N
  <2> HIDE DEF N
  <2> QED
    BY <1>1, <1>3, <1>4, Induction
<1> QED
  BY <1>1, <1>2, <1>5

\* Nothing is kept of what is behind the last of the places.
LEMMA KeptConcat ==
  ASSUME NEW S, NEW s \in Seq(S), NEW t \in Seq(S), NEW p, NEW q,
         \A i \in 1 .. Len(s) : i \in p <=> i \in q,
         \A i \in 1 .. Len(t) : Len(s) + i \notin q
  PROVE  Kept(s \o t, q) = Kept(s, p)
<1> DEFINE u == s \o t
<1>1. /\ u \in Seq(S) /\ Len(s) \in Nat /\ Len(t) \in Nat /\ Len(u) = Len(s) + Len(t)
      /\ \A i \in 1 .. Len(s) : u[i] = s[i]
  BY ConcatProperties, LenProperties
<1>2. PICK f : KeptSoFar(f, s, p, Len(s)) /\ Kept(s, p) = f[Len(s)]
  BY KeptIs
<1> HIDE DEF u
<1>3. PICK g : KeptSoFar(g, u, q, Len(u)) /\ Kept(u, q) = g[Len(u)]
  BY <1>1, KeptIs
<1>4. f[Len(s)] = g[Len(s)]
  <2>1. /\ Len(s) \in Nat /\ Len(u) \in Nat /\ Len(s) <= Len(s) /\ Len(s) <= Len(u)
        /\ \A i \in 1 .. Len(s) : (i \in p <=> i \in q) /\ (i \in p => s[i] = u[i])
    BY <1>1
  <2> QED
    BY <1>2, <1>3, <2>1, KeptAgrees
<1> DEFINE N == {n \in Nat : n <= Len(t) => g[Len(s) + n] = g[Len(s)]}
<1>5. 0 \in N
  BY <1>1
<1>6. ASSUME NEW n \in Nat, n \in N
      PROVE  n + 1 \in N
  <2> SUFFICES ASSUME n + 1 <= Len(t) PROVE g[Len(s) + (n + 1)] = g[Len(s)]
    OBVIOUS
  <2> DEFINE i == Len(s) + (n + 1)
  <2>1. i \in 0 .. Len(u) /\ i # 0 /\ i - 1 = Len(s) + n /\ i \notin q
    BY <1>1
  <2>2. g[Len(s) + n] = g[Len(s)]
    BY <1>1, <1>6
  <2> HIDE DEF i
  <2>3. g[i] = g[i - 1]
    BY <1>3, <2>1 DEF KeptSoFar
  <2> QED
    BY <2>1, <2>2, <2>3 DEF i
<1>7. Len(t) \in N
  <2> HIDE DEF N
  <2> QED
    BY <1>1, <1>5, <1>6, Induction
<1> QED
  BY <1>1, <1>2, <1>3, <1>4, <1>7 DEF u

-----------------------------------------------------------------------------
(* The formats of a group.                                                 *)

\* What a group runs with, whether or not the environment was looked at before, and that
\* it is not looked at again once the program has set other formats.
FormatsInv ==
  /\ late => env_checked /\ global_msg_output = chosen
  /\ ~late /\ ~env_checked => global_msg_output = chosen
  /\ ~late /\ env_checked =>
       global_msg_output = IF environment.output = {} THEN chosen ELSE environment.output
  /\ env_checked => environment.output # Illegal
  /\ phase \notin {"off", "idle"} => env_checked \/ environment.output = Illegal

LEMMA FormatsInit == Init => FormatsInv
BY DEF Init, FormatsInv

\* Only programs and the beginning of a group touch what the formats are taken from.
LEMMA FormatsStay ==
  ASSUME FormatsInv,
         UNCHANGED <<environment, chosen, late, global_msg_output, env_checked>>,
         phase' \notin {"off", "idle"} => phase \notin {"off", "idle"}
  PROVE  FormatsInv'
BY DEF FormatsInv

LEMMA FormatsStep == FormatsInv /\ [Next]_vars => FormatsInv'
<1> SUFFICES ASSUME FormatsInv, [Next]_vars
             PROVE  FormatsInv'
  OBVIOUS
<1>1. ASSUME NEW e \in Environments, StartProgram(e) PROVE FormatsInv'
  BY <1>1 DEF StartProgram, FormatsInv
<1>2. CASE EndProgram
  BY <1>2, FormatsStay DEF EndProgram, statics
<1>3. ASSUME NEW name \in DOMAIN files, RemoveFile(name) PROVE FormatsInv'
  BY <1>3, FormatsStay DEF RemoveFile, statics
<1>4. ASSUME NEW p \in Filters, cmocka_set_test_filter(p) \/ cmocka_set_skip_filter(p)
      PROVE  FormatsInv'
  BY <1>4, FormatsStay DEF cmocka_set_test_filter, cmocka_set_skip_filter, statics
<1>5. ASSUME NEW output \in Outputs, cmocka_set_message_output(output) PROVE FormatsInv'
  BY <1>5 DEF cmocka_set_message_output, statics, FormatsInv
<1>6. ASSUME NEW g \in Groups, BeginGroup(g) PROVE FormatsInv'
  BY <1>6 DEF BeginGroup, InGroup, cm_get_output, Output, Illegal, FormatsInv
<1>7. CASE GroupStep
  BY <1>7, FormatsStay
  DEF GroupStep, GroupSetup, RunTest, FinishGroup, NameFile, WriteReport, Return, InGroup, statics
<1>8. CASE UNCHANGED vars
  BY <1>8, FormatsStay DEF vars, statics
<1> QED
  BY <1>1, <1>2, <1>3, <1>4, <1>5, <1>6, <1>7, <1>8 DEF Next

\* Every group is reported in the formats that the environment names, or else in those
\* that the program has set last; once the environment was looked at, in those that the
\* program sets after that, if it sets any (cmocka_set_message_output, cm_get_output).
THEOREM FormatsFollowHolds == Spec => []FormatsFollow
<1>1. FormatsInv => FormatsFollow
  BY DEF FormatsInv, FormatsFollow, Illegal
<1> QED
  BY <1>1, FormatsInit, FormatsStep, PTL DEF Spec
-----------------------------------------------------------------------------
(* Headers.                                                                *)

Entries == [type : {"HEADER"}, process : Nat] \cup [type : {"SUITE"}, process : Nat, group : Nat]

Texts == Range(files) \cup Range(streams)

OfThis(t, p) == \E x \in Range(t) : x.process = p

\* A text that the present program has begun without a header.
Headless(t, p) == t # <<>> /\ t[1].process = p /\ t[1].type # "HEADER"

\* What a text is: files have something in them, nothing is of a program to come, and only
\* the first entry can be a header.
IsText(t, p) ==
  /\ t \in Seq(Entries)
  /\ \A x \in Range(t) : x.process <= p
  /\ \A i \in 2 .. Len(t) : t[i].type # "HEADER"

\* While no header counts as printed, the program has only created files, and with
\* headers; afterwards there is another text with something of the program for every one
\* that it has begun without a header.
HeadersInv ==
  /\ process \in Nat /\ groups \in Nat
  /\ DOMAIN streams = {"stdout", "stderr"}
  /\ \A t \in Texts : IsText(t, process)
  /\ \A t \in Range(files) : t # <<>>
  /\ ~xml_printed => \A t \in Range(streams) : t = <<>>
  /\ ~xml_printed => \A t \in Texts : ~Headless(t, process)
  /\ xml_printed /\ phase # "off" => \E t \in Texts : OfThis(t, process) /\ ~Headless(t, process)

LEMMA HeadersInit ==
  ASSUME Init, 0 \in Nat
  PROVE  HeadersInv
<1>1. Texts = {<<>>} /\ Range(files) = {} /\ Range(streams) = {<<>>}
  BY DEF Init, NoTexts, Texts, Range
<1>2. IsText(<<>>, 0)
  BY EmptySeq DEF IsText, Range
<1> QED
  BY <1>1, <1>2 DEF Init, NoTexts, HeadersInv, Headless

\* Texts and statics are only touched by programs and reports.
LEMMA HeadersStay ==
  ASSUME HeadersInv, UNCHANGED <<process, xml_printed, streams, files>>, groups' \in Nat,
         phase' # "off" => phase # "off"
  PROVE  HeadersInv'
BY DEF HeadersInv, Texts

\* The texts after some entries were added to one of them, or a new file was created.
LEMMA TextGrows ==
  ASSUME HeadersInv, UNCHANGED process, phase # "off",
         NEW old, IsText(old, process), NEW header \in BOOLEAN,
         NEW new, new = old \o (IF header THEN <<Header, Suite>> ELSE <<Suite>>),
         header <=> old = <<>> /\ ~xml_printed,
         xml_printed \/ old \in Texts \/ old = <<>>,
         Texts' \subseteq Texts \cup {new}, new \in Texts',
         \A t \in Texts : t = old \/ t \in Texts'
  PROVE  /\ \A t \in Texts' : IsText(t, process)
         /\ new # <<>> /\ OfThis(new, process)
         /\ ~xml_printed => \A t \in Texts' : ~Headless(t, process)
         /\ xml_printed \/ old # <<>> \/ header =>
              \E t \in Texts' : OfThis(t, process) /\ ~Headless(t, process)
<1> DEFINE more == IF header THEN <<Header, Suite>> ELSE <<Suite>>
<1>1. /\ Header \in Entries /\ Suite \in Entries
      /\ Header.type = "HEADER" /\ Suite.type = "SUITE"
      /\ Header.process = process /\ Suite.process = process
  BY DEF Header, Suite, Entries, HeadersInv
<1>2. /\ more \in Seq(Entries) /\ Len(more) \in {1, 2}
      /\ Len(more) = 2 <=> header
      /\ \A i \in 1 .. Len(more) : more[i].process = process
      /\ \A i \in 2 .. Len(more) : more[i].type # "HEADER"
      /\ more[1].type = "HEADER" <=> header
  BY <1>1
<1> HIDE DEF more
<1>3. /\ old \in Seq(Entries) /\ Len(old) \in Nat
      /\ \A i \in 1 .. Len(old) : old[i].process <= process
      /\ \A i \in 2 .. Len(old) : old[i].type # "HEADER"
      /\ old = <<>> <=> Len(old) = 0
  BY LenProperties, EmptySeq DEF IsText, Range
<1>4. new = old \o more
  BY DEF more
<1>5. /\ new \in Seq(Entries) /\ Len(new) = Len(old) + Len(more)
      /\ \A i \in 1 .. Len(old) : new[i] = old[i]
      /\ \A i \in 1 .. Len(more) : new[Len(old) + i] = more[i]
      /\ DOMAIN new = 1 .. Len(new)
  <2>1. /\ old \in Seq(Entries) /\ more \in Seq(Entries)
        /\ Len(old) \in Nat /\ Len(more) \in {1, 2}
    BY <1>2, <1>3
  <2>2. old \o more \in Seq(Entries) /\ Len(old \o more) = Len(old) + Len(more)
    BY <2>1, ConcatProperties
  <2>3. \A i \in 1 .. Len(old) + Len(more) :
          (old \o more)[i] = IF i <= Len(old) THEN old[i] ELSE more[i - Len(old)]
    BY <2>1, ConcatProperties
  <2>4. \A i \in 1 .. Len(old) : (old \o more)[i] = old[i]
    BY <2>1, <2>3
  <2>5. ASSUME NEW i \in 1 .. Len(more) PROVE (old \o more)[Len(old) + i] = more[i]
    <3>1. /\ Len(old) + i \in 1 .. Len(old) + Len(more)
          /\ ~(Len(old) + i <= Len(old)) /\ (Len(old) + i) - Len(old) = i
      BY <2>1
    <3> QED
      BY <2>3, <3>1
  <2> QED
    BY <1>4, <2>2, <2>4, <2>5, LenProperties
<1>6. \A i \in 1 .. Len(new) : \/ i \in 1 .. Len(old)
                               \/ \E j \in 1 .. Len(more) : i = Len(old) + j
  <2> SUFFICES ASSUME NEW i \in 1 .. Len(new), i \notin 1 .. Len(old)
               PROVE  \E j \in 1 .. Len(more) : i = Len(old) + j
    OBVIOUS
  <2>1. Len(more) \in Nat /\ Len(old) \in Nat /\ Len(new) = Len(old) + Len(more)
    BY <1>2, <1>3, <1>5
  <2>2. i - Len(old) \in 1 .. Len(more) /\ i = Len(old) + (i - Len(old))
    BY <2>1
  <2> QED
    BY <2>2
<1>7. IsText(new, process)
  <2>1. \A i \in 1 .. Len(new) : new[i].process <= process
    <3> SUFFICES ASSUME NEW i \in 1 .. Len(new) PROVE new[i].process <= process
      OBVIOUS
    <3>1. CASE i \in 1 .. Len(old)
      BY <1>3, <1>5, <3>1
    <3>2. ASSUME NEW j \in 1 .. Len(more), i = Len(old) + j PROVE new[i].process <= process
      <4>1. new[i] = more[j] /\ more[j].process = process
        BY <1>2, <1>5, <3>2
      <4>2. process \in Nat
        BY DEF HeadersInv
      <4> QED
        BY <4>1, <4>2
    <3> QED
      BY <1>6, <3>1, <3>2
  <2>2. \A i \in 2 .. Len(new) : new[i].type # "HEADER"
    <3> SUFFICES ASSUME NEW i \in 2 .. Len(new) PROVE new[i].type # "HEADER"
      OBVIOUS
    <3>1. CASE i \in 1 .. Len(old)
      BY <1>3, <1>5, <3>1
    <3>2. CASE \E j \in 1 .. Len(more) : i = Len(old) + j
      <4>1. PICK j \in 1 .. Len(more) : i = Len(old) + j
        BY <3>2
      <4>2. CASE j = 1
        <5>1. ~header
          BY <1>3, <4>1, <4>2
        <5> QED
          BY <1>2, <1>5, <4>1, <4>2, <5>1
      <4>3. CASE j # 1
        <5>1. j \in 2 .. Len(more)
          BY <1>2, <4>1, <4>3
        <5>2. new[i] = more[j]
          BY <1>5, <4>1
        <5> QED
          BY <1>2, <5>1, <5>2
      <4> QED
        BY <4>2, <4>3
    <3>3. i \in 1 .. Len(new)
      BY <1>2, <1>3, <1>5
    <3> QED
      BY <1>6, <3>1, <3>2, <3>3
  <2> QED
    BY <1>5, <2>1, <2>2 DEF IsText, Range
<1>8. new # <<>> /\ OfThis(new, process)
  <2>1. Len(new) \in 1 .. Len(new) /\ new[Len(new)].process = process
    <3>3. Len(old) \in Nat /\ Len(more) \in Nat \ {0} /\ Len(new) = Len(old) + Len(more)
      BY <1>2, <1>3, <1>5
    <3>1. Len(new) \in 1 .. Len(new) /\ Len(more) \in 1 .. Len(more)
      BY <3>3
    <3>2. new[Len(new)] = more[Len(more)]
      BY <1>5, <3>1
    <3> QED
      BY <1>2, <3>1, <3>2
  <2>2. new # <<>>
    BY <1>5, <2>1, EmptySeq
  <2>3. new[Len(new)] \in Range(new)
    BY <1>5, <2>1 DEF Range
  <2> QED
    BY <2>1, <2>2, <2>3 DEF OfThis
<1>9. \/ old # <<>> /\ new[1] = old[1]
      \/ old = <<>> /\ new[1] = more[1]
  <2>1. CASE old # <<>>
    <3>1. 1 \in 1 .. Len(old)
      BY <1>3, <2>1, EmptySeq
    <3> QED
      BY <1>5, <2>1, <3>1
  <2>2. CASE old = <<>>
    <3>1. Len(old) = 0 /\ 1 \in 1 .. Len(more)
      BY <1>2, <2>2
    <3>2. new[Len(old) + 1] = more[1]
      BY <1>5, <3>1
    <3> QED
      BY <2>2, <3>1, <3>2
  <2> QED
    BY <2>1, <2>2
<1>10. ~xml_printed => ~Headless(new, process)
  <2>1. CASE old # <<>> /\ ~xml_printed
    BY <1>9, <2>1 DEF HeadersInv, Headless
  <2>2. CASE old = <<>> /\ ~xml_printed
    BY <1>2, <1>9, <2>2 DEF Headless
  <2> QED
    BY <2>1, <2>2
<1>11. ASSUME xml_printed
       PROVE  \E t \in Texts' : OfThis(t, process) /\ ~Headless(t, process)
  <2>1. PICK t \in Texts : OfThis(t, process) /\ ~Headless(t, process)
    BY <1>11 DEF HeadersInv
  <2>2. CASE t = old
    <3>1. old # <<>>
      BY <2>1, <2>2 DEF OfThis, Range
    <3>2. ~Headless(new, process)
      BY <1>9, <2>1, <2>2, <3>1 DEF Headless
    <3> QED
      BY <1>8, <3>2
  <2> QED
    BY <2>1, <2>2
<1>12. ~xml_printed => \A t \in Texts' : ~Headless(t, process)
  BY <1>10 DEF HeadersInv
<1>13. ASSUME ~xml_printed, old # <<>> \/ header
       PROVE  \E t \in Texts' : OfThis(t, process) /\ ~Headless(t, process)
  BY <1>8, <1>10, <1>13
<1> QED
  BY <1>7, <1>8, <1>11, <1>12, <1>13 DEF HeadersInv

LEMMA WriteKeepsHeaders ==
  ASSUME HeadersInv, NEW canWrite \in BOOLEAN, WriteReport(canWrite)
  PROVE  HeadersInv'
<1> DEFINE existed == buf \in DOMAIN files
           opened  == environment.file # Unset /\ canWrite /\ (existed => file_append)
           header  == ~(xml_printed \/ (opened /\ existed))
           more    == IF header THEN <<Header, Suite>> ELSE <<Suite>>
           stream  == IF environment.file = Unset THEN "stdout" ELSE "stderr"
<1>1. /\ phase = "writing" /\ phase' = "over"
      /\ process' = process /\ groups' = groups
      /\ xml_printed' = (xml_printed \/ (opened /\ existed) \/ (header /\ ~opened))
  BY DEF WriteReport, Printed, InGroup
<1>2. IsText(<<>>, process) /\ \A t \in Texts : IsText(t, process)
  BY EmptySeq DEF IsText, Range, HeadersInv
<1>3. CASE opened /\ existed
  <2> DEFINE old == files[buf]
             new == old \o <<Suite>>
  <2>1. /\ files' = [files EXCEPT ![buf] = new]
        /\ streams' = streams /\ ~header /\ more = <<Suite>>
    BY <1>3 DEF WriteReport
  <2>2. old \in Range(files) /\ old # <<>> /\ IsText(old, process)
    BY <1>2, <1>3 DEF HeadersInv, Range, Texts
  <2> HIDE DEF new
  <2>3. /\ Range(files') \subseteq Range(files) \cup {new}
        /\ new \in Range(files')
        /\ \A t \in Range(files) : t = old \/ t \in Range(files')
    BY <1>3, <2>1 DEF Range
  <2>4. /\ Texts' \subseteq Texts \cup {new} /\ new \in Texts'
        /\ \A t \in Texts : t = old \/ t \in Texts'
    BY <2>1, <2>3 DEF Texts
  <2>5. /\ \A t \in Texts' : IsText(t, process)
        /\ new # <<>>
        /\ \E t \in Texts' : OfThis(t, process) /\ ~Headless(t, process)
    <3>1. new = old \o (IF header THEN <<Header, Suite>> ELSE <<Suite>>)
      BY <2>1 DEF new
    <3>2. header <=> old = <<>> /\ ~xml_printed
      BY <2>1, <2>2
    <3>3. old \in Texts
      BY <2>2 DEF Texts
    <3> HIDE DEF header, old
    <3> QED
      BY <1>1, <2>2, <2>4, <3>1, <3>2, <3>3, TextGrows
  <2> QED
    BY <1>1, <1>3, <2>1, <2>2, <2>3, <2>5 DEF HeadersInv
<1>4. CASE opened /\ ~existed
  <2>1. /\ files' = [name \in DOMAIN files \cup {buf} |-> IF name # buf THEN files[name] ELSE more]
        /\ streams' = streams /\ header = ~xml_printed
    BY <1>4 DEF WriteReport
  <2> HIDE DEF more
  <2>2. Range(files') = Range(files) \cup {more}
    BY <1>4, <2>1 DEF Range
  <2>3. Texts' = Texts \cup {more}
    BY <2>1, <2>2 DEF Texts
  <2>4. /\ \A t \in Texts' : IsText(t, process)
        /\ more # <<>>
        /\ ~xml_printed => \A t \in Texts' : ~Headless(t, process)
        /\ xml_printed => \E t \in Texts' : OfThis(t, process) /\ ~Headless(t, process)
    <3>1. more = <<>> \o (IF header THEN <<Header, Suite>> ELSE <<Suite>>)
      BY DEF more
    <3> HIDE DEF header
    <3> QED
      BY <1>1, <1>2, <2>1, <2>3, <3>1, TextGrows
  <2> QED
    BY <1>1, <1>4, <2>1, <2>2, <2>4 DEF HeadersInv
<1>5. CASE ~opened
  <2> DEFINE old == streams[stream]
             new == old \o more
  <2>1. /\ files' = files /\ streams' = [streams EXCEPT ![stream] = new]
        /\ header = ~xml_printed /\ xml_printed' = TRUE
        /\ stream \in DOMAIN streams
    BY <1>1, <1>5 DEF WriteReport, HeadersInv
  <2>2. /\ old \in Range(streams) /\ old \in Texts /\ IsText(old, process)
        /\ ~xml_printed => old = <<>>
    BY <1>2, <2>1 DEF HeadersInv, Range, Texts
  <2> HIDE DEF new, stream
  <2>3. /\ Range(streams') \subseteq Range(streams) \cup {new}
        /\ new \in Range(streams')
        /\ \A t \in Range(streams) : t = old \/ t \in Range(streams')
        /\ DOMAIN streams' = DOMAIN streams
    BY <2>1 DEF Range
  <2>4. /\ Texts' \subseteq Texts \cup {new} /\ new \in Texts'
        /\ \A t \in Texts : t = old \/ t \in Texts'
    BY <2>1, <2>3 DEF Texts
  <2>5. /\ \A t \in Texts' : IsText(t, process)
        /\ \E t \in Texts' : OfThis(t, process) /\ ~Headless(t, process)
    <3>1. new = old \o (IF header THEN <<Header, Suite>> ELSE <<Suite>>)
      BY DEF new, more
    <3>2. header <=> old = <<>> /\ ~xml_printed
      BY <2>1, <2>2
    <3> HIDE DEF header
    <3> QED
      BY <1>1, <2>1, <2>2, <2>4, <3>1, <3>2, TextGrows
  <2> QED
    BY <1>1, <2>1, <2>3, <2>5 DEF HeadersInv
<1> QED
  BY <1>3, <1>4, <1>5

\* The texts that are there are all of earlier programs.
LEMMA StartKeepsHeaders ==
  ASSUME HeadersInv, NEW e \in Environments, StartProgram(e)
  PROVE  HeadersInv'
<1>1. /\ process' = process + 1 /\ groups' = groups /\ files' = files
      /\ streams' = NoTexts /\ xml_printed' = FALSE
  BY DEF StartProgram
<1>2. Range(streams') = {<<>>} /\ DOMAIN streams' = {"stdout", "stderr"}
  BY <1>1 DEF NoTexts, Range
<1>3. process \in Nat /\ process + 1 \in Nat
  BY DEF HeadersInv
<1>4. ASSUME NEW t \in Range(files)
      PROVE  IsText(t, process + 1) /\ ~Headless(t, process + 1)
  <2>1. IsText(t, process)
    BY DEF HeadersInv, Texts
  <2>2. \A x \in Range(t) : x.process \in Nat
    BY <2>1, ElementOfSeq, LenProperties DEF IsText, Range, Entries
  <2>3. IsText(t, process + 1)
    BY <1>3, <2>1, <2>2 DEF IsText
  <2>4. ASSUME t # <<>> PROVE t[1].process # process + 1
    <3>1. 1 \in DOMAIN t
      BY <2>1, <2>4, EmptySeq, LenProperties DEF IsText
    <3>2. t[1].process <= process /\ t[1].process \in Nat
      BY <2>1, <2>2, <3>1 DEF IsText, Range
    <3> QED
      BY <1>3, <3>2
  <2> QED
    BY <2>3, <2>4 DEF Headless
<1>5. IsText(<<>>, process + 1) /\ ~Headless(<<>>, process + 1)
  BY EmptySeq DEF IsText, Range, Headless
<1> QED
  BY <1>1, <1>2, <1>3, <1>4, <1>5 DEF HeadersInv, Texts

LEMMA HeadersStep == HeadersInv /\ [Next]_vars => HeadersInv'
<1> SUFFICES ASSUME HeadersInv, [Next]_vars
             PROVE  HeadersInv'
  OBVIOUS
<1>0. groups \in Nat /\ groups + 1 \in Nat
  BY DEF HeadersInv
<1>1. ASSUME NEW e \in Environments, StartProgram(e) PROVE HeadersInv'
  BY <1>1, StartKeepsHeaders
<1>2. CASE EndProgram
  BY <1>0, <1>2, HeadersStay DEF EndProgram, statics
<1>3. ASSUME NEW name \in DOMAIN files, RemoveFile(name) PROVE HeadersInv'
  <2>1. /\ UNCHANGED <<process, groups, streams, xml_printed>> /\ phase' = "off"
        /\ Range(files') \subseteq Range(files)
    BY <1>3 DEF RemoveFile, statics, Range
  <2> QED
    BY <2>1 DEF HeadersInv, Texts
<1>4. ASSUME NEW p \in Filters, cmocka_set_test_filter(p) \/ cmocka_set_skip_filter(p)
      PROVE  HeadersInv'
  BY <1>0, <1>4, HeadersStay DEF cmocka_set_test_filter, cmocka_set_skip_filter, statics
<1>5. ASSUME NEW output \in Outputs, cmocka_set_message_output(output) PROVE HeadersInv'
  BY <1>0, <1>5, HeadersStay DEF cmocka_set_message_output, statics
<1>6. ASSUME NEW g \in Groups, BeginGroup(g) PROVE HeadersInv'
  BY <1>0, <1>6, HeadersStay DEF BeginGroup, InGroup
<1>7. ASSUME NEW canWrite \in BOOLEAN, WriteReport(canWrite) PROVE HeadersInv'
  BY <1>7, WriteKeepsHeaders
<1>8. CASE GroupSetup \/ (\E status \in Statuses : RunTest(status))
             \/ (\E torn \in BOOLEAN : FinishGroup(torn)) \/ NameFile \/ Return
  BY <1>0, <1>8, HeadersStay
  DEF GroupSetup, RunTest, FinishGroup, NameFile, Return, InGroup, statics
<1>9. CASE UNCHANGED vars
  BY <1>0, <1>9, HeadersStay DEF vars, statics
<1> QED
  BY <1>1, <1>2, <1>3, <1>4, <1>5, <1>6, <1>7, <1>8, <1>9 DEF Next, GroupStep

\* In all files and streams, of any number of programs and groups, a header is only at
\* the beginning, and when all reports of the program that runs have gone to one file it
\* is there (xml_printed, file_append).
THEOREM HeadersComeFirstHolds == Spec => []HeadersComeFirst
<1>1. Init => HeadersInv
  BY HeadersInit
<1>2. HeadersInv => HeadersComeFirst
  <2> SUFFICES ASSUME HeadersInv
               PROVE  HeadersComeFirst
    OBVIOUS
  <2>1. \A t \in Texts : \A i \in 2 .. Len(t) : t[i].type # "HEADER"
    BY DEF HeadersInv, IsText
  <2>2. ASSUME phase # "off", NEW t \in Texts, OfThis(t, process), t[1].process = process,
               \A u \in Texts : OfThis(u, process) => u = t, t[1].type # "HEADER"
        PROVE  FALSE
    <3>1. t # <<>>
      BY <2>2 DEF OfThis, Range
    <3>2. Headless(t, process)
      BY <2>2, <3>1 DEF Headless
    <3> QED
      BY <2>2, <3>2 DEF HeadersInv
  <2> QED
    BY <2>1, <2>2 DEF HeadersComeFirst, Texts, OfThis
<1> QED
  BY <1>1, <1>2, HeadersStep, PTL DEF Spec

-----------------------------------------------------------------------------
(* The tests of a group that are run.                                      *)

\* The places of what is kept, in their order.
Enumerates(place, k, s, places, n) ==
  /\ place \in [1 .. Len(k) -> 1 .. n]
  /\ \A i, j \in 1 .. Len(k) : i < j => place[i] < place[j]
  /\ \A i \in 1 .. Len(k) : k[i] = s[place[i]]
  /\ Range(place) = places \cap (1 .. n)

LEMMA KeptInOrder ==
  ASSUME NEW S, NEW s \in Seq(S), NEW places
  PROVE  \E place : Enumerates(place, Kept(s, places), s, places, Len(s))
<1>1. Len(s) \in Nat
  BY LenProperties
<1>2. PICK f : KeptSoFar(f, s, places, Len(s)) /\ Kept(s, places) = f[Len(s)]
  BY KeptIs
<1> DEFINE N == {n \in Nat : n <= Len(s) =>
                   f[n] \in Seq(S) /\ \E place : Enumerates(place, f[n], s, places, n)}
<1>3. 0 \in N
  <2>1. f[0] = <<>> /\ f[0] \in Seq(S) /\ Len(f[0]) = 0 /\ 1 .. 0 = {}
    BY <1>1, <1>2, EmptySeq DEF KeptSoFar
  <2>2. Enumerates([i \in 1 .. 0 |-> i], f[0], s, places, 0)
    BY <2>1 DEF Enumerates, Range
  <2> QED
    BY <2>1, <2>2
<1>4. ASSUME NEW n \in Nat, n \in N
      PROVE  n + 1 \in N
  <2> SUFFICES ASSUME n + 1 <= Len(s)
               PROVE  /\ f[n + 1] \in Seq(S)
                      /\ \E place : Enumerates(place, f[n + 1], s, places, n + 1)
    OBVIOUS
  <2>1. f[n] \in Seq(S) /\ Len(f[n]) \in Nat /\ \E place : Enumerates(place, f[n], s, places, n)
    BY <1>1, <1>4, LenProperties
  <2>2. n + 1 \in 0 .. Len(s) /\ n + 1 # 0 /\ (n + 1) - 1 = n /\ s[n + 1] \in S
    BY <1>1, ElementOfSeq
  <2>3. f[n + 1] = IF n + 1 \in places THEN Append(f[n], s[n + 1]) ELSE f[n]
    BY <1>2, <2>2 DEF KeptSoFar
  <2>4. PICK place : Enumerates(place, f[n], s, places, n)
    BY <2>1
  <2> DEFINE k == f[n]
             m == Len(k)
  <2>5. /\ place \in [1 .. m -> 1 .. n]
        /\ \A i, j \in 1 .. m : i < j => place[i] < place[j]
        /\ \A i \in 1 .. m : k[i] = s[place[i]]
        /\ Range(place) = places \cap (1 .. n)
    BY <2>4 DEF Enumerates
  <2>6. CASE n + 1 \notin places
    <3>1. f[n + 1] = k
      BY <2>3, <2>6
    <3>2. 1 .. n \subseteq 1 .. n + 1 /\ places \cap (1 .. n) = places \cap (1 .. n + 1)
      BY <2>6
    <3>3. Enumerates(place, f[n + 1], s, places, n + 1)
      BY <2>5, <3>1, <3>2 DEF Enumerates
    <3> QED
      BY <2>1, <3>1, <3>3
  <2>7. CASE n + 1 \in places
    <3> DEFINE l == f[n + 1]
               longer == [i \in 1 .. m + 1 |-> IF i = m + 1 THEN n + 1 ELSE place[i]]
    <3>1. /\ l \in Seq(S) /\ Len(l) = m + 1 /\ l[m + 1] = s[n + 1]
          /\ \A i \in 1 .. m : l[i] = k[i]
      BY <2>1, <2>2, <2>3, <2>7, AppendProperties
    <3>2. /\ \A i \in 1 .. m : i \in 1 .. m + 1 /\ i # m + 1 /\ longer[i] = place[i]
          /\ m + 1 \in 1 .. m + 1 /\ longer[m + 1] = n + 1
          /\ \A i \in 1 .. m + 1 : i \in 1 .. m \/ i = m + 1
          /\ DOMAIN longer = 1 .. m + 1
      BY <2>1
    <3>3. longer = [i \in 1 .. m + 1 |-> longer[i]]
      OBVIOUS
    <3> HIDE DEF longer, k, m, l
    <3>4. longer \in [1 .. m + 1 -> 1 .. n + 1]
      <4>1. \A i \in 1 .. m + 1 : longer[i] \in 1 .. n + 1
        BY <2>5, <3>2
      <4> QED
        BY <3>3, <4>1
    <3>5. \A i, j \in 1 .. m + 1 : i < j => longer[i] < longer[j]
      <4> SUFFICES ASSUME NEW i \in 1 .. m + 1, NEW j \in 1 .. m + 1, i < j
                   PROVE  longer[i] < longer[j]
        OBVIOUS
      <4>0. m \in Nat
        BY <2>1 DEF m, k
      <4>1. i \in 1 .. m
        BY <4>0
      <4>2. CASE j \in 1 .. m
        BY <2>5, <3>2, <4>1, <4>2
      <4>3. CASE j = m + 1
        BY <2>5, <3>2, <4>1, <4>3
      <4> QED
        BY <3>2, <4>2, <4>3
    <3>6. \A i \in 1 .. m + 1 : l[i] = s[longer[i]]
      BY <2>5, <3>1, <3>2
    <3>7. Range(longer) = places \cap (1 .. n + 1)
      <4>1. Range(longer) = Range(place) \cup {n + 1}
        <5>1. DOMAIN longer = (1 .. m) \cup {m + 1} /\ DOMAIN place = 1 .. m
          BY <2>5, <3>2
        <5>2. Range(longer) = {longer[i] : i \in 1 .. m} \cup {longer[m + 1]}
          BY <5>1 DEF Range
        <5>3. {longer[i] : i \in 1 .. m} = {place[i] : i \in 1 .. m}
          BY <3>2
        <5> QED
          BY <3>2, <5>1, <5>2, <5>3 DEF Range
      <4>2. 1 .. n + 1 = (1 .. n) \cup {n + 1}
        OBVIOUS
      <4> QED
        BY <2>5, <2>7, <4>1, <4>2
    <3>8. Enumerates(longer, l, s, places, n + 1)
      BY <3>1, <3>4, <3>5, <3>6, <3>7 DEF Enumerates
    <3> QED
      BY <3>1, <3>8 DEF l
  <2> QED
    BY <2>6, <2>7
<1>5. Len(s) \in N
  <2> HIDE DEF N
  <2> QED
    BY <1>1, <1>3, <1>4, Induction
<1> QED
  BY <1>1, <1>2, <1>5
-----------------------------------------------------------------------------
\* A group starts with the tests that the filters leave.
SelectedInv ==
  /\ test_filter \in Filters /\ skip_filter \in Filters
  /\ phase = "setup" =>
       \E g \in Groups :
         g.name = group.name /\ group.tests = Selected(g.tests, test_filter, skip_filter)

LEMMA SelectedStep == SelectedInv /\ [Next]_vars => SelectedInv'
<1> SUFFICES ASSUME SelectedInv, [Next]_vars
             PROVE  SelectedInv'
  OBVIOUS
<1>1. ASSUME NEW e \in Environments, StartProgram(e) PROVE SelectedInv'
  BY <1>1, ReportsAssumption DEF StartProgram, SelectedInv
<1>2. CASE EndProgram
  BY <1>2 DEF EndProgram, SelectedInv
<1>3. ASSUME NEW name \in DOMAIN files, RemoveFile(name) PROVE SelectedInv'
  BY <1>3 DEF RemoveFile, SelectedInv
<1>4. ASSUME NEW p \in Filters, cmocka_set_test_filter(p) \/ cmocka_set_skip_filter(p)
      PROVE  SelectedInv'
  BY <1>4 DEF cmocka_set_test_filter, cmocka_set_skip_filter, SelectedInv
<1>5. ASSUME NEW output \in Outputs, cmocka_set_message_output(output) PROVE SelectedInv'
  BY <1>5 DEF cmocka_set_message_output, SelectedInv
<1>6. ASSUME NEW g \in Groups, BeginGroup(g) PROVE SelectedInv'
  <2>1. /\ UNCHANGED <<test_filter, skip_filter>>
        /\ group' = [NoGroup EXCEPT !.name = g.name,
                                    !.tests = Selected(g.tests, test_filter, skip_filter)]
    BY <1>6 DEF BeginGroup, InGroup
  <2>2. /\ group'.name = g.name
        /\ group'.tests = Selected(g.tests, test_filter, skip_filter)
    BY <2>1 DEF NoGroup
  <2> QED
    BY <2>1, <2>2 DEF SelectedInv
<1>7. CASE GroupStep
  BY <1>7
  DEF GroupStep, GroupSetup, RunTest, FinishGroup, NameFile, WriteReport, Return, InGroup,
      SelectedInv
<1>8. CASE UNCHANGED vars
  BY <1>8 DEF vars, SelectedInv
<1> QED
  BY <1>1, <1>2, <1>3, <1>4, <1>5, <1>6, <1>7, <1>8 DEF Next

\* The tests of a group that are run, in their order, are those that match the one filter
\* and not the other, by what cmocka.h says of the wildcards (c_strmatch,
\* _cmocka_run_group_tests).
THEOREM TestsAreSelectedHolds == Spec => []TestsAreSelected
<1>1. Init => SelectedInv
  BY ReportsAssumption DEF Init, SelectedInv
<1>2. SelectedInv => TestsAreSelected
  <2> SUFFICES ASSUME SelectedInv, phase = "setup", Plain(test_filter), Plain(skip_filter)
               PROVE  TestsAreSelected
    BY DEF TestsAreSelected
  <2>1. PICK g \in Groups :
          g.name = group.name /\ group.tests = Selected(g.tests, test_filter, skip_filter)
    BY DEF SelectedInv
  <2>2. g.tests \in Seq(Seq(STRING)) /\ test_filter \in Seq(STRING) /\ skip_filter \in Seq(STRING)
    BY ReportsAssumption DEF SelectedInv
  <2> DEFINE tests == g.tests
             runs == {i \in DOMAIN tests :
                        /\ test_filter # NoFilter => c_strmatch(tests[i], test_filter)
                        /\ skip_filter # NoFilter => ~c_strmatch(tests[i], skip_filter)}
  <2>3. group.tests = Kept(tests, runs)
    BY <2>1 DEF Selected
  <2>4. DOMAIN tests = 1 .. Len(tests) /\ \A i \in DOMAIN tests : tests[i] \in Seq(STRING)
    BY <2>2, LenProperties, ElementOfSeq
  <2>5. runs = {k \in DOMAIN tests :
                  /\ test_filter = NoFilter \/ Matches(tests[k], test_filter)
                  /\ skip_filter = NoFilter \/ ~Matches(tests[k], skip_filter)}
    <3>1. \A k \in DOMAIN tests :
            /\ c_strmatch(tests[k], test_filter) <=> Matches(tests[k], test_filter)
            /\ c_strmatch(tests[k], skip_filter) <=> Matches(tests[k], skip_filter)
      BY <2>2, <2>4, NamesMatch
    <3> QED
      BY <3>1
  <2>6. runs \subseteq DOMAIN tests
    OBVIOUS
  <2> HIDE DEF runs
  <2>7. PICK place : Enumerates(place, group.tests, tests, runs, Len(tests))
    BY <2>2, <2>3, KeptInOrder
  <2>8. group.tests \in Seq(Seq(STRING)) /\ DOMAIN group.tests = 1 .. Len(group.tests)
    BY <2>2, <2>3, KeptType, LenProperties
  <2>9. /\ place \in [DOMAIN group.tests -> DOMAIN tests]
        /\ DOMAIN place = DOMAIN group.tests
        /\ \A i, j \in DOMAIN place : i < j => place[i] < place[j]
        /\ \A i \in DOMAIN place : group.tests[i] = tests[place[i]]
        /\ Range(place) = runs
    BY <2>4, <2>6, <2>7, <2>8 DEF Enumerates
  <2> QED
    BY <2>1, <2>5, <2>9 DEF TestsAreSelected
<1> QED
  BY <1>1, <1>2, SelectedStep, PTL DEF Spec

-----------------------------------------------------------------------------
(* Types: the name of the file, the counters of a group.                   *)

LEMMA StretchLength ==
  ASSUME NEW t \in Seq(STRING), NEW m \in Int, NEW n \in Int, 1 <= m, n <= Len(t), m <= n + 1
  PROVE  SubSeq(t, m, n) \in Seq(STRING) /\ Len(SubSeq(t, m, n)) = n - m + 1
<1>1. \A i \in m .. n : t[i] \in STRING
  BY LenProperties, ElementOfSeq
<1>2. n - m + 1 = IF m <= n THEN n - m + 1 ELSE 0
  OBVIOUS
<1> QED
  BY <1>1, <1>2, SubSeqProperties

LEMMA StretchElements ==
  ASSUME NEW t \in Seq(STRING), NEW m \in Int, NEW n \in Int, 1 <= m, n <= Len(t), m <= n + 1,
         NEW k \in 1 .. n - m + 1
  PROVE  SubSeq(t, m, n)[k] = t[m + k - 1]
<1>1. \A i \in m .. n : t[i] \in STRING
  BY LenProperties, ElementOfSeq
<1>2. \A i \in 1 .. n - m + 1 : SubSeq(t, m, n)[i] = t[m + i - 1]
  BY <1>1, SubSeqProperties
<1> QED
  BY <1>2

\* A name with the pattern has its two characters, one after the other.
LEMMA PatternAt ==
  ASSUME NEW t \in Seq(STRING), HasPattern(t)
  PROVE  \E k \in 1 .. Len(t) - 1 : t[k] = "%" /\ t[k + 1] = "g"
<1>1. Len(t) \in Nat /\ Len(pattern) = 2 /\ pattern[1] = "%" /\ pattern[2] = "g"
  BY LenProperties DEF pattern
<1>2. PICK i \in 0 .. Len(t), j \in 0 .. Len(t) : pattern = SubSeq(t, i + 1, j)
  BY DEF HasPattern, SubSeqs
<1>3. Len(SubSeq(t, i + 1, j)) = IF i + 1 <= j THEN j - (i + 1) + 1 ELSE 0
  <2>1. i + 1 \in Int /\ j \in Int /\ \A k \in i + 1 .. j : k \in 1 .. Len(t)
    BY <1>1
  <2>2. \A k \in i + 1 .. j : t[k] \in STRING
    BY <2>1, ElementOfSeq
  <2> QED
    BY <2>1, <2>2, SubSeqProperties
<1>4. 2 = IF i + 1 <= j THEN j - (i + 1) + 1 ELSE 0
  BY <1>1, <1>2, <1>3
<1>5. j = i + 2
  BY <1>4
<1>6. /\ i + 1 \in Int /\ j \in Int /\ 1 <= i + 1 /\ j <= Len(t) /\ i + 1 <= j + 1
      /\ 1 \in 1 .. j - (i + 1) + 1 /\ 2 \in 1 .. j - (i + 1) + 1
  BY <1>1, <1>5
<1>7. SubSeq(t, i + 1, j)[1] = t[i + 1 + 1 - 1] /\ SubSeq(t, i + 1, j)[2] = t[i + 1 + 2 - 1]
  BY <1>6, StretchElements
<1>8. t[i + 1] = "%" /\ t[i + 1 + 1] = "g"
  <2>1. i + 1 + 1 - 1 = i + 1 /\ i + 1 + 2 - 1 = i + 1 + 1
    OBVIOUS
  <2> QED
    BY <1>1, <1>2, <1>7, <2>1
<1> QED
  BY <1>1, <1>5, <1>6, <1>8

LEMMA PatternIn ==
  ASSUME NEW t \in Seq(STRING), NEW k \in 1 .. Len(t) - 1, t[k] = "%", t[k + 1] = "g"
  PROVE  HasPattern(SubSeq(t, 1, k + 1))
<1> DEFINE u == SubSeq(t, 1, k + 1)
<1>1. Len(t) \in Nat
  BY LenProperties
<1>2. u \in Seq(STRING) /\ Len(u) = k + 1
  <2>1. 1 \in Int /\ k + 1 \in Int /\ 1 <= 1 /\ k + 1 <= Len(t) /\ 1 <= k + 1 + 1
    BY <1>1
  <2> QED
    BY <2>1, StretchLength
<1>3. u[k] = "%" /\ u[k + 1] = "g"
  <2>1. /\ 1 \in Int /\ k + 1 \in Int /\ 1 <= 1 /\ k + 1 <= Len(t) /\ 1 <= k + 1 + 1
        /\ k \in 1 .. k + 1 - 1 + 1 /\ k + 1 \in 1 .. k + 1 - 1 + 1
    BY <1>1
  <2>2. u[k] = t[1 + k - 1] /\ u[k + 1] = t[1 + (k + 1) - 1]
    BY <2>1, StretchElements
  <2>3. 1 + k - 1 = k /\ 1 + (k + 1) - 1 = k + 1
    OBVIOUS
  <2> QED
    BY <2>2, <2>3
<1> HIDE DEF u
<1>4. SubSeq(u, k, k + 1) = pattern
  <2>1. k \in Int /\ k + 1 \in Int /\ 1 <= k /\ k + 1 <= Len(u) /\ k <= k + 1 + 1
    BY <1>2
  <2>2. SubSeq(u, k, k + 1) \in Seq(STRING) /\ Len(SubSeq(u, k, k + 1)) = k + 1 - k + 1
    BY <1>2, <2>1, StretchLength
  <2>3. 1 \in 1 .. k + 1 - k + 1 /\ 2 \in 1 .. k + 1 - k + 1
    OBVIOUS
  <2>4. SubSeq(u, k, k + 1)[1] = u[k + 1 - 1] /\ SubSeq(u, k, k + 1)[2] = u[k + 2 - 1]
    BY <1>2, <2>1, <2>3, StretchElements
  <2>5. SubSeq(u, k, k + 1)[1] = "%" /\ SubSeq(u, k, k + 1)[2] = "g"
    <3>1. k + 1 - 1 = k /\ k + 2 - 1 = k + 1
      OBVIOUS
    <3> QED
      BY <1>3, <2>4, <3>1
  <2>6. Len(SubSeq(u, k, k + 1)) = 2 /\ Len(pattern) = 2 /\ pattern[1] = "%" /\ pattern[2] = "g"
    BY <2>2 DEF pattern
  <2>7. pattern \in Seq({"%", "g"}) /\ SubSeq(u, k, k + 1) \in Seq(STRING)
    BY <2>2 DEF pattern
  <2> QED
    BY <2>5, <2>6, <2>7, SeqEqual
<1>5. k - 1 \in 0 .. Len(u) /\ k + 1 \in 0 .. Len(u) /\ (k - 1) + 1 = k
  BY <1>2
<1>6. pattern \in SubSeqs(u)
  <2>1. SubSeq(u, (k - 1) + 1, k + 1) = pattern
    BY <1>4, <1>5
  <2>2. \E i, j \in 0 .. Len(u) : pattern = SubSeq(u, i + 1, j)
    BY <1>5, <2>1
  <2> QED
    BY <2>2 DEF SubSeqs
<1> QED
  BY <1>6 DEF HasPattern, u

\* The pattern is found where it first ends, and is two characters long.
LEMMA PatternFound ==
  ASSUME NEW t \in Seq(STRING), HasPattern(t)
  PROVE  /\ IndexFirstSubSeq(pattern, t) \in 1 .. Len(t) - 1
         /\ t[IndexFirstSubSeq(pattern, t)] = "%" /\ t[IndexFirstSubSeq(pattern, t) + 1] = "g"
<1> DEFINE prefix(i) == SubSeq(t, 1, i)
           N == {i \in 0 .. Len(t) : HasPattern(prefix(i))}
           last == CHOOSE i \in 0 .. Len(t) :
                     HasPattern(prefix(i)) /\ \A j \in 0 .. i - 1 : ~HasPattern(prefix(j))
<1>1. Len(t) \in Nat /\ Len(t) \in 0 .. Len(t) /\ Len(pattern) = 2
  BY LenProperties DEF pattern
<1>2. prefix(Len(t)) = t
  <2>1. \A S : \A s \in Seq(S) : SubSeq(s, 1, Len(s)) = s
    BY SubSeqFull, Zenon
  <2> QED
    BY <2>1, Zenon
<1>3. N # {} /\ N \in SUBSET Nat
  <2>1. HasPattern(prefix(Len(t)))
    BY <1>2, Zenon
  <2> HIDE DEF prefix
  <2> QED
    BY <1>1, <2>1
<1>4. /\ last \in 0 .. Len(t) /\ HasPattern(prefix(last))
      /\ \A j \in 0 .. last - 1 : ~HasPattern(prefix(j))
  <2>1. PICK m \in N : \A k \in N : m <= k
    <3> HIDE DEF N
    <3> QED
      BY <1>3, SmallestExists
  <2>2. \A j \in 0 .. m - 1 : ~HasPattern(prefix(j))
    <3>1. \A j \in 0 .. m - 1 : j \in 0 .. Len(t) /\ ~(m <= j)
      BY <1>1, <2>1
    <3> QED
      BY <2>1, <3>1
  <2> HIDE DEF prefix
  <2> QED
    BY <2>1, <2>2
<1>5. IndexFirstSubSeq(pattern, t) = last - 1
  BY <1>1 DEF IndexFirstSubSeq, HasPattern
<1> HIDE DEF last
<1>6. PICK k \in 1 .. last - 1 : t[k] = "%" /\ t[k + 1] = "g"
  <2> DEFINE u == prefix(last)
  <2>1. /\ 1 \in Int /\ last \in Int /\ 1 <= 1 /\ last <= Len(t) /\ 1 <= last + 1
        /\ last - 1 + 1 = last
    BY <1>1, <1>4
  <2>2. u \in Seq(STRING) /\ Len(u) = last
    BY <2>1, StretchLength
  <2>3. \A i \in 1 .. last : u[i] = t[i]
    <3> SUFFICES ASSUME NEW i \in 1 .. last
                 PROVE  u[i] = t[i]
      OBVIOUS
    <3>1. i \in 1 .. last - 1 + 1 /\ 1 + i - 1 = i
      BY <2>1
    <3>2. u[i] = t[1 + i - 1]
      BY <2>1, <3>1, StretchElements
    <3> QED
      BY <3>1, <3>2
  <2>4. HasPattern(u)
    BY <1>4
  <2> HIDE DEF u
  <2>5. PICK k \in 1 .. Len(u) - 1 : u[k] = "%" /\ u[k + 1] = "g"
    BY <2>2, <2>4, PatternAt
  <2>6. k \in 1 .. last - 1 /\ k \in 1 .. last /\ k + 1 \in 1 .. last
    BY <2>1, <2>2, <2>5
  <2> QED
    BY <2>3, <2>5, <2>6
<1>7. k = last - 1
  <2>1. k \in 1 .. Len(t) - 1
    BY <1>1, <1>4, <1>6
  <2>2. HasPattern(SubSeq(t, 1, k + 1))
    BY <1>6, <2>1, PatternIn
  <2>3. \A j \in 0 .. last - 1 : ~HasPattern(SubSeq(t, 1, j))
    BY <1>4
  <2>4. k + 1 \notin 0 .. last - 1
    BY <2>2, <2>3
  <2> QED
    BY <1>1, <1>4, <1>6, <2>4
<1> QED
  BY <1>1, <1>4, <1>5, <1>6, <1>7

\* A name that was put in stands where the pattern was, and makes up for it.
LEMMA ReplacementLength ==
  ASSUME NEW name \in Seq(STRING), NEW t \in Seq(STRING), HasPattern(t)
  PROVE  /\ ReplaceFirstSubSeq(name, pattern, t) \in Seq(STRING)
         /\ Len(ReplaceFirstSubSeq(name, pattern, t)) = Len(t) - 2 + Len(name)
         /\ \A k \in 1 .. IndexFirstSubSeq(pattern, t) - 1 :
              ReplaceFirstSubSeq(name, pattern, t)[k] = t[k]
         /\ \A k \in 1 .. Len(name) :
              ReplaceFirstSubSeq(name, pattern, t)[IndexFirstSubSeq(pattern, t) - 1 + k] = name[k]
<1> DEFINE i == IndexFirstSubSeq(pattern, t)
           before == SubSeq(t, 1, i - 1)
           after == SubSeq(t, i + 2, Len(t))
<1>1. Len(pattern) = 2 /\ Len(t) \in Nat /\ Len(name) \in Nat
  BY LenProperties DEF pattern
<1>2. i \in 1 .. Len(t) - 1
  BY PatternFound
<1>3. ReplaceFirstSubSeq(name, pattern, t) = before \o name \o after
  BY <1>1 DEF ReplaceFirstSubSeq, ReplaceSubSeqAt, HasPattern
<1> HIDE DEF i
<1>4. /\ before \in Seq(STRING) /\ Len(before) = i - 1
      /\ \A k \in 1 .. i - 1 : before[k] = t[k]
  <2>1. 1 \in Int /\ i - 1 \in Int /\ 1 <= 1 /\ i - 1 <= Len(t) /\ 1 <= (i - 1) + 1
    BY <1>1, <1>2
  <2>2. (i - 1) - 1 + 1 = i - 1
    BY <1>2
  <2>3. ASSUME NEW k \in 1 .. i - 1
        PROVE  before[k] = t[k]
    <3>1. k \in 1 .. (i - 1) - 1 + 1 /\ 1 + k - 1 = k
      BY <2>2
    <3>2. before[k] = t[1 + k - 1]
      BY <2>1, <3>1, StretchElements
    <3> QED
      BY <3>1, <3>2
  <2> QED
    BY <2>1, <2>2, <2>3, StretchLength
<1>5. after \in Seq(STRING) /\ Len(after) = Len(t) - (i + 2) + 1
  <2>1. i + 2 \in Int /\ Len(t) \in Int /\ 1 <= i + 2 /\ Len(t) <= Len(t) /\ i + 2 <= Len(t) + 1
    BY <1>1, <1>2
  <2> QED
    BY <2>1, StretchLength
<1> HIDE DEF before, after
<1> DEFINE first == before \o name
<1>6. /\ first \in Seq(STRING) /\ Len(first) = i - 1 + Len(name)
      /\ \A k \in 1 .. i - 1 : first[k] = t[k]
      /\ \A k \in 1 .. Len(name) : first[i - 1 + k] = name[k]
  <2>1. /\ first \in Seq(STRING) /\ Len(first) = Len(before) + Len(name)
        /\ \A k \in 1 .. Len(before) + Len(name) :
             first[k] = IF k <= Len(before) THEN before[k] ELSE name[k - Len(before)]
    BY <1>4, ConcatProperties
  <2> HIDE DEF first
  <2>2. ASSUME NEW k \in 1 .. i - 1
        PROVE  first[k] = t[k]
    <3>1. k \in 1 .. Len(before) + Len(name) /\ k <= Len(before)
      BY <1>1, <1>2, <1>4
    <3>2. first[k] = before[k]
      BY <2>1, <3>1
    <3> QED
      BY <1>4, <3>2
  <2>3. ASSUME NEW k \in 1 .. Len(name)
        PROVE  first[i - 1 + k] = name[k]
    <3>1. PICK m : m = i - 1 + k
      OBVIOUS
    <3>2. /\ m \in 1 .. Len(before) + Len(name) /\ ~(m <= Len(before))
          /\ m - Len(before) = k
      BY <1>1, <1>2, <1>4, <3>1
    <3>3. first[m] = name[k]
      BY <2>1, <3>2
    <3> QED
      BY <3>1, <3>3
  <2> QED
    BY <1>4, <2>1, <2>2, <2>3
<1> HIDE DEF first
<1>7. /\ first \o after \in Seq(STRING) /\ Len(first \o after) = Len(first) + Len(after)
      /\ \A k \in 1 .. Len(first) : (first \o after)[k] = first[k]
  <2>1. /\ first \o after \in Seq(STRING) /\ Len(first \o after) = Len(first) + Len(after)
        /\ \A k \in 1 .. Len(first) + Len(after) :
             (first \o after)[k] = IF k <= Len(first) THEN first[k] ELSE after[k - Len(first)]
    <3>1. first \in Seq(STRING) /\ after \in Seq(STRING)
      BY <1>5, <1>6
    <3> QED
      BY <3>1, ConcatProperties
  <2>2. Len(first) \in Nat /\ Len(after) \in Nat
    BY <1>5, <1>6, LenProperties
  <2>3. ASSUME NEW k \in 1 .. Len(first)
        PROVE  (first \o after)[k] = first[k]
    <3>1. k \in 1 .. Len(first) + Len(after) /\ k <= Len(first)
      BY <2>2
    <3> QED
      BY <2>1, <3>1
  <2> QED
    BY <2>1, <2>3
<1> DEFINE r == ReplaceFirstSubSeq(name, pattern, t)
<1>8. r = first \o after
  BY <1>3 DEF first
<1> HIDE DEF r
<1>9. r \in Seq(STRING) /\ Len(r) = Len(t) - 2 + Len(name)
  <2>1. Len(first \o after) = (i - 1 + Len(name)) + (Len(t) - (i + 2) + 1)
    BY <1>5, <1>6, <1>7
  <2>2. Len(r) = Len(t) - 2 + Len(name)
    BY <1>1, <1>2, <1>8, <2>1
  <2> QED
    BY <1>7, <1>8, <2>2
<1>10. \A k \in 1 .. i - 1 : r[k] = t[k]
  <2>1. \A k \in 1 .. i - 1 : k \in 1 .. Len(first)
    BY <1>1, <1>2, <1>6
  <2> QED
    BY <1>6, <1>7, <1>8, <2>1
<1>11. \A k \in 1 .. Len(name) : r[i - 1 + k] = name[k]
  <2>1. \A k \in 1 .. Len(name) : i - 1 + k \in 1 .. Len(first)
    BY <1>1, <1>2, <1>6
  <2> QED
    BY <1>6, <1>7, <1>8, <2>1
<1> QED
  BY <1>9, <1>10, <1>11 DEF r, i
-----------------------------------------------------------------------------
\* What the program and its groups are.
GroupRecords ==
  [name : Seq(STRING), tests : Seq(Seq(STRING)), statuses : Seq(Statuses), setup : BOOLEAN,
   teardown : BOOLEAN, total : [Statuses -> Nat]]

\* What the program, its environment and its settings are.
ProgramTypeOK ==
  /\ process \in 0 .. MaxProcesses /\ groups \in 0 .. MaxGroups
  /\ environment \in Environments
  /\ test_filter \in Filters /\ skip_filter \in Filters
  /\ global_msg_output \subseteq Formats /\ chosen \subseteq Formats
  /\ {env_checked, version_printed, xml_printed, file_append, late} \subseteq BOOLEAN
  /\ DOMAIN lines = Formats /\ DOMAIN streams = {"stdout", "stderr"}

\* The inductive invariant behind the counters of a group: they count the tests that were
\* run, and the setup that failed, after which none is run.
GroupInv ==
  /\ phase \in Phases
  /\ group \in GroupRecords
  /\ buf \in Seq(STRING) /\ Len(buf) < BufferSize
  /\ Len(group.statuses) <= Len(group.tests)
  /\ phase \in {"setup", "tests"} => group.setup
  /\ phase = "teardown" => ~group.setup
  /\ phase \in {"off", "idle", "setup"} \/ ~group.setup => group.statuses = <<>>
  /\ phase \in {"naming", "writing", "over"} /\ group.setup =>
       Len(group.statuses) = Len(group.tests)
  /\ group.total["PASSED"] + group.total["SKIPPED"] + group.total["FAILED"] + group.total["ERROR"]
       = Len(group.statuses) + IF group.setup THEN 0 ELSE 1

LEMMA NoGroupIs ==
  /\ NoGroup \in GroupRecords
  /\ NoGroup.statuses = <<>> /\ NoGroup.setup = TRUE /\ NoGroup.tests = <<>>
  /\ \A s \in Statuses : NoGroup.total[s] = 0
  /\ Len(<<>>) = 0
BY EmptySeq DEF NoGroup, GroupRecords

LEMMA EnvironmentIs ==
  ASSUME NEW e \in Environments
  PROVE  /\ e.output \in (SUBSET Formats) \cup {Illegal}
         /\ e.file \in Seq(STRING) /\ Len(e.file) \in Nat /\ Len(e.file) < BufferSize
BY ReportsAssumption, LenProperties

LEMMA OutputIs ==
  ASSUME ProgramTypeOK
  PROVE  Output \subseteq Formats
<1>1. environment.output \in (SUBSET Formats) \cup {Illegal}
  BY EnvironmentIs DEF ProgramTypeOK
<1> QED
  BY <1>1 DEF Output, ProgramTypeOK

\* Adding lines leaves the formats alone.
LEMMA AddKeepsFormats ==
  ASSUME NEW f, NEW more, NEW l, DOMAIN l = Formats
  PROVE  DOMAIN Add(f, more, l) = Formats
BY DEF Add

LEMMA LinesKeepFormats ==
  ASSUME NEW l, DOMAIN l = Formats
  PROVE  /\ \A type, number : DOMAIN cmprintf(type, number, l) = Formats
         /\ \A n : DOMAIN cmprintf_group_start(n, l) = Formats
         /\ DOMAIN cmprintf_group_finish(l) = Formats
<1>1. ASSUME NEW type, NEW number PROVE DOMAIN cmprintf(type, number, l) = Formats
  <2> DEFINE line == <<[type |-> type, number |-> number]>>
             both == Add("STANDARD", line, Add("SUBUNIT", line, l))
  <2>1. DOMAIN both = Formats
    BY AddKeepsFormats
  <2>2. DOMAIN Add("TAP", line, both) = Formats
    BY <2>1, AddKeepsFormats
  <2>3. cmprintf(type, number, l) = IF type = "START" THEN both ELSE Add("TAP", line, both)
    BY DEF cmprintf
  <2> HIDE DEF both
  <2> QED
    BY <2>1, <2>2, <2>3
<1>2. \A n : DOMAIN cmprintf_group_start(n, l) = Formats
  BY AddKeepsFormats DEF cmprintf_group_start
<1>3. DOMAIN cmprintf_group_finish(l) = Formats
  BY AddKeepsFormats DEF cmprintf_group_finish
<1> QED
  BY <1>1, <1>2, <1>3

LEMMA ProgramTypeInit == Init => ProgramTypeOK
<1> SUFFICES ASSUME Init
             PROVE  ProgramTypeOK
  OBVIOUS
<1>1. 0 \in 0 .. MaxProcesses /\ 0 \in 0 .. MaxGroups
  BY BoundsAssumption
<1>2. DOMAIN NoLines = Formats /\ DOMAIN NoTexts = {"stdout", "stderr"}
  BY DEF NoLines, NoTexts
<1>3. {"STANDARD"} \subseteq Formats
  BY DEF Formats
<1> QED
  BY <1>1, <1>2, <1>3, ReportsAssumption DEF Init, ProgramTypeOK

LEMMA ProgramTypeStep ==
  ASSUME ProgramTypeOK, [Next]_vars
  PROVE  ProgramTypeOK'
<1> USE BoundsAssumption, ReportsAssumption
<1>1. ASSUME NEW e \in Environments, StartProgram(e) PROVE ProgramTypeOK'
  <2>1. process + 1 \in 0 .. MaxProcesses
    BY <1>1 DEF StartProgram, ProgramTypeOK
  <2> QED
    BY <1>1, <2>1 DEF StartProgram, ProgramTypeOK, NoTexts, Formats
<1>2. CASE EndProgram
  BY <1>2 DEF EndProgram, ProgramTypeOK, statics
<1>3. ASSUME NEW name \in DOMAIN files, RemoveFile(name) PROVE ProgramTypeOK'
  BY <1>3 DEF RemoveFile, ProgramTypeOK, statics
<1>4. ASSUME NEW p \in Filters, cmocka_set_test_filter(p) \/ cmocka_set_skip_filter(p)
      PROVE  ProgramTypeOK'
  BY <1>4 DEF cmocka_set_test_filter, cmocka_set_skip_filter, ProgramTypeOK, statics
<1>5. ASSUME NEW output \in Outputs, cmocka_set_message_output(output) PROVE ProgramTypeOK'
  BY <1>5 DEF cmocka_set_message_output, ProgramTypeOK, statics
<1>6. ASSUME NEW g \in Groups, BeginGroup(g) PROVE ProgramTypeOK'
  <2>1. groups' \in 0 .. MaxGroups
    BY <1>6 DEF BeginGroup, ProgramTypeOK
  <2>2. DOMAIN lines' = Formats
    BY <1>6, LinesKeepFormats DEF BeginGroup, NoLines
  <2>3. global_msg_output' \subseteq Formats /\ env_checked' \in BOOLEAN
    BY <1>6, OutputIs DEF BeginGroup, cm_get_output, ProgramTypeOK
  <2> QED
    BY <1>6, <2>1, <2>2, <2>3 DEF BeginGroup, InGroup, ProgramTypeOK
<1>7. CASE GroupSetup \/ (\E status \in Statuses : RunTest(status))
             \/ (\E torn \in BOOLEAN : FinishGroup(torn)) \/ NameFile \/ Return
  <2>1. DOMAIN lines' = Formats
    <3>1. DOMAIN lines = Formats /\ DOMAIN NoLines = Formats
      BY DEF ProgramTypeOK, NoLines
    <3>2. CASE GroupSetup \/ NameFile \/ Return
      <4>1. lines' = lines \/ lines' = cmprintf("ERROR", 0, lines) \/ lines' = NoLines
        BY <3>2 DEF GroupSetup, NameFile, Return
      <4> QED
        BY <3>1, <4>1, LinesKeepFormats
    <3>3. ASSUME NEW status \in Statuses, RunTest(status) PROVE DOMAIN lines' = Formats
      <4>1. PICK i : lines' = cmprintf(Verdict(status), i, cmprintf("START", i, lines))
        BY <3>3 DEF RunTest
      <4>2. DOMAIN cmprintf("START", i, lines) = Formats
        BY <3>1, LinesKeepFormats
      <4> QED
        BY <4>1, <4>2, LinesKeepFormats
    <3>4. ASSUME NEW torn \in BOOLEAN, FinishGroup(torn) PROVE DOMAIN lines' = Formats
      <4>1. PICK l : /\ lines' = cmprintf_group_finish(l)
                     /\ l = lines \/ l = cmprintf("ERROR", 0, lines)
        BY <3>4 DEF FinishGroup
      <4>2. DOMAIN l = Formats
        BY <3>1, <4>1, LinesKeepFormats
      <4> QED
        BY <4>1, <4>2, LinesKeepFormats
    <3> QED
      BY <1>7, <3>2, <3>3, <3>4
  <2>2. UNCHANGED <<InGroup, groups, global_msg_output, statics, streams>>
    BY <1>7 DEF GroupSetup, RunTest, FinishGroup, NameFile, Return
  <2> QED
    BY <2>1, <2>2 DEF ProgramTypeOK, InGroup, statics
<1>8. ASSUME NEW canWrite \in BOOLEAN, WriteReport(canWrite) PROVE ProgramTypeOK'
  <2>1. DOMAIN lines' = DOMAIN lines /\ DOMAIN streams' = DOMAIN streams
    BY <1>8 DEF WriteReport
  <2>2. xml_printed' \in BOOLEAN /\ file_append' \in BOOLEAN
    BY <1>8 DEF WriteReport, Printed, ProgramTypeOK
  <2> QED
    BY <1>8, <2>1, <2>2 DEF WriteReport, InGroup, ProgramTypeOK
<1>9. CASE UNCHANGED vars
  BY <1>9 DEF vars, ProgramTypeOK, statics
<1> QED
  BY <1>1, <1>2, <1>3, <1>4, <1>5, <1>6, <1>7, <1>8, <1>9 DEF Next, GroupStep

Tallied(total) == total["PASSED"] + total["SKIPPED"] + total["FAILED"] + total["ERROR"]

\* The counters and their sum.
LEMMA TalliedIs ==
  ASSUME NEW a \in [Statuses -> Nat]
  PROVE  /\ Tallied(a) \in Nat
         /\ \A s \in Statuses : a[s] <= Tallied(a)
<1>1. /\ a["PASSED"] \in Nat /\ a["SKIPPED"] \in Nat /\ a["FAILED"] \in Nat /\ a["ERROR"] \in Nat
  BY DEF Statuses
<1>2. \A p, k, f, e \in Nat : /\ p + k + f + e \in Nat
                              /\ p <= p + k + f + e /\ k <= p + k + f + e
                              /\ f <= p + k + f + e /\ e <= p + k + f + e
  OBVIOUS
<1>3. /\ Tallied(a) \in Nat
      /\ a["PASSED"] <= Tallied(a) /\ a["SKIPPED"] <= Tallied(a)
      /\ a["FAILED"] <= Tallied(a) /\ a["ERROR"] <= Tallied(a)
  BY <1>1, <1>2 DEF Tallied
<1> QED
  BY <1>3 DEF Statuses

LEMMA TalliedOneMore ==
  ASSUME NEW a \in [Statuses -> Nat], NEW status \in Statuses,
         NEW b, b = [a EXCEPT ![status] = @ + 1]
  PROVE  b \in [Statuses -> Nat] /\ Tallied(b) = Tallied(a) + 1
<1>1. /\ a["PASSED"] \in Nat /\ a["SKIPPED"] \in Nat /\ a["FAILED"] \in Nat /\ a["ERROR"] \in Nat
  BY DEF Statuses
<1>2. b \in [Statuses -> Nat]
  OBVIOUS
<1>3. \A s \in Statuses : b[s] = IF s = status THEN a[s] + 1 ELSE a[s]
  OBVIOUS
<1>4. /\ b["PASSED"] = IF status = "PASSED" THEN a["PASSED"] + 1 ELSE a["PASSED"]
      /\ b["SKIPPED"] = IF status = "SKIPPED" THEN a["SKIPPED"] + 1 ELSE a["SKIPPED"]
      /\ b["FAILED"] = IF status = "FAILED" THEN a["FAILED"] + 1 ELSE a["FAILED"]
      /\ b["ERROR"] = IF status = "ERROR" THEN a["ERROR"] + 1 ELSE a["ERROR"]
  BY <1>3 DEF Statuses
<1>0. \A p, k, f, e \in Nat :
        /\ (p + 1) + k + f + e = (p + k + f + e) + 1 /\ p + (k + 1) + f + e = (p + k + f + e) + 1
        /\ p + k + (f + 1) + e = (p + k + f + e) + 1 /\ p + k + f + (e + 1) = (p + k + f + e) + 1
  OBVIOUS
<1>5. CASE status = "PASSED"
  BY <1>0, <1>1, <1>4, <1>5 DEF Tallied
<1>6. CASE status = "SKIPPED"
  BY <1>0, <1>1, <1>4, <1>6 DEF Tallied
<1>7. CASE status = "FAILED"
  BY <1>0, <1>1, <1>4, <1>7 DEF Tallied
<1>8. CASE status = "ERROR"
  <2>1. /\ b["PASSED"] = a["PASSED"] /\ b["SKIPPED"] = a["SKIPPED"]
        /\ b["FAILED"] = a["FAILED"] /\ b["ERROR"] = a["ERROR"] + 1
    BY <1>4, <1>8
  <2>2. Tallied(b) = a["PASSED"] + a["SKIPPED"] + a["FAILED"] + (a["ERROR"] + 1)
    BY <2>1 DEF Tallied
  <2> QED
    BY <1>0, <1>1, <1>2, <2>2 DEF Tallied
<1> QED
  BY <1>2, <1>5, <1>6, <1>7, <1>8 DEF Statuses

PassedPlaces(statuses) == {i \in DOMAIN statuses : statuses[i] = "PASSED"}

\* The tests that passed are counted, too.
PassedCounted ==
  /\ IsFiniteSet(PassedPlaces(group.statuses))
  /\ group.total["PASSED"] = Cardinality(PassedPlaces(group.statuses))

LEMMA StatusNames ==
  "PASSED" \in Statuses /\ "SKIPPED" \in Statuses /\ "FAILED" \in Statuses /\ "ERROR" \in Statuses
BY DEF Statuses

\* A group of which nothing was run.
LEMMA FreshGroup ==
  ASSUME NEW g \in GroupRecords, g.statuses = <<>>, \A s \in Statuses : g.total[s] = 0
  PROVE  /\ Len(g.statuses) = 0 /\ Len(g.tests) \in Nat /\ Tallied(g.total) = 0
         /\ IsFiniteSet(PassedPlaces(g.statuses))
         /\ g.total["PASSED"] = Cardinality(PassedPlaces(g.statuses))
<1>1. PassedPlaces(<<>>) = {}
  BY EmptySeq DEF PassedPlaces
<1>2. Len(g.statuses) = 0 /\ Len(g.tests) \in Nat
  BY EmptySeq, LenProperties DEF GroupRecords
<1>3. Tallied(g.total) = 0
  BY StatusNames DEF Tallied
<1> QED
  BY <1>1, <1>2, <1>3, StatusNames, FS_EmptySet

LEMMA GroupInvInit == Init => GroupInv /\ PassedCounted
<1> SUFFICES ASSUME Init
             PROVE  GroupInv /\ PassedCounted
  OBVIOUS
<1>1. Len(environment.file) \in Nat /\ Len(environment.file) < BufferSize
  BY EnvironmentIs DEF Init
<1>2. BufferSize > 0
  BY <1>1, BoundsAssumption
<1>3. group = NoGroup /\ buf = <<>> /\ phase = "off" /\ <<>> \in Seq(STRING) /\ Len(<<>>) = 0
  BY EmptySeq DEF Init
<1>4. /\ Len(group.statuses) = 0 /\ Len(group.tests) \in Nat /\ Tallied(group.total) = 0
      /\ PassedCounted /\ group \in GroupRecords /\ group.setup = TRUE /\ group.statuses = <<>>
  BY <1>3, NoGroupIs, FreshGroup DEF PassedCounted
<1> QED
  BY <1>2, <1>3, <1>4 DEF GroupInv, Tallied, Phases

\* Outside of a group, and while its report is written, its record stays as it is.
LEMMA GroupStays ==
  ASSUME GroupInv, PassedCounted, UNCHANGED group, phase' \in Phases,
         buf' \in Seq(STRING), Len(buf') < BufferSize,
         \/ phase' = phase
         \/ phase \in {"off", "idle"} /\ phase' \in {"off", "idle"}
         \/ phase \in {"naming", "writing", "over"} /\ phase' \in {"naming", "writing", "over"}
  PROVE  GroupInv' /\ PassedCounted'
BY DEF GroupInv, PassedCounted

LEMMA BeginGroupInv ==
  ASSUME ProgramTypeOK, GroupInv, PassedCounted, NEW g \in Groups, BeginGroup(g)
  PROVE  GroupInv' /\ PassedCounted'
<1>1. /\ g.name \in Seq(STRING) /\ g.tests \in Seq(Seq(STRING))
  BY ReportsAssumption
<1> DEFINE tests == Selected(g.tests, test_filter, skip_filter)
<1>2. tests \in Seq(Seq(STRING)) /\ Len(tests) \in Nat
  BY <1>1, KeptType, LenProperties DEF Selected
<1> HIDE DEF tests
<1>3. group' = [NoGroup EXCEPT !.name = g.name, !.tests = tests] /\ phase' = "setup" /\ buf' = buf
  BY DEF BeginGroup, tests
<1>4. /\ group' \in GroupRecords
      /\ group'.statuses = <<>> /\ group'.setup = TRUE /\ group'.tests = tests
      /\ \A s \in Statuses : group'.total[s] = 0
      /\ Len(<<>>) = 0
  BY <1>1, <1>2, <1>3, NoGroupIs, EmptySeq DEF NoGroup, GroupRecords
<1>5. /\ Len(group'.statuses) = 0 /\ Tallied(group'.total) = 0 /\ PassedCounted'
  BY <1>4, FreshGroup DEF PassedCounted
<1>6. Len(group'.statuses) <= Len(group'.tests)
  BY <1>2, <1>4, <1>5
<1>7. buf' \in Seq(STRING) /\ Len(buf') < BufferSize
  BY <1>3 DEF GroupInv
<1>8. Tallied(group'.total) = Len(group'.statuses) + IF group'.setup THEN 0 ELSE 1
  BY <1>4, <1>5
<1>9. phase' \in Phases /\ phase' = "setup"
  BY <1>3 DEF Phases
<1>10. group'.total["PASSED"] + group'.total["SKIPPED"] + group'.total["FAILED"]
         + group'.total["ERROR"] = Len(group'.statuses) + IF group'.setup THEN 0 ELSE 1
  BY <1>8 DEF Tallied
<1> QED
  BY <1>4, <1>5, <1>6, <1>7, <1>9, <1>10 DEF GroupInv

LEMMA SetupInv ==
  ASSUME GroupInv, PassedCounted, GroupSetup
  PROVE  GroupInv' /\ PassedCounted'
<1>1. CASE phase' = "tests" /\ UNCHANGED group
  BY <1>1 DEF GroupSetup, GroupInv, PassedCounted, Phases
<1>2. CASE phase' = "teardown" /\ group' = [group EXCEPT !.setup = FALSE, !.total["ERROR"] = @ + 1]
  <2>1. /\ group \in GroupRecords /\ group.setup /\ group.statuses = <<>> /\ Len(group.statuses) = 0
        /\ buf' = buf
    BY EmptySeq DEF GroupSetup, GroupInv
  <2>2. /\ group' \in GroupRecords
        /\ group'.statuses = group.statuses /\ group'.tests = group.tests
        /\ group'.setup = FALSE
        /\ group'.total = [group.total EXCEPT !["ERROR"] = @ + 1]
    <3> DEFINE total == [group.total EXCEPT !["ERROR"] = @ + 1]
    <3>1. total \in [Statuses -> Nat]
      <4>1. group.total \in [Statuses -> Nat]
        BY <2>1 DEF GroupRecords
      <4> QED
        BY <4>1, StatusNames
    <3>2. group' = [[group EXCEPT !.setup = FALSE] EXCEPT !.total = total]
      BY <1>2, <2>1 DEF GroupRecords
    <3> HIDE DEF total
    <3>4. /\ group' \in GroupRecords
          /\ group'.statuses = group.statuses /\ group'.tests = group.tests
          /\ group'.setup = FALSE /\ group'.total = total
      BY <2>1, <3>1, <3>2 DEF GroupRecords
    <3> QED
      BY <3>4 DEF total
  <2>3. group'.total["PASSED"] = group.total["PASSED"]
    BY <2>1, <2>2, StatusNames DEF GroupRecords
  <2>4. Tallied(group.total) = 0
    BY <2>1 DEF GroupInv, Tallied
  <2>5. Tallied(group'.total) = 1
    <3>1. group.total \in [Statuses -> Nat] /\ "ERROR" \in Statuses
      BY <2>1, StatusNames DEF GroupRecords
    <3>2. Tallied(group'.total) = Tallied(group.total) + 1
      BY <2>2, <3>1, TalliedOneMore
    <3> QED
      BY <2>4, <3>2
  <2>6. Len(group'.statuses) <= Len(group'.tests)
    BY <2>2 DEF GroupInv
  <2> QED
    BY <1>2, <2>1, <2>2, <2>3, <2>5, <2>6 DEF GroupInv, PassedCounted, Tallied, Phases
<1> QED
  BY <1>1, <1>2 DEF GroupSetup

LEMMA RunTestInv ==
  ASSUME GroupInv, PassedCounted, NEW status \in Statuses, RunTest(status)
  PROVE  GroupInv' /\ PassedCounted'
<1> DEFINE s == group.statuses
           t == group'.statuses
           n == Len(s)
<1>1. /\ group \in GroupRecords /\ s \in Seq(Statuses) /\ n \in Nat
      /\ group.setup /\ phase = "tests" /\ phase' = phase /\ buf' = buf
      /\ n + 1 <= Len(group.tests)
      /\ \A x \in Statuses : group.total[x] \in Nat
  BY LenProperties DEF RunTest, GroupInv, GroupRecords
<1>2. group' = [group EXCEPT !.statuses = Append(s, status), !.total = Counted(status)]
  BY DEF RunTest
<1>3. /\ Append(s, status) \in Seq(Statuses)
      /\ Len(Append(s, status)) = n + 1
      /\ \A i \in 1 .. n : Append(s, status)[i] = s[i]
      /\ Append(s, status)[n + 1] = status
  BY <1>1, AppendProperties
<1>4. Counted(status) \in [Statuses -> Nat]
  BY <1>1 DEF Counted, GroupRecords
<1>5. /\ group' \in GroupRecords /\ t = Append(s, status)
      /\ group'.tests = group.tests /\ group'.setup = group.setup
      /\ group'.total = Counted(status)
  BY <1>1, <1>2, <1>3, <1>4 DEF GroupRecords
<1>6. \A x \in Statuses :
        group'.total[x] = IF x = status THEN group.total[x] + 1 ELSE group.total[x]
  BY <1>1, <1>5 DEF Counted, GroupRecords
<1>7. GroupInv'
  <2>1. Tallied(group.total) = n
    BY <1>1 DEF GroupInv, Tallied
  <2>2. Tallied(group'.total) = n + 1
    <3>1. group.total \in [Statuses -> Nat]
      BY <1>1 DEF GroupRecords
    <3>2. group'.total = [group.total EXCEPT ![status] = @ + 1]
      BY <1>5 DEF Counted
    <3>3. Tallied(group'.total) = Tallied(group.total) + 1
      BY <3>1, <3>2, TalliedOneMore
    <3> QED
      BY <2>1, <3>3
  <2>3. Len(t) = n + 1 /\ group'.statuses = t
    BY <1>3, <1>5
  <2>4. buf \in Seq(STRING) /\ Len(buf) < BufferSize
    BY DEF GroupInv
  <2> HIDE DEF t, n
  <2> QED
    BY <1>1, <1>5, <2>2, <2>3, <2>4 DEF GroupInv, Tallied, Phases
<1>8. PassedCounted'
  <2>1. DOMAIN s = 1 .. n /\ DOMAIN t = (1 .. n) \cup {n + 1} /\ n + 1 \notin 1 .. n
    BY <1>1, <1>3, <1>5, LenProperties
  <2>2. PassedPlaces(t) = IF status = "PASSED" THEN PassedPlaces(s) \cup {n + 1} ELSE PassedPlaces(s)
    BY <1>3, <1>5, <2>1 DEF PassedPlaces
  <2>3. n + 1 \notin PassedPlaces(s) /\ "PASSED" \in Statuses
    BY <2>1 DEF PassedPlaces, Statuses
  <2>4. /\ IsFiniteSet(PassedPlaces(s))
        /\ group.total["PASSED"] = Cardinality(PassedPlaces(s))
    BY DEF PassedCounted
  <2>5. /\ IsFiniteSet(PassedPlaces(s) \cup {n + 1})
        /\ Cardinality(PassedPlaces(s) \cup {n + 1}) = Cardinality(PassedPlaces(s)) + 1
    BY <2>3, <2>4, FS_AddElement
  <2> QED
    BY <1>6, <2>2, <2>3, <2>4, <2>5 DEF PassedCounted
<1> QED
  BY <1>7, <1>8

LEMMA FinishInv ==
  ASSUME ProgramTypeOK, GroupInv, PassedCounted, NEW torn \in BOOLEAN, FinishGroup(torn)
  PROVE  GroupInv' /\ PassedCounted'
<1>1. group' = [group EXCEPT !.teardown = torn] /\ buf' = environment.file
  BY DEF FinishGroup
<1>5. phase' \in {"over", "writing", "naming"}
  BY DEF FinishGroup
<1>6. group.setup => Len(group.statuses) = Len(group.tests)
  BY DEF FinishGroup, GroupInv
<1>2. /\ group' \in GroupRecords
      /\ group'.statuses = group.statuses /\ group'.tests = group.tests
      /\ group'.setup = group.setup /\ group'.total = group.total
  BY <1>1 DEF GroupInv, GroupRecords
<1>3. environment.file \in Seq(STRING) /\ Len(environment.file) < BufferSize
  BY EnvironmentIs DEF ProgramTypeOK
<1>4. ~group.setup => group.statuses = <<>>
  BY DEF GroupInv
<1> QED
  BY <1>1, <1>2, <1>3, <1>4, <1>5, <1>6 DEF GroupInv, PassedCounted, Phases

LEMMA NameFileInv ==
  ASSUME ProgramTypeOK, GroupInv, PassedCounted, NameFile
  PROVE  GroupInv' /\ PassedCounted'
<1>1. /\ group' = group /\ phase = "naming" /\ phase' \in {"naming", "writing"}
      /\ buf' = (IF HasPattern(buf) THEN c_strreplace ELSE Becomes(buf)).name
  BY DEF NameFile
<1>2. /\ environment.file \in Seq(STRING) /\ Len(environment.file) < BufferSize
      /\ buf \in Seq(STRING) /\ Len(buf) \in Nat /\ Len(buf) < BufferSize
      /\ group.name \in Seq(STRING) /\ Len(group.name) \in Nat
      /\ Len(pattern) = 2
  BY EnvironmentIs, LenProperties DEF ProgramTypeOK, GroupInv, GroupRecords, pattern
<1>3. buf' \in Seq(STRING) /\ Len(buf') < BufferSize
  <2>1. CASE ~HasPattern(buf)
    BY <1>1, <1>2, <2>1 DEF Becomes
  <2>2. CASE HasPattern(buf) /\ BufferSize <= Len(buf) + Longer(pattern, group.name) + 1
    BY <1>1, <1>2, <2>2 DEF c_strreplace
  <2>3. CASE HasPattern(buf) /\ ~(BufferSize <= Len(buf) + Longer(pattern, group.name) + 1)
    <3>1. buf' = ReplaceFirstSubSeq(group.name, pattern, buf)
      BY <1>1, <2>3 DEF c_strreplace, Becomes
    <3>2. buf' \in Seq(STRING) /\ Len(buf') = Len(buf) - 2 + Len(group.name)
      BY <1>2, <2>3, <3>1, ReplacementLength
    <3> QED
      BY <1>2, <2>3, <3>2, BoundsAssumption DEF Longer
  <2> QED
    BY <2>1, <2>2, <2>3
<1> QED
  BY <1>1, <1>3, GroupStays DEF Phases

LEMMA GroupInvStep ==
  ASSUME ProgramTypeOK, GroupInv, PassedCounted, [Next]_vars
  PROVE  GroupInv' /\ PassedCounted'
<1>0. buf \in Seq(STRING) /\ Len(buf) < BufferSize /\ phase \in Phases
  BY DEF GroupInv
<1>1. ASSUME NEW e \in Environments, StartProgram(e) PROVE GroupInv' /\ PassedCounted'
  BY <1>0, <1>1, GroupStays DEF StartProgram, Phases
<1>2. CASE EndProgram
  BY <1>0, <1>2, GroupStays DEF EndProgram, Phases
<1>3. ASSUME NEW name \in DOMAIN files, RemoveFile(name) PROVE GroupInv' /\ PassedCounted'
  BY <1>0, <1>3, GroupStays DEF RemoveFile
<1>4. ASSUME NEW p \in Filters, cmocka_set_test_filter(p) \/ cmocka_set_skip_filter(p)
      PROVE  GroupInv' /\ PassedCounted'
  BY <1>0, <1>4, GroupStays DEF cmocka_set_test_filter, cmocka_set_skip_filter
<1>5. ASSUME NEW output \in Outputs, cmocka_set_message_output(output)
      PROVE  GroupInv' /\ PassedCounted'
  BY <1>0, <1>5, GroupStays DEF cmocka_set_message_output
<1>6. ASSUME NEW g \in Groups, BeginGroup(g) PROVE GroupInv' /\ PassedCounted'
  BY <1>6, BeginGroupInv
<1>7. CASE GroupSetup
  BY <1>7, SetupInv
<1>8. ASSUME NEW status \in Statuses, RunTest(status) PROVE GroupInv' /\ PassedCounted'
  BY <1>8, RunTestInv
<1>9. ASSUME NEW torn \in BOOLEAN, FinishGroup(torn) PROVE GroupInv' /\ PassedCounted'
  BY <1>9, FinishInv
<1>10. CASE NameFile
  BY <1>10, NameFileInv
<1>11. ASSUME NEW canWrite \in BOOLEAN, WriteReport(canWrite) PROVE GroupInv' /\ PassedCounted'
  BY <1>0, <1>11, GroupStays DEF WriteReport, Phases
<1>12. CASE Return
  <2>1. group' = NoGroup /\ buf' = <<>> /\ phase' = "idle" /\ <<>> \in Seq(STRING) /\ Len(<<>>) = 0
    BY <1>12, EmptySeq DEF Return
  <2>2. 0 < BufferSize
    BY <1>0, LenProperties, BoundsAssumption
  <2>3. /\ Len(group'.statuses) = 0 /\ Len(group'.tests) \in Nat /\ Tallied(group'.total) = 0
        /\ PassedCounted' /\ group' \in GroupRecords /\ group'.setup = TRUE
        /\ group'.statuses = <<>>
    BY <2>1, NoGroupIs, FreshGroup DEF PassedCounted
  <2> QED
    BY <2>1, <2>2, <2>3 DEF GroupInv, Tallied, Phases
<1>13. CASE UNCHANGED vars
  BY <1>0, <1>13, GroupStays DEF vars
<1> QED
  BY <1>1, <1>2, <1>3, <1>4, <1>5, <1>6, <1>7, <1>8, <1>9, <1>10, <1>11, <1>12, <1>13
  DEF Next, GroupStep

\* Whatever the tests of the groups, their endings and the environment are, the variables
\* have their types, no counter gets ahead of the tests, and the name of the XML file
\* never outgrows its buffer (c_strreplace, cmprintf_group_finish_xml).
THEOREM ReportsTypeCorrect == Spec => []TypeOK
<1>1. ProgramTypeOK /\ GroupInv => TypeOK
  <2> SUFFICES ASSUME ProgramTypeOK, GroupInv
               PROVE  \A s \in Statuses : group.total[s] \in 0 .. Len(group.tests) + 1
    BY DEF ProgramTypeOK, GroupInv, TypeOK
  <2>1. /\ \A s \in Statuses : group.total[s] \in Nat
        /\ Len(group.statuses) \in Nat /\ Len(group.tests) \in Nat
    BY LenProperties DEF GroupInv, GroupRecords
  <2>2. Tallied(group.total) <= Len(group.tests) + 1
    <3>1. \/ Tallied(group.total) = Len(group.statuses) + 0
          \/ Tallied(group.total) = Len(group.statuses) + 1
      BY DEF GroupInv, Tallied
    <3>2. Len(group.statuses) <= Len(group.tests)
      BY DEF GroupInv
    <3> QED
      BY <2>1, <3>1, <3>2
  <2>3. Tallied(group.total) \in Nat /\ \A s \in Statuses : group.total[s] <= Tallied(group.total)
    BY TalliedIs DEF GroupInv, GroupRecords
  <2> QED
    BY <2>1, <2>2, <2>3
<1> QED
  BY <1>1, ProgramTypeInit, ProgramTypeStep, GroupInvInit, GroupInvStep, PTL DEF Spec

-----------------------------------------------------------------------------
(* Every step of a group comes nearer to its end.                          *)

LEMMA PhasesLeftValues ==
  /\ PhasesLeft = [setup |-> 6, tests |-> 5, teardown |-> 4, naming |-> 3, writing |-> 2,
                   over |-> 1, idle |-> 0, off |-> 0][phase]
  /\ PhasesLeft' = [setup |-> 6, tests |-> 5, teardown |-> 4, naming |-> 3, writing |-> 2,
                    over |-> 1, idle |-> 0, off |-> 0][phase']
BY DEF PhasesLeft

\* A name of two characters other than the pattern takes the one or the other of its
\* characters away, and what is before it stays.
LEMMA PairAdvances ==
  ASSUME GroupInv, HasPattern(buf), buf' = ReplaceFirstSubSeq(group.name, pattern, buf),
         UNCHANGED group, Len(group.name) = 2, group.name # pattern
  PROVE  NameAdvances
<1> DEFINE name == group.name
           i == IndexFirstSubSeq(pattern, buf)
           taken == IF Head(name) = "%" THEN "g" ELSE "%"
<1>1. buf \in Seq(STRING) /\ name \in Seq(STRING) /\ Len(buf) \in Nat
  BY LenProperties DEF GroupInv, GroupRecords
<1>2. i \in 1 .. Len(buf) - 1 /\ buf[i] = "%" /\ buf[i + 1] = "g"
  BY <1>1, PatternFound
<1>3. /\ Len(buf') = Len(buf) - 2 + 2
      /\ \A k \in 1 .. i - 1 : buf'[k] = buf[k]
      /\ \A k \in 1 .. 2 : buf'[i - 1 + k] = name[k]
  <2> DEFINE r == ReplaceFirstSubSeq(name, pattern, buf)
  <2>1. /\ Len(r) = Len(buf) - 2 + Len(name)
        /\ \A k \in 1 .. i - 1 : r[k] = buf[k]
        /\ \A k \in 1 .. Len(name) : r[i - 1 + k] = name[k]
    BY <1>1, ReplacementLength, Zenon
  <2>2. buf' = r
    OBVIOUS
  <2> HIDE DEF r, i
  <2> QED
    BY <2>1, <2>2
<1> HIDE DEF i
<1>4. buf'[i] = name[1] /\ buf'[i + 1] = name[2]
  <2>1. buf'[i - 1 + 1] = name[1] /\ buf'[i - 1 + 2] = name[2] /\ 1 \in 1 .. 2 /\ 2 \in 1 .. 2
    BY <1>3
  <2>2. i - 1 + 1 = i /\ i - 1 + 2 = i + 1
    BY <1>2
  <2> QED
    BY <2>1, <2>2
<1>5. Head(name) = name[1]
  BY <1>1, HeadTailProperties, EmptySeq
<1>6. \E k \in DOMAIN buf :
        buf[k] = taken /\ buf'[k] # taken /\ \A j \in 1 .. k - 1 : buf'[j] = buf[j]
  <2>1. CASE name[1] # "%"
    <3>1. i \in DOMAIN buf /\ taken = "%"
      BY <1>1, <1>2, <1>5, <2>1, LenProperties
    <3> QED
      BY <1>2, <1>3, <1>4, <2>1, <3>1
  <2>2. CASE name[1] = "%"
    <3>1. PICK k : k = i + 1
      OBVIOUS
    <3>2. k \in DOMAIN buf /\ taken = "g" /\ buf[k] = "g" /\ buf'[k] = name[2]
      BY <1>1, <1>2, <1>4, <1>5, <2>2, <3>1, LenProperties
    <3>3. name[2] # "g"
      <4>1. SUFFICES ASSUME name[2] = "g"
                     PROVE  FALSE
        OBVIOUS
      <4>2. pattern \in Seq(STRING) /\ Len(pattern) = 2 /\ pattern[1] = "%" /\ pattern[2] = "g"
        <5>1. \A m \in 1 .. 2 : buf[i - 1 + m] \in STRING
          BY <1>1, <1>2, ElementOfSeq
        <5>2. 1 \in 1 .. 2 /\ 2 \in 1 .. 2 /\ i - 1 + 1 = i /\ i - 1 + 2 = i + 1
          BY <1>2
        <5>3. "%" \in STRING /\ "g" \in STRING
          BY <1>2, <5>1, <5>2
        <5> QED
          BY <5>3 DEF pattern
      <4>3. name = pattern
        BY <1>1, <2>2, <4>1, <4>2, SeqEqual
      <4> QED
        BY <4>3
    <3>4. \A j \in 1 .. k - 1 : buf'[j] = buf[j]
      <4>1. ASSUME NEW j \in 1 .. k - 1
            PROVE  j = i \/ j \in 1 .. i - 1
        BY <1>2, <3>1
      <4> QED
        BY <1>2, <1>3, <1>4, <2>2, <4>1
    <3> QED
      BY <3>2, <3>3, <3>4
  <2> QED
    BY <2>1, <2>2
<1>7. Len(buf') = Len(buf)
  BY <1>1, <1>3
<1>8. ~(Len(group.name) > 2) /\ ~(Len(group.name) < 2)
  OBVIOUS
<1> QED
  BY <1>6, <1>7, <1>8 DEF NameAdvances

LEMMA NameIsNearer ==
  ASSUME ProgramTypeOK, GroupInv, GroupInv', NameFile, group.name # pattern
  PROVE  ReportNearer
<1>1. /\ phase = "naming" /\ phase' \in {"naming", "writing"} /\ group' = group
      /\ buf' = (IF HasPattern(buf) THEN c_strreplace ELSE Becomes(buf)).name
      /\ phase' = "naming" => ~(IF HasPattern(buf) THEN c_strreplace ELSE Becomes(buf)).last
  BY DEF NameFile
<1>2. CASE phase' = "writing"
  BY <1>1, <1>2, PhasesLeftValues DEF ReportNearer
<1>3. CASE phase' = "naming"
  <2>1. HasPattern(buf) /\ buf' = ReplaceFirstSubSeq(group.name, pattern, buf)
    <3>1. HasPattern(buf)
      BY <1>1, <1>3 DEF Becomes
    <3> QED
      BY <1>1, <1>3, <3>1 DEF c_strreplace, Becomes
  <2>2. /\ buf \in Seq(STRING) /\ group.name \in Seq(STRING)
        /\ Len(buf) \in Nat /\ Len(group.name) \in Nat /\ Len(buf') < BufferSize
    BY LenProperties DEF GroupInv, GroupRecords
  <2>3. Len(buf') = Len(buf) - 2 + Len(group.name)
    BY <2>1, <2>2, ReplacementLength
  <2>4. CASE Len(group.name) = 2
    BY <1>1, <1>3, <2>1, <2>4, PairAdvances DEF ReportNearer
  <2>5. CASE Len(group.name) # 2
    <3>1. CASE Len(group.name) > 2
      <4>1. Len(buf) < Len(buf') /\ Len(buf') < BufferSize
        BY <2>2, <2>3, <3>1
      <4> QED
        BY <1>1, <1>3, <3>1, <4>1 DEF ReportNearer, NameAdvances
    <3>2. CASE Len(group.name) < 2
      <4>1. Len(buf') < Len(buf) /\ ~(Len(group.name) > 2)
        BY <2>2, <2>3, <3>2
      <4> QED
        BY <1>1, <1>3, <3>2, <4>1 DEF ReportNearer, NameAdvances
    <3>3. Len(group.name) > 2 \/ Len(group.name) < 2
      <4>1. PICK n : n = Len(group.name)
        OBVIOUS
      <4>2. n \in Nat /\ n # 2
        BY <2>2, <2>5, <4>1
      <4>3. n > 2 \/ n < 2
        BY <4>2
      <4> QED
        BY <4>1, <4>3
    <3> QED
      BY <3>1, <3>2, <3>3
  <2> QED
    BY <2>4, <2>5
<1> QED
  BY <1>1, <1>2, <1>3

\* Whatever the tests, the fixtures and the files do, and with any name of the group but
\* the pattern of the file's name, each step of a group is one nearer to its end: no chain
\* of replacements comes back to a name it had (cmprintf_group_finish_xml, c_strreplace).
THEOREM ReportAdvancesHolds == Spec => ReportAdvances
<1>1. ASSUME ProgramTypeOK, GroupInv, GroupInv', GroupStep, group.name # pattern
      PROVE  ReportNearer
  <2>1. CASE GroupSetup
    BY <2>1, PhasesLeftValues DEF GroupSetup, ReportNearer
  <2>2. ASSUME NEW status \in Statuses, RunTest(status)
        PROVE  ReportNearer
    <3>1. /\ phase = "tests" /\ phase' = phase
          /\ group' = [group EXCEPT !.statuses = Append(@, status), !.total = Counted(status)]
          /\ Len(group.statuses) + 1 <= Len(group.tests)
      BY <2>2 DEF RunTest
    <3>2. group \in GroupRecords /\ group.statuses \in Seq(Statuses)
      <4>1. group \in GroupRecords
        BY <1>1 DEF GroupInv
      <4> QED
        BY <4>1 DEF GroupRecords
    <3>3. group'.statuses = Append(group.statuses, status)
      BY <3>1, <3>2 DEF GroupRecords
    <3>4. Len(group'.statuses) = Len(group.statuses) + 1 /\ Len(group.statuses) \in Nat
      BY <3>2, <3>3, AppendProperties, LenProperties
    <3> QED
      BY <3>1, <3>4 DEF ReportNearer
  <2>3. ASSUME NEW torn \in BOOLEAN, FinishGroup(torn)
        PROVE  ReportNearer
    BY <2>3, PhasesLeftValues DEF FinishGroup, ReportNearer
  <2>4. CASE NameFile
    BY <1>1, <2>4, NameIsNearer
  <2>5. ASSUME NEW canWrite \in BOOLEAN, WriteReport(canWrite)
        PROVE  ReportNearer
    <3>1. phase = "writing" /\ phase' = "over"
      BY <2>5 DEF WriteReport
    <3> QED
      BY <3>1, PhasesLeftValues DEF ReportNearer
  <2>6. CASE Return
    BY <2>6, PhasesLeftValues DEF Return, ReportNearer
  <2> QED
    BY <1>1, <2>1, <2>2, <2>3, <2>4, <2>5, <2>6 DEF GroupStep
<1>2. ProgramTypeOK /\ GroupInv /\ GroupInv' /\ [Next]_vars
      => [GroupStep /\ group.name # pattern => ReportNearer]_vars
  BY <1>1
<1> QED
  BY <1>2, ProgramTypeInit, ProgramTypeStep, GroupInvInit, GroupInvStep, PTL
  DEF Spec, ReportAdvances
-----------------------------------------------------------------------------
(* The lines of a group.                                                   *)

Types == {"START", "SUCCESS", "SKIPPED", "FAILURE", "ERROR", "PLAN", "VERSION", "PASSED", "LISTED",
          "ALL OK", "NOT ALL OK"}

Lines == [type : Types, number : Nat]

\* The lines announce so many tests, give a verdict for so many, one after another, and
\* show so many failures and errors.
Tells(l, tests, verdicts, bad) ==
  /\ l \in Seq(Lines)
  /\ \A i \in DOMAIN l : l[i].type = "PLAN" => l[i].number = tests
  /\ VerdictNumbers(l) = [i \in 1 .. verdicts |-> i]
  /\ IsFiniteSet(BadPlaces(l)) /\ Cardinality(BadPlaces(l)) = bad

LEMMA LineNames ==
  /\ "START" \notin Verdicts /\ "PLAN" \notin Verdicts /\ "VERSION" \notin Verdicts
  /\ "PASSED" \notin Verdicts /\ "LISTED" \notin Verdicts /\ "ALL OK" \notin Verdicts
  /\ "NOT ALL OK" \notin Verdicts /\ "SUCCESS" \in Verdicts /\ "SKIPPED" \in Verdicts
  /\ "FAILURE" \in Verdicts /\ "ERROR" \in Verdicts
BY DEF Verdicts

LEMMA AddedLine ==
  ASSUME NEW l \in Seq(Lines), NEW x \in Lines
  PROVE  /\ l \o <<x>> \in Seq(Lines) /\ Len(l) \in Nat /\ Len(l \o <<x>>) = Len(l) + 1
         /\ \A i \in 1 .. Len(l) : (l \o <<x>>)[i] = l[i]
         /\ (l \o <<x>>)[Len(l) + 1] = x
         /\ l \o <<x>> = Append(l, x)
<1>1. Append(l, x) = l \o <<x>>
  BY AppendIsConcat
<1>2. Len(l) \in Nat
  BY LenProperties
<1> QED
  BY <1>1, <1>2, AppendProperties

\* No lines yet.
LEMMA NothingTold ==
  ASSUME NEW tests
  PROVE  Tells(<<>>, tests, 0, 0)
<1>1. VerdictNumbers(<<>>) = <<>>
  <2>1. [i \in DOMAIN <<>> |-> <<>>[i].number] = <<>>
    BY EmptySeq
  <2> QED
    BY <2>1, KeptOfNone DEF VerdictNumbers
<1>2. [i \in 1 .. 0 |-> i] = <<>>
  BY EmptySeq
<1>3. BadPlaces(<<>>) = {}
  BY EmptySeq DEF BadPlaces
<1> QED
  BY <1>1, <1>2, <1>3, EmptySeq, FS_EmptySet DEF Tells

LEMMA CountUp ==
  ASSUME NEW n \in Nat
  PROVE  Append([i \in 1 .. n |-> i], n + 1) = [i \in 1 .. n + 1 |-> i]
<1> DEFINE a == [i \in 1 .. n |-> i]
           b == [i \in 1 .. n + 1 |-> i]
<1>1. a \in Seq(Nat) /\ Len(a) = n /\ b \in Seq(Nat) /\ Len(b) = n + 1
  <2>1. a \in [1 .. n -> Nat] /\ b \in [1 .. n + 1 -> Nat] /\ n + 1 \in Nat
    OBVIOUS
  <2> QED
    BY <2>1, SeqDef, LenProperties
<1>2. /\ Append(a, n + 1) \in Seq(Nat) /\ Len(Append(a, n + 1)) = n + 1
      /\ \A i \in 1 .. n : Append(a, n + 1)[i] = a[i]
      /\ Append(a, n + 1)[n + 1] = n + 1
  BY <1>1, AppendProperties
<1>3. \A i \in 1 .. n + 1 : Append(a, n + 1)[i] = b[i]
  <2> SUFFICES ASSUME NEW i \in 1 .. n + 1 PROVE Append(a, n + 1)[i] = i
    OBVIOUS
  <2>1. i \in 1 .. n \/ i = n + 1
    OBVIOUS
  <2> QED
    BY <1>2, <2>1
<1> HIDE DEF a, b
<1> QED
  BY <1>1, <1>2, <1>3, SeqEqual DEF a, b

Numbers(l) == [i \in DOMAIN l |-> l[i].number]

Verdicted(x) == x.type \in Verdicts /\ x.number # 0

VerdictPlaces(l) == {i \in DOMAIN l : Verdicted(l[i])}

LEMMA NumbersAre ==
  ASSUME NEW l \in Seq(Lines)
  PROVE  /\ Numbers(l) \in Seq(Nat) /\ Len(Numbers(l)) = Len(l) /\ Len(l) \in Nat
         /\ \A i \in 1 .. Len(l) : l[i] \in Lines /\ l[i].number \in Nat /\ Numbers(l)[i] = l[i].number
         /\ VerdictNumbers(l) = Kept(Numbers(l), VerdictPlaces(l))
<1>1. \A i \in 1 .. Len(l) : l[i] \in Lines
  BY ElementOfSeq
<1>2. \A i \in 1 .. Len(l) : l[i].number \in Nat
  BY <1>1 DEF Lines
<1>3. Len(l) \in Nat /\ DOMAIN l = 1 .. Len(l)
  BY LenProperties
<1>4. Numbers(l) \in [1 .. Len(l) -> Nat]
  BY <1>2, <1>3 DEF Numbers
<1>5. Numbers(l) \in Seq(Nat) /\ Len(Numbers(l)) = Len(l)
  BY <1>3, <1>4, SeqDef, LenProperties
<1> QED
  BY <1>1, <1>2, <1>3, <1>5 DEF Numbers, VerdictNumbers, VerdictPlaces, Verdicted

\* One line more: a verdict for the next test, that of a fixture, or none.
LEMMA ToldMore ==
  ASSUME NEW tests, NEW n \in Nat, NEW m \in Nat, NEW bad \in Nat, NEW l, Tells(l, tests, n, bad),
         NEW x \in Lines, x.type = "PLAN" => x.number = tests,
         Verdicted(x) => x.number = n + 1 /\ m = n + 1,
         ~Verdicted(x) => m = n
  PROVE  Tells(l \o <<x>>, tests, m, IF x.type \in {"FAILURE", "ERROR"} THEN bad + 1 ELSE bad)
<1> DEFINE t == l \o <<x>>
<1>1. /\ l \in Seq(Lines) /\ Len(l) \in Nat
      /\ t \in Seq(Lines) /\ Len(t) = Len(l) + 1
      /\ \A i \in 1 .. Len(l) : t[i] = l[i]
      /\ t[Len(l) + 1] = x
  BY AddedLine DEF Tells
<1> HIDE DEF t
<1>2. /\ DOMAIN l = 1 .. Len(l) /\ DOMAIN t = 1 .. Len(t) /\ Len(l) + 1 \notin 1 .. Len(l)
      /\ DOMAIN t = (1 .. Len(l)) \cup {Len(l) + 1}
  BY <1>1, LenProperties
<1>3. \A i \in DOMAIN t : t[i].type = "PLAN" => t[i].number = tests
  BY <1>1, <1>2 DEF Tells
<1>4. VerdictNumbers(t) = [i \in 1 .. m |-> i]
  <2>1. Numbers(l) \in Seq(Nat) /\ Len(Numbers(l)) = Len(l)
    BY <1>1, NumbersAre
  <2>2. Numbers(t) = Append(Numbers(l), x.number)
    <3>0. x.number \in Nat
      BY DEF Lines
    <3>1. /\ Append(Numbers(l), x.number) \in Seq(Nat)
          /\ Len(Append(Numbers(l), x.number)) = Len(l) + 1
          /\ \A i \in 1 .. Len(l) : Append(Numbers(l), x.number)[i] = Numbers(l)[i]
          /\ Append(Numbers(l), x.number)[Len(l) + 1] = x.number
      BY <2>1, <3>0, AppendProperties
    <3>4. /\ Numbers(t) \in Seq(Nat) /\ Len(Numbers(t)) = Len(l) + 1
          /\ \A i \in 1 .. Len(l) + 1 : Numbers(t)[i] = t[i].number
          /\ \A i \in 1 .. Len(l) : Numbers(l)[i] = l[i].number
      BY <1>1, NumbersAre
    <3>5. \A i \in 1 .. Len(l) + 1 : Numbers(t)[i] = Append(Numbers(l), x.number)[i]
      <4> SUFFICES ASSUME NEW i \in 1 .. Len(l) + 1
                   PROVE  Numbers(t)[i] = Append(Numbers(l), x.number)[i]
        OBVIOUS
      <4>1. CASE i \in 1 .. Len(l)
        <5>1. Append(Numbers(l), x.number)[i] = Numbers(l)[i]
          BY <3>1, <4>1
        <5>2. Numbers(l)[i] = l[i].number
          BY <3>4, <4>1
        <5>3. l[i].number = t[i].number
          BY <1>1, <4>1
        <5>4. Numbers(t)[i] = t[i].number
          BY <3>4
        <5> QED
          BY <5>1, <5>2, <5>3, <5>4
      <4>2. CASE i = Len(l) + 1
        BY <1>1, <3>1, <3>4, <4>2
      <4>3. Len(l) \in Nat
        BY <1>1
      <4>4. i \in 1 .. Len(l) \/ i = Len(l) + 1
        BY <4>3
      <4> QED
        BY <4>1, <4>2, <4>4
    <3> QED
      BY <3>1, <3>4, <3>5, SeqEqual
  <2>3. \A i \in 1 .. Len(Numbers(l)) : i \in VerdictPlaces(l) <=> i \in VerdictPlaces(t)
    BY <1>1, <1>2, <2>1 DEF VerdictPlaces
  <2>4. Len(l) + 1 \in VerdictPlaces(t) <=> Verdicted(x)
    BY <1>1, <1>2 DEF VerdictPlaces
  <2>5. x.number \in Nat
    BY DEF Lines
  <2>6. Kept(Numbers(l), VerdictPlaces(l)) = [i \in 1 .. n |-> i]
    BY NumbersAre DEF Tells
  <2>7. VerdictNumbers(t) = Kept(Numbers(t), VerdictPlaces(t))
    BY <1>1, NumbersAre
  <2>8. Kept(Append(Numbers(l), x.number), VerdictPlaces(t)) =
          IF Len(Numbers(l)) + 1 \in VerdictPlaces(t)
          THEN Append(Kept(Numbers(l), VerdictPlaces(l)), x.number)
          ELSE Kept(Numbers(l), VerdictPlaces(l))
    <3>1. PICK s : s = Numbers(l)
      OBVIOUS
    <3>2. PICK p : p = VerdictPlaces(l)
      OBVIOUS
    <3>3. PICK q : q = VerdictPlaces(t)
      OBVIOUS
    <3>4. PICK y : y = x.number
      OBVIOUS
    <3>5. s \in Seq(Nat) /\ y \in Nat /\ \A i \in 1 .. Len(s) : i \in p <=> i \in q
      BY <2>1, <2>3, <2>5, <3>1, <3>2, <3>3, <3>4
    <3>6. Kept(Append(s, y), q) = IF Len(s) + 1 \in q THEN Append(Kept(s, p), y) ELSE Kept(s, p)
      BY <3>5, KeptAppend
    <3> QED
      BY <3>1, <3>2, <3>3, <3>4, <3>6
  <2>9. CASE Verdicted(x)
    BY <2>1, <2>2, <2>4, <2>6, <2>7, <2>8, <2>9, CountUp
  <2>10. CASE ~Verdicted(x)
    BY <2>1, <2>2, <2>4, <2>6, <2>7, <2>8, <2>10
  <2> QED
    BY <2>9, <2>10
<1>5. BadPlaces(t) = IF x.type \in {"FAILURE", "ERROR"} THEN BadPlaces(l) \cup {Len(l) + 1}
                     ELSE BadPlaces(l)
  BY <1>1, <1>2 DEF BadPlaces
<1>6. IsFiniteSet(BadPlaces(l)) /\ Cardinality(BadPlaces(l)) = bad /\ Len(l) + 1 \notin BadPlaces(l)
  BY <1>2 DEF Tells, BadPlaces
<1>7. /\ IsFiniteSet(BadPlaces(l) \cup {Len(l) + 1})
      /\ Cardinality(BadPlaces(l) \cup {Len(l) + 1}) = bad + 1
  BY <1>6, FS_AddElement
<1>8. IsFiniteSet(BadPlaces(t))
      /\ Cardinality(BadPlaces(t)) = IF x.type \in {"FAILURE", "ERROR"} THEN bad + 1 ELSE bad
  BY <1>5, <1>6, <1>7
<1> QED
  BY <1>1, <1>3, <1>4, <1>8 DEF Tells, t

\* Lines that say nothing of that.
Silent(x) == x.type \notin Verdicts \cup {"PLAN", "FAILURE", "ERROR"}

LEMMA ToldSilently ==
  ASSUME NEW tests, NEW n, NEW bad, NEW l, Tells(l, tests, n, bad),
         NEW more \in Seq(Lines), \A i \in 1 .. Len(more) : Silent(more[i])
  PROVE  Tells(l \o more, tests, n, bad)
<1> DEFINE t == l \o more
<1>1. /\ l \in Seq(Lines) /\ Len(l) \in Nat /\ Len(more) \in Nat
      /\ t \in Seq(Lines) /\ Len(t) = Len(l) + Len(more)
      /\ \A i \in 1 .. Len(l) + Len(more) : t[i] = IF i <= Len(l) THEN l[i] ELSE more[i - Len(l)]
  BY ConcatProperties, LenProperties DEF Tells
<1> HIDE DEF t
<1>2. /\ DOMAIN l = 1 .. Len(l) /\ DOMAIN t = 1 .. Len(t) /\ DOMAIN more = 1 .. Len(more)
      /\ \A i \in DOMAIN l : i \in DOMAIN t /\ t[i] = l[i]
      /\ \A i \in DOMAIN more : Len(l) + i \in DOMAIN t /\ t[Len(l) + i] = more[i]
      /\ \A i \in DOMAIN t : i \in DOMAIN l \/ (i - Len(l) \in DOMAIN more /\ t[i] = more[i - Len(l)])
  <2>1. DOMAIN l = 1 .. Len(l) /\ DOMAIN t = 1 .. Len(t) /\ DOMAIN more = 1 .. Len(more)
    BY <1>1, LenProperties
  <2>2. \A i \in 1 .. Len(l) : i \in 1 .. Len(t) /\ t[i] = l[i]
    BY <1>1
  <2>3. ASSUME NEW i \in 1 .. Len(more) PROVE Len(l) + i \in 1 .. Len(t) /\ t[Len(l) + i] = more[i]
    <3>1. Len(l) + i \in 1 .. Len(l) + Len(more) /\ ~(Len(l) + i <= Len(l)) /\ (Len(l) + i) - Len(l) = i
      BY <1>1
    <3> QED
      BY <1>1, <3>1
  <2>4. ASSUME NEW i \in 1 .. Len(t), i \notin 1 .. Len(l)
        PROVE  i - Len(l) \in 1 .. Len(more) /\ t[i] = more[i - Len(l)]
    BY <1>1, <2>4
  <2> QED
    BY <2>1, <2>2, <2>3, <2>4
<1>3. \A i \in DOMAIN t : t[i].type = "PLAN" => t[i].number = tests
  BY <1>2 DEF Tells, Silent
<1>4. BadPlaces(t) = BadPlaces(l)
  BY <1>2 DEF BadPlaces, Silent
<1>5. VerdictNumbers(t) = VerdictNumbers(l)
  <2>1. Numbers(l) \in Seq(Nat) /\ Len(Numbers(l)) = Len(l)
    BY <1>1, NumbersAre
  <2>2. Numbers(more) \in Seq(Nat) /\ Len(Numbers(more)) = Len(more)
    BY NumbersAre
  <2>3. Numbers(t) = Numbers(l) \o Numbers(more)
    <3>1. /\ Numbers(l) \o Numbers(more) \in Seq(Nat)
          /\ Len(Numbers(l) \o Numbers(more)) = Len(l) + Len(more)
          /\ \A i \in 1 .. Len(l) + Len(more) : (Numbers(l) \o Numbers(more))[i] =
               IF i <= Len(l) THEN Numbers(l)[i] ELSE Numbers(more)[i - Len(l)]
      <4>1. /\ Numbers(l) \o Numbers(more) \in Seq(Nat)
            /\ Len(Numbers(l) \o Numbers(more)) = Len(Numbers(l)) + Len(Numbers(more))
            /\ \A i \in 1 .. Len(Numbers(l)) + Len(Numbers(more)) : (Numbers(l) \o Numbers(more))[i] =
                 IF i <= Len(Numbers(l)) THEN Numbers(l)[i] ELSE Numbers(more)[i - Len(Numbers(l))]
        BY <2>1, <2>2, ConcatProperties
      <4> QED
        BY <2>1, <2>2, <4>1
    <3>4. /\ Numbers(t) \in Seq(Nat) /\ Len(Numbers(t)) = Len(l) + Len(more)
          /\ \A i \in 1 .. Len(l) + Len(more) : Numbers(t)[i] = t[i].number
          /\ \A i \in 1 .. Len(l) : Numbers(l)[i] = l[i].number
          /\ \A i \in 1 .. Len(more) : Numbers(more)[i] = more[i].number
      BY <1>1, NumbersAre
    <3>5. \A i \in 1 .. Len(l) + Len(more) : Numbers(t)[i] = (Numbers(l) \o Numbers(more))[i]
      <4> SUFFICES ASSUME NEW i \in 1 .. Len(l) + Len(more)
                   PROVE  Numbers(t)[i] = (Numbers(l) \o Numbers(more))[i]
        OBVIOUS
      <4>1. CASE i \in 1 .. Len(l)
        <5>1. i \in 1 .. Len(l) + Len(more) /\ i <= Len(l) /\ i \in DOMAIN l
          BY <1>1, <1>2, <4>1
        <5>2. Numbers(t)[i] = l[i].number
          BY <1>2, <3>4, <5>1
        <5> QED
          BY <3>1, <3>4, <4>1, <5>1, <5>2
      <4>2. CASE i \notin 1 .. Len(l)
        <5>1. ~(i <= Len(l)) /\ i - Len(l) \in DOMAIN more /\ t[i] = more[i - Len(l)] /\ i \in DOMAIN t
          BY <1>1, <1>2, <4>2
        <5>2. i - Len(l) \in 1 .. Len(more)
          BY <1>2, <5>1
        <5> QED
          BY <3>1, <3>4, <5>1, <5>2
      <4> QED
        BY <4>1, <4>2
    <3> QED
      BY <3>1, <3>4, <3>5, SeqEqual
  <2>4. \A i \in 1 .. Len(Numbers(l)) : i \in VerdictPlaces(l) <=> i \in VerdictPlaces(t)
    BY <1>2, <2>1 DEF VerdictPlaces
  <2>5. \A i \in 1 .. Len(Numbers(more)) : Len(Numbers(l)) + i \notin VerdictPlaces(t)
    <3> SUFFICES ASSUME NEW i \in 1 .. Len(more)
                 PROVE  Len(l) + i \notin VerdictPlaces(t)
      BY <2>1, <2>2
    <3>1. t[Len(l) + i] = more[i]
      BY <1>2
    <3>2. ~Verdicted(more[i])
      BY DEF Silent, Verdicted
    <3> QED
      BY <3>1, <3>2 DEF VerdictPlaces
  <2>6. /\ VerdictNumbers(t) = Kept(Numbers(t), VerdictPlaces(t))
        /\ VerdictNumbers(l) = Kept(Numbers(l), VerdictPlaces(l))
    BY <1>1, NumbersAre
  <2> QED
    <3>1. PICK a : a = Numbers(l)
      OBVIOUS
    <3>2. PICK b : b = Numbers(more)
      OBVIOUS
    <3>3. PICK p : p = VerdictPlaces(l)
      OBVIOUS
    <3>4. PICK q : q = VerdictPlaces(t)
      OBVIOUS
    <3>5. /\ a \in Seq(Nat) /\ b \in Seq(Nat)
          /\ \A i \in 1 .. Len(a) : i \in p <=> i \in q
          /\ \A i \in 1 .. Len(b) : Len(a) + i \notin q
      BY <2>1, <2>2, <2>4, <2>5, <3>1, <3>2, <3>3, <3>4
    <3>6. Kept(a \o b, q) = Kept(a, p)
      <4>1. \A s_1, t_1 \in Seq(Nat) : \A p_1, q_1 :
              (\A i \in 1 .. Len(s_1) : i \in p_1 <=> i \in q_1) =>
              ((\A i \in 1 .. Len(t_1) : Len(s_1) + i \notin q_1) =>
               Kept(s_1 \o t_1, q_1) = Kept(s_1, p_1))
        BY KeptConcat, Zenon
      <4>2. \A t_1 \in Seq(Nat) : \A p_1, q_1 :
              (\A i \in 1 .. Len(a) : i \in p_1 <=> i \in q_1) =>
              ((\A i \in 1 .. Len(t_1) : Len(a) + i \notin q_1) =>
               Kept(a \o t_1, q_1) = Kept(a, p_1))
        BY <3>5, <4>1, Zenon
      <4>3. (\A i \in 1 .. Len(a) : i \in p <=> i \in q) =>
              ((\A i \in 1 .. Len(b) : Len(a) + i \notin q) =>
               Kept(a \o b, q) = Kept(a, p))
        BY <3>5, <4>2, Zenon
      <4> QED
        BY <3>5, <4>3, Zenon
    <3> QED
      BY <2>3, <2>6, <3>1, <3>2, <3>3, <3>4, <3>6
<1> QED
  BY <1>1, <1>3, <1>4, <1>5 DEF Tells, t

LEMMA AddIs ==
  ASSUME NEW l, DOMAIN l = Formats, NEW f, NEW more, NEW g \in Formats
  PROVE  Add(f, more, l)[g] = IF g = f /\ f \in Output THEN l[g] \o more ELSE l[g]
BY DEF Add

LEMMA TextualIs == Textual = {"STANDARD", "SUBUNIT", "TAP"} /\ Textual \subseteq Formats
BY DEF Textual, Formats

\* What is printed of a test in a format that is on.
LEMMA PrintedIs ==
  ASSUME NEW l, DOMAIN l = Formats, NEW type, NEW number, NEW f \in Textual, f \in Output
  PROVE  cmprintf(type, number, l)[f] =
           IF type = "START" /\ f = "TAP" THEN l[f]
           ELSE l[f] \o <<[type |-> type, number |-> number]>>
<1> DEFINE line == <<[type |-> type, number |-> number]>>
           one == Add("SUBUNIT", line, l)
           both == Add("STANDARD", line, one)
           all == Add("TAP", line, both)
<1>1. /\ DOMAIN one = Formats /\ DOMAIN both = Formats /\ f \in Formats
      /\ f \in {"STANDARD", "SUBUNIT", "TAP"}
  BY AddKeepsFormats, TextualIs
<1>2. cmprintf(type, number, l) = IF type = "START" THEN both ELSE all
  BY DEF cmprintf
<1>3. one[f] = IF f = "SUBUNIT" THEN l[f] \o line ELSE l[f]
  BY <1>1, AddIs
<1> HIDE DEF one
<1>4. both[f] = IF f = "STANDARD" THEN one[f] \o line ELSE one[f]
  BY <1>1, AddIs
<1> HIDE DEF both
<1>5. all[f] = IF f = "TAP" THEN both[f] \o line ELSE both[f]
  BY <1>1, AddIs
<1> HIDE DEF all, line
<1>6. CASE f = "TAP"
  <2>1. both[f] = l[f] /\ all[f] = l[f] \o line
    BY <1>3, <1>4, <1>5, <1>6
  <2> QED
    BY <1>2, <1>6, <2>1 DEF line
<1>7. CASE f = "STANDARD"
  <2>1. both[f] = l[f] \o line /\ all[f] = l[f] \o line
    BY <1>3, <1>4, <1>5, <1>7
  <2> QED
    BY <1>2, <1>7, <2>1 DEF line
<1>8. CASE f = "SUBUNIT"
  <2>1. both[f] = l[f] \o line /\ all[f] = l[f] \o line
    BY <1>3, <1>4, <1>5, <1>8
  <2> QED
    BY <1>2, <1>8, <2>1 DEF line
<1> QED
  BY <1>1, <1>6, <1>7, <1>8

\* The lines of a group that has begun.
LEMMA StartTells ==
  ASSUME NEW n \in Nat, NEW f \in Textual, f \in Output
  PROVE  Tells(cmprintf_group_start(n, NoLines)[f], n, 0, 0)
<1> DEFINE x == [type |-> "PLAN", number |-> n]
           v == [type |-> "VERSION", number |-> 13]
           version == IF version_printed THEN <<>> ELSE <<v>>
           tap == Add("TAP", version \o <<x>>, NoLines)
<1>1. x \in Lines /\ v \in Lines /\ ~Verdicted(x) /\ ~Verdicted(v) /\ 0 \in Nat
      /\ x.type \notin {"FAILURE", "ERROR"} /\ v.type \notin {"FAILURE", "ERROR"}
      /\ v.type # "PLAN" /\ (x.type = "PLAN" => x.number = n)
  <2>1. x.type = "PLAN" /\ v.type = "VERSION" /\ x.number = n
    OBVIOUS
  <2>2. x \in Lines /\ v \in Lines
    BY DEF Lines, Types
  <2> HIDE DEF x, v
  <2> QED
    BY <2>1, <2>2, LineNames DEF Verdicted
<1> HIDE DEF x, v
<1>2. Tells(<<>>, n, 0, 0) /\ Tells(<<>> \o <<v>>, n, 0, 0) /\ Tells(<<>> \o <<x>>, n, 0, 0)
  BY <1>1, NothingTold, ToldMore
<1>3. <<>> \o <<x>> = <<x>> /\ <<>> \o <<v>> = <<v>>
  BY <1>1, ConcatEmptySeq
<1>4. Tells(version, n, 0, 0)
  BY <1>2, <1>3
<1> HIDE DEF version
<1>5. Tells(version \o <<x>>, n, 0, 0)
  BY <1>1, <1>4, ToldMore
<1>6. <<>> \o (version \o <<x>>) = version \o <<x>>
  BY <1>5, ConcatEmptySeq DEF Tells
<1>7. DOMAIN NoLines = Formats /\ \A g \in Formats : NoLines[g] = <<>>
  BY DEF NoLines
<1>8. /\ DOMAIN tap = Formats /\ f \in Formats
      /\ f \in {"STANDARD", "SUBUNIT", "TAP"}
  BY <1>7, AddKeepsFormats, TextualIs
<1>9. tap[f] = IF f = "TAP" THEN NoLines[f] \o (version \o <<x>>) ELSE NoLines[f]
  BY <1>7, <1>8, AddIs
<1> HIDE DEF tap
<1>10. cmprintf_group_start(n, NoLines) = Add("STANDARD", <<x>>, tap)
  BY DEF cmprintf_group_start, tap, version, v, x
<1>11. cmprintf_group_start(n, NoLines)[f] = IF f = "STANDARD" THEN tap[f] \o <<x>> ELSE tap[f]
  BY <1>8, <1>10, AddIs
<1> QED
  BY <1>2, <1>5, <1>6, <1>7, <1>8, <1>9, <1>11

\* The lines at the end of a group, and the last one of TAP.
LEMMA FinishTells ==
  ASSUME GroupInv, NEW l, DOMAIN l = Formats, NEW f \in Textual, f \in Output,
         NEW tests, NEW n, NEW bad, Tells(l[f], tests, n, bad)
  PROVE  /\ Tells(cmprintf_group_finish(l)[f], tests, n, bad)
         /\ f = "TAP" =>
              (Last(cmprintf_group_finish(l)[f]).type = "ALL OK" <=>
                 group.total["PASSED"] + group.total["SKIPPED"] = Len(group.statuses))
<1> DEFINE ok == group.total["PASSED"] + group.total["SKIPPED"] = Len(group.statuses)
           x == [type |-> IF ok THEN "ALL OK" ELSE "NOT ALL OK", number |-> 0]
           y == [type |-> "PASSED", number |-> group.total["PASSED"]]
           more == <<y>> \o Listed("SKIPPED") \o Listed("FAILED")
           tap == Add("TAP", <<x>>, l)
           all == Add("STANDARD", more, tap)
<1>1. /\ DOMAIN tap = Formats /\ f \in Formats
      /\ f \in {"STANDARD", "SUBUNIT", "TAP"}
  BY AddKeepsFormats, TextualIs
<1>2. cmprintf_group_finish(l) = all
  BY DEF cmprintf_group_finish
<1>3. tap[f] = IF f = "TAP" THEN l[f] \o <<x>> ELSE l[f]
  <2>1. PICK m : m = <<x>>
    OBVIOUS
  <2>2. Add("TAP", m, l)[f] = IF f = "TAP" /\ f \in Output THEN l[f] \o m ELSE l[f]
    <3> HIDE DEF tap, x, y, more, all
    <3> QED
      BY <1>1, AddIs
  <2>3. tap[f] = Add("TAP", m, l)[f]
    BY <2>1
  <2> HIDE DEF tap, x
  <2> QED
    BY <2>1, <2>2, <2>3
<1>4. all[f] = IF f = "STANDARD" THEN tap[f] \o more ELSE tap[f]
  <2>1. PICK m : m = more
    OBVIOUS
  <2> HIDE DEF tap, more
  <2>2. Add("STANDARD", m, tap)[f] = IF f = "STANDARD" /\ f \in Output THEN tap[f] \o m ELSE tap[f]
    BY <1>1, AddIs
  <2>3. all[f] = Add("STANDARD", m, tap)[f]
    BY <2>1
  <2> HIDE DEF all
  <2> QED
    BY <2>1, <2>2, <2>3
<1>5. /\ x \in Lines /\ y \in Lines /\ Silent(x) /\ Silent(y)
      /\ x.type = "ALL OK" <=> ok
  <2>1. group.total["PASSED"] \in Nat
    BY StatusNames DEF GroupInv, GroupRecords
  <2>2. x \in Lines /\ y \in Lines
    BY <2>1 DEF Lines, Types
  <2>3. y.type = "PASSED" /\ x.type = IF ok THEN "ALL OK" ELSE "NOT ALL OK"
    OBVIOUS
  <2>4. "ALL OK" # "NOT ALL OK"
    OBVIOUS
  <2> HIDE DEF x, y, ok
  <2>5. CASE ok
    BY <2>2, <2>3, <2>5 DEF Silent, Verdicts
  <2>6. CASE ~ok
    BY <2>2, <2>3, <2>4, <2>6 DEF Silent, Verdicts
  <2> QED
    BY <2>5, <2>6
<1> HIDE DEF tap, all, x, y, ok
<1>6. CASE f = "TAP"
  <2>1. all[f] = l[f] \o <<x>>
    BY <1>3, <1>4, <1>6
  <2>2. /\ Len(l[f]) \in Nat /\ Len(all[f]) = Len(l[f]) + 1 /\ all[f][Len(l[f]) + 1] = x
    <3>1. PICK s : s = l[f]
      OBVIOUS
    <3>2. s \in Seq(Lines)
      BY <3>1 DEF Tells
    <3>3. Len(s) \in Nat /\ Len(s \o <<x>>) = Len(s) + 1 /\ (s \o <<x>>)[Len(s) + 1] = x
      BY <1>5, <3>2, AddedLine
    <3> QED
      BY <2>1, <3>1, <3>3
  <2>3. Last(all[f]) = x
    BY <2>2 DEF Last
  <2>4. <<x>> \in Seq(Lines) /\ Len(<<x>>) = 1 /\ \A i \in 1 .. Len(<<x>>) : Silent(<<x>>[i])
    <3>1. PICK z : z = x
      OBVIOUS
    <3>2. z \in Lines /\ Silent(z)
      BY <1>5, <3>1
    <3>3. Len(<<z>>) = 1 /\ <<z>>[1] = z /\ <<z>> \in Seq(Lines)
      BY <3>2
    <3>4. \A i \in 1 .. 1 : i = 1
      OBVIOUS
    <3> QED
      BY <3>1, <3>2, <3>3, <3>4
  <2>5. Tells(l[f] \o <<x>>, tests, n, bad)
    BY <2>4, ToldSilently
  <2> QED
    BY <1>2, <1>5, <2>1, <2>3, <2>5 DEF ok
<1>7. CASE f = "STANDARD"
  <2>1. all[f] = l[f] \o more
    BY <1>3, <1>4, <1>7
  <2> DEFINE Quiet == {z \in Lines : Silent(z)}
  <2>2. \A status : Listed(status) \in Seq(Quiet)
    <3> TAKE status
    <3> DEFINE all_1 == [i \in DOMAIN group.statuses |-> [type |-> "LISTED", number |-> i]]
    <3>1. Len(group.statuses) \in Nat /\ DOMAIN group.statuses = 1 .. Len(group.statuses)
      BY LenProperties DEF GroupInv, GroupRecords
    <3>2. \A i \in 1 .. Len(group.statuses) : [type |-> "LISTED", number |-> i] \in Quiet
      <4> TAKE i \in 1 .. Len(group.statuses)
      <4>1. PICK z : z = [type |-> "LISTED", number |-> i]
        OBVIOUS
      <4>2. z \in Lines /\ z.type = "LISTED"
        BY <3>1, <4>1 DEF Lines, Types
      <4> QED
        BY <4>1, <4>2 DEF Silent, Verdicts
    <3>3. all_1 \in [1 .. Len(group.statuses) -> Quiet]
      BY <3>1, <3>2
    <3>4. all_1 \in Seq(Quiet)
      BY <3>1, <3>3, SeqDef
    <3> HIDE DEF all_1, Quiet
    <3>5. \A places : Kept(all_1, places) \in Seq(Quiet)
      BY <3>4, KeptType
    <3> QED
      BY <3>5 DEF Listed, all_1
  <2>3. y \in Quiet
    BY <1>5
  <2> DEFINE a == Listed("SKIPPED")
             b == Listed("FAILED")
  <2>4. more \in Seq(Quiet)
    <3>1. a \in Seq(Quiet) /\ b \in Seq(Quiet)
      BY <2>2
    <3> HIDE DEF Quiet, a, b
    <3>2. <<y>> \in Seq(Quiet)
      BY <2>3
    <3>3. <<y>> \o a \in Seq(Quiet)
      BY <3>1, <3>2, ConcatProperties
    <3>4. (<<y>> \o a) \o b \in Seq(Quiet)
      BY <3>1, <3>3, ConcatProperties
    <3> QED
      BY <3>4 DEF a, b
  <2> HIDE DEF more
  <2>5. \A i \in 1 .. Len(more) : more[i] \in Quiet
    <3> HIDE DEF Quiet
    <3> QED
      BY <2>4, ElementOfSeq
  <2>6. more \in Seq(Lines)
    <3>1. Quiet \subseteq Lines
      OBVIOUS
    <3> HIDE DEF Quiet
    <3> QED
      BY <2>4, <3>1, SeqMonotonic
  <2>7. Tells(l[f] \o more, tests, n, bad)
    BY <2>5, <2>6, ToldSilently
  <2> QED
    BY <1>2, <1>7, <2>1, <2>7
<1>8. CASE f = "SUBUNIT"
  BY <1>2, <1>3, <1>4, <1>8
<1> QED
  BY <1>1, <1>6, <1>7, <1>8

\* The inductive invariant behind the lines: those of each format that is on tell of the
\* tests that were run so far and of all that failed so far.
LinesInv ==
  phase \notin {"off", "idle"} =>
    /\ phase \in {"setup", "tests", "teardown"} => group.teardown
    /\ \A f \in global_msg_output \cap Textual :
         Tells(lines[f], Len(group.tests), Len(group.statuses),
               IF group.teardown THEN result ELSE result + 1)
    /\ phase \in {"naming", "writing", "over"} /\ "TAP" \in global_msg_output =>
         (Last(lines["TAP"]).type = "ALL OK" <=>
            group.total["PASSED"] + group.total["SKIPPED"] = Len(group.statuses))
    /\ phase = "over" /\ "XML" \in global_msg_output => lines["XML"] = <<Counters>>

\* The entries of suites are of groups that have begun, and the present group gets its
\* entry, only one, in the end.
SuitesInv ==
  /\ \A t \in Texts : \A x \in Range(t) : x.type = "SUITE" => x.group <= groups
  /\ phase \in {"setup", "tests", "teardown", "naming", "writing"} =>
       \A t \in Texts : \A x \in Range(t) : x.type = "SUITE" => x.group # groups
  /\ phase = "over" /\ "XML" \in global_msg_output =>
       \E t \in Texts : {u \in Texts : Suite \in Range(u)} = {t}

\* Within a group the formats are settled.
LEMMA OutputSettled ==
  ASSUME FormatsInv, phase \notin {"off", "idle"}
  PROVE  Output = global_msg_output
BY DEF FormatsInv, Output

LEMMA ResultIs ==
  ASSUME GroupInv
  PROVE  result \in Nat /\ Len(group.statuses) \in Nat /\ Len(group.tests) \in Nat
<1>1. group.total["FAILED"] \in Nat /\ group.total["ERROR"] \in Nat
  BY StatusNames DEF GroupInv, GroupRecords
<1>2. group.statuses \in Seq(Statuses) /\ group.tests \in Seq(Seq(STRING))
  BY DEF GroupInv, GroupRecords
<1> QED
  BY <1>1, <1>2, LenProperties DEF result

LEMMA BeginGroupLines ==
  ASSUME ProgramTypeOK, NEW g \in Groups, BeginGroup(g), GroupInv'
  PROVE  LinesInv'
<1>1. /\ phase' = "setup" /\ global_msg_output' = Output
      /\ lines' = cmprintf_group_start(Len(group'.tests), NoLines)
      /\ group' = [NoGroup EXCEPT !.name = g.name,
                                  !.tests = Selected(g.tests, test_filter, skip_filter)]
  BY DEF BeginGroup, cm_get_output
<1>2. group'.teardown = TRUE /\ group'.statuses = <<>> /\ group'.total = NoGroup.total
  BY <1>1 DEF NoGroup
<1>3. result' = 0
  BY <1>2, NoGroupIs, StatusNames DEF result
<1>4. Len(group'.statuses) = 0 /\ Len(group'.tests) \in Nat
  <2>1. group'.tests \in Seq(Seq(STRING))
    BY DEF GroupInv, GroupRecords
  <2> QED
    BY <1>2, <2>1, EmptySeq, LenProperties
<1>5. ASSUME NEW f \in global_msg_output' \cap Textual
      PROVE  Tells(lines'[f], Len(group'.tests), Len(group'.statuses), 0)
  BY <1>1, <1>4, StartTells
<1> QED
  BY <1>1, <1>2, <1>3, <1>5 DEF LinesInv

LEMMA SetupLines ==
  ASSUME ProgramTypeOK, FormatsInv, GroupInv, LinesInv, GroupSetup
  PROVE  LinesInv'
<1>1. phase = "setup" /\ global_msg_output' = global_msg_output /\ group.teardown
  BY DEF GroupSetup, LinesInv
<1>2. CASE phase' = "tests" /\ UNCHANGED <<group, lines>>
  <2>1. result' = result
    BY <1>2 DEF result
  <2> QED
    BY <1>1, <1>2, <2>1 DEF LinesInv
<1>3. CASE /\ phase' = "teardown"
           /\ group' = [group EXCEPT !.setup = FALSE, !.total["ERROR"] = @ + 1]
           /\ lines' = cmprintf("ERROR", 0, lines)
  <2>1. /\ group \in GroupRecords /\ group.total \in [Statuses -> Nat]
        /\ DOMAIN lines = Formats
    BY DEF GroupInv, GroupRecords, ProgramTypeOK
  <2>2. /\ group'.statuses = group.statuses /\ group'.tests = group.tests
        /\ group'.teardown = group.teardown
        /\ group'.total = [group.total EXCEPT !["ERROR"] = @ + 1]
    BY <1>3, <2>1 DEF GroupRecords
  <2>3. result' = result + 1 /\ result \in Nat /\ Len(group.statuses) \in Nat
    <3>1. group'.total["ERROR"] = group.total["ERROR"] + 1 /\ group'.total["FAILED"] = group.total["FAILED"]
      BY <2>1, <2>2, StatusNames
    <3>2. group.total["ERROR"] \in Nat /\ group.total["FAILED"] \in Nat
      BY <2>1, StatusNames
    <3> QED
      BY <3>1, <3>2, ResultIs DEF result
  <2>4. ASSUME NEW f \in global_msg_output \cap Textual
        PROVE  Tells(lines'[f], Len(group.tests), Len(group.statuses), result + 1)
    <3> DEFINE x == [type |-> "ERROR", number |-> 0]
    <3>1. f \in Output
      BY <1>1, OutputSettled
    <3>2. lines'[f] = lines[f] \o <<x>>
      BY <1>3, <2>1, <3>1, PrintedIs
    <3>3. Tells(lines[f], Len(group.tests), Len(group.statuses), result)
      BY <1>1 DEF LinesInv
    <3>4. x \in Lines /\ x.type = "ERROR" /\ ~Verdicted(x)
      BY DEF Lines, Types, Verdicted
    <3> HIDE DEF x
    <3> QED
      BY <2>3, <3>2, <3>3, <3>4, ToldMore
  <2> QED
    BY <1>1, <1>3, <2>2, <2>3, <2>4 DEF LinesInv
<1> QED
  BY <1>2, <1>3 DEF GroupSetup

LEMMA RunTestLines ==
  ASSUME ProgramTypeOK, FormatsInv, GroupInv, LinesInv, NEW status \in Statuses, RunTest(status)
  PROVE  LinesInv'
<1> DEFINE n == Len(group.statuses)
<1>1. /\ phase = "tests" /\ phase' = "tests" /\ global_msg_output' = global_msg_output
      /\ group.teardown
      /\ group' = [group EXCEPT !.statuses = Append(@, status), !.total = Counted(status)]
      /\ lines' = cmprintf(Verdict(status), n + 1, cmprintf("START", n + 1, lines))
  BY DEF RunTest, LinesInv
<1>2. /\ group \in GroupRecords /\ group.total \in [Statuses -> Nat]
      /\ group.statuses \in Seq(Statuses) /\ DOMAIN lines = Formats
  BY DEF GroupInv, GroupRecords, ProgramTypeOK
<1>3. /\ group'.statuses = Append(group.statuses, status) /\ group'.tests = group.tests
      /\ group'.teardown = group.teardown
      /\ group'.total = [group.total EXCEPT ![status] = @ + 1]
  BY <1>1, <1>2 DEF GroupRecords, Counted
<1>4. n \in Nat /\ n + 1 \in Nat /\ Len(group'.statuses) = n + 1 /\ result \in Nat
  BY <1>2, <1>3, AppendProperties, LenProperties, ResultIs
<1>5. result' = IF status \in {"FAILED", "ERROR"} THEN result + 1 ELSE result
  <2>1. /\ group'.total["ERROR"] = IF status = "ERROR" THEN group.total["ERROR"] + 1 ELSE group.total["ERROR"]
        /\ group'.total["FAILED"] =
             IF status = "FAILED" THEN group.total["FAILED"] + 1 ELSE group.total["FAILED"]
    BY <1>2, <1>3, StatusNames
  <2>2. group.total["ERROR"] \in Nat /\ group.total["FAILED"] \in Nat
    BY <1>2, StatusNames
  <2> QED
    BY <2>1, <2>2 DEF result
<1>6. /\ Verdict(status) \in Verdicts /\ Verdict(status) \in Types
      /\ Verdict(status) \notin {"START", "PLAN"}
      /\ Verdict(status) \in {"FAILURE", "ERROR"} <=> status \in {"FAILED", "ERROR"}
  BY DEF Verdict, Verdicts, Types, Statuses
<1>7. ASSUME NEW f \in global_msg_output \cap Textual
      PROVE  Tells(lines'[f], Len(group.tests), n + 1, result')
  <2> DEFINE x == [type |-> "START", number |-> n + 1]
             y == [type |-> Verdict(status), number |-> n + 1]
             started == cmprintf("START", n + 1, lines)
  <2>1. f \in Output
    BY <1>1, OutputSettled
  <2>2. Tells(lines[f], Len(group.tests), n, result)
    BY <1>1 DEF LinesInv
  <2>3. /\ x \in Lines /\ x.type = "START" /\ ~Verdicted(x)
        /\ y \in Lines /\ y.type = Verdict(status) /\ y.number = n + 1 /\ Verdicted(y)
    <3>1. x \in Lines /\ x.type = "START" /\ ~Verdicted(x)
      BY <1>4 DEF Lines, Types, Verdicted, Verdicts
    <3>2. PICK v : v = Verdict(status)
      OBVIOUS
    <3>3. y = [type |-> v, number |-> n + 1] /\ v \in Types /\ v \in Verdicts /\ n + 1 # 0
      BY <1>4, <1>6, <3>2
    <3> HIDE DEF x, y
    <3>4. y \in Lines /\ y.type = v /\ y.number = n + 1
      BY <1>4, <3>3 DEF Lines
    <3> QED
      BY <3>1, <3>2, <3>3, <3>4 DEF Verdicted
  <2>4. DOMAIN started = Formats
    BY <1>2, LinesKeepFormats
  <2>5. started[f] = IF f = "TAP" THEN lines[f] ELSE lines[f] \o <<x>>
    BY <1>2, <2>1, PrintedIs
  <2> HIDE DEF started
  <2>6. lines'[f] = started[f] \o <<y>>
    <3>1. PICK v : v = Verdict(status)
      OBVIOUS
    <3>2. PICK s : s = started
      OBVIOUS
    <3>3. PICK k : k = n + 1
      OBVIOUS
    <3>4. DOMAIN s = Formats /\ v # "START" /\ lines' = cmprintf(v, k, s)
      BY <1>1, <1>6, <2>4, <3>1, <3>2, <3>3 DEF started
    <3>5. cmprintf(v, k, s)[f] = s[f] \o <<[type |-> v, number |-> k]>>
      BY <2>1, <3>4, PrintedIs
    <3> QED
      BY <3>1, <3>2, <3>3, <3>4, <3>5
  <2> HIDE DEF x, y, n
  <2>7. Tells(lines[f] \o <<x>>, Len(group.tests), n, result)
    BY <1>4, <2>2, <2>3, ToldMore
  <2>8. Tells(started[f], Len(group.tests), n, result)
    BY <2>2, <2>5, <2>7
  <2>9. Tells(started[f] \o <<y>>, Len(group.tests), n + 1,
              IF y.type \in {"FAILURE", "ERROR"} THEN result + 1 ELSE result)
    BY <1>4, <1>6, <2>3, <2>8, ToldMore
  <2> QED
    BY <1>5, <1>6, <2>3, <2>6, <2>9
<1> QED
  BY <1>1, <1>3, <1>4, <1>7 DEF LinesInv

LEMMA FinishLines ==
  ASSUME ProgramTypeOK, FormatsInv, GroupInv, LinesInv, NEW torn \in BOOLEAN, FinishGroup(torn)
  PROVE  LinesInv'
<1> DEFINE l == IF torn THEN lines ELSE cmprintf("ERROR", 0, lines)
<1>1. /\ phase \in {"tests", "teardown"} /\ phase' \in {"over", "writing", "naming"}
      /\ phase' = "over" => "XML" \notin Output
      /\ global_msg_output' = global_msg_output /\ Output = global_msg_output
      /\ group.teardown /\ group' = [group EXCEPT !.teardown = torn]
      /\ lines' = cmprintf_group_finish(l)
  <2>1. phase \in {"tests", "teardown"}
    BY DEF FinishGroup
  <2> QED
    BY <2>1, OutputSettled DEF FinishGroup, LinesInv
<1>2. group \in GroupRecords /\ DOMAIN lines = Formats
  BY DEF GroupInv, ProgramTypeOK
<1>3. /\ group'.statuses = group.statuses /\ group'.tests = group.tests
      /\ group'.teardown = torn /\ group'.total = group.total
  BY <1>1, <1>2 DEF GroupRecords
<1>4. result' = result /\ result \in Nat /\ Len(group.statuses) \in Nat
  BY <1>3, ResultIs DEF result
<1>5. DOMAIN l = Formats
  BY <1>2, LinesKeepFormats
<1>6. ASSUME NEW f \in global_msg_output \cap Textual
      PROVE  Tells(l[f], Len(group.tests), Len(group.statuses), IF torn THEN result ELSE result + 1)
  <2>1. Tells(lines[f], Len(group.tests), Len(group.statuses), result)
    BY <1>1 DEF LinesInv
  <2>2. CASE torn
    BY <2>1, <2>2
  <2>3. CASE ~torn
    <3> DEFINE x == [type |-> "ERROR", number |-> 0]
    <3>1. l[f] = lines[f] \o <<x>>
      <4>1. cmprintf("ERROR", 0, lines)[f] = lines[f] \o <<x>>
        <5>1. f \in Textual /\ f \in Output /\ "ERROR" # "START"
          BY <1>1
        <5>2. DOMAIN lines = Formats
          BY <1>2
        <5>3. \A type, number : cmprintf(type, number, lines)[f] =
                IF type = "START" /\ f = "TAP" THEN lines[f]
                ELSE lines[f] \o <<[type |-> type, number |-> number]>>
          <6> HIDE DEF l, x
          <6> QED
            BY <5>1, <5>2, PrintedIs
        <5> QED
          BY <5>1, <5>3
      <4>2. l = cmprintf("ERROR", 0, lines)
        BY <2>3
      <4> QED
        BY <4>1, <4>2
    <3>2. x \in Lines /\ x.type = "ERROR" /\ ~Verdicted(x)
      BY DEF Lines, Types, Verdicted
    <3> HIDE DEF x, l
    <3> QED
      BY <1>4, <2>1, <2>3, <3>1, <3>2, ToldMore
  <2> QED
    BY <2>2, <2>3
<1> HIDE DEF l
<1>7. ASSUME NEW f \in global_msg_output \cap Textual
      PROVE  /\ Tells(lines'[f], Len(group.tests), Len(group.statuses),
                      IF torn THEN result ELSE result + 1)
             /\ f = "TAP" => (Last(lines'[f]).type = "ALL OK" <=>
                  group.total["PASSED"] + group.total["SKIPPED"] = Len(group.statuses))
  BY <1>1, <1>5, <1>6, FinishTells
<1>8. "TAP" \in Textual
  BY TextualIs
<1> QED
  BY <1>1, <1>3, <1>4, <1>7, <1>8 DEF LinesInv

LEMMA WriteLines ==
  ASSUME ProgramTypeOK, LinesInv, NEW canWrite \in BOOLEAN, WriteReport(canWrite)
  PROVE  LinesInv'
<1>1. /\ phase = "writing" /\ phase' = "over" /\ UNCHANGED <<group, global_msg_output>>
      /\ lines' = [lines EXCEPT !["XML"] = <<Counters>>]
      /\ DOMAIN lines = Formats
  BY DEF WriteReport, InGroup, ProgramTypeOK
<1>2. result' = result /\ Counters' = Counters
  BY <1>1 DEF result, Counters
<1>3. /\ "XML" \in Formats /\ "XML" \notin Textual /\ Textual \subseteq Formats
      /\ "TAP" # "XML" /\ "TAP" \in Formats
  BY DEF Formats, Textual
<1>4. lines'["XML"] = <<Counters>> /\ \A f \in Formats \ {"XML"} : lines'[f] = lines[f]
  BY <1>1, <1>3
<1>5. \A f \in Textual : lines'[f] = lines[f]
  BY <1>3, <1>4
<1> QED
  BY <1>1, <1>2, <1>3, <1>4, <1>5 DEF LinesInv

LEMMA LinesStep ==
  ASSUME ProgramTypeOK, FormatsInv, GroupInv, LinesInv, [Next]_vars, GroupInv'
  PROVE  LinesInv'
<1>1. CASE phase' \in {"off", "idle"}
  BY <1>1 DEF LinesInv
<1>2. ASSUME NEW g \in Groups, BeginGroup(g) PROVE LinesInv'
  BY <1>2, BeginGroupLines
<1>3. CASE GroupSetup
  BY <1>3, SetupLines
<1>4. ASSUME NEW status \in Statuses, RunTest(status) PROVE LinesInv'
  BY <1>4, RunTestLines
<1>5. ASSUME NEW torn \in BOOLEAN, FinishGroup(torn) PROVE LinesInv'
  BY <1>5, FinishLines
<1>6. CASE NameFile
  <2>1. phase = "naming" /\ phase' \in {"naming", "writing"} /\ UNCHANGED <<group, lines, global_msg_output>>
    BY <1>6 DEF NameFile
  <2> QED
    BY <2>1 DEF LinesInv, result
<1>7. ASSUME NEW canWrite \in BOOLEAN, WriteReport(canWrite) PROVE LinesInv'
  BY <1>7, WriteLines
<1>8. CASE UNCHANGED vars
  BY <1>8 DEF vars, LinesInv, result, Counters
<1>9. ASSUME NEW e \in Environments, StartProgram(e) PROVE phase' = "idle"
  BY <1>9 DEF StartProgram
<1>10. ASSUME NEW p \in Filters, cmocka_set_test_filter(p) \/ cmocka_set_skip_filter(p)
       PROVE  phase' = "idle"
  BY <1>10 DEF cmocka_set_test_filter, cmocka_set_skip_filter
<1>11. ASSUME NEW output \in Outputs, cmocka_set_message_output(output) PROVE phase' = "idle"
  BY <1>11 DEF cmocka_set_message_output
<1>12. ASSUME NEW name \in DOMAIN files, RemoveFile(name) PROVE phase' = "off"
  BY <1>12 DEF RemoveFile
<1>13. EndProgram \/ Return => phase' \in {"off", "idle"}
  BY DEF EndProgram, Return
<1> QED
  BY <1>1, <1>2, <1>3, <1>4, <1>5, <1>6, <1>7, <1>8, <1>9, <1>10, <1>11, <1>12, <1>13
  DEF Next, GroupStep

-----------------------------------------------------------------------------
(* The suites of the XML reports.                                          *)

Reporting == {"setup", "tests", "teardown", "naming", "writing"}

LEMMA SuitesInit == Init => SuitesInv
<1> SUFFICES ASSUME Init
             PROVE  SuitesInv
  OBVIOUS
<1>1. Texts = {<<>>}
  BY DEF Init, NoTexts, Texts, Range
<1>2. Range(<<>>) = {}
  BY EmptySeq DEF Range
<1> QED
  BY <1>1, <1>2 DEF Init, SuitesInv

\* No text appears, and the group is still at its tests or report.
LEMMA SuitesStay ==
  ASSUME SuitesInv, Texts' \subseteq Texts, UNCHANGED groups,
         \/ phase' \in {"off", "idle"}
         \/ phase \in Reporting /\ phase' \in Reporting
         \/ phase' = "over" /\ "XML" \notin global_msg_output'
         \/ UNCHANGED <<phase, process, global_msg_output, files, streams>>
  PROVE  SuitesInv'
BY DEF SuitesInv, Reporting, Suite, Texts

LEMMA SuiteEntries ==
  ASSUME HeadersInv, NEW t \in Texts, NEW x \in Range(t)
  PROVE  x \in Entries /\ (x.type = "SUITE" => x.group \in Nat)
<1>1. t \in Seq(Entries)
  BY DEF HeadersInv, IsText
<1>2. x \in Entries
  BY <1>1, RangeOfSeq
<1> QED
  BY <1>2 DEF Entries

LEMMA SuiteWritten ==
  ASSUME HeadersInv, SuitesInv, phase = "writing", phase' = "over", UNCHANGED <<process, groups>>,
         NEW old, old \in Texts \/ old = <<>>, NEW header \in BOOLEAN,
         NEW new, new = old \o (IF header THEN <<Header, Suite>> ELSE <<Suite>>),
         Texts' \subseteq Texts \cup {new}, new \in Texts'
  PROVE  SuitesInv'
<1> DEFINE more == IF header THEN <<Header, Suite>> ELSE <<Suite>>
<1>1. /\ Header \in Entries /\ Suite \in Entries /\ Header.type = "HEADER"
      /\ Suite.type = "SUITE" /\ Suite.group = groups /\ groups \in Nat
  BY DEF Header, Suite, Entries, HeadersInv
<1>2. more \in Seq(Entries) /\ Range(more) \subseteq {Header, Suite} /\ Suite \in Range(more)
  <2>1. CASE header
    <3>1. more = <<Header, Suite>>
      BY <2>1
    <3>2. <<Header, Suite>> \in Seq(Entries)
      BY <1>1
    <3>3. Range(<<Header, Suite>>) = {Header, Suite}
      BY DEF Range
    <3> QED
      BY <3>1, <3>2, <3>3
  <2>2. CASE ~header
    <3>1. more = <<Suite>>
      BY <2>2
    <3>2. <<Suite>> \in Seq(Entries)
      BY <1>1
    <3>3. Range(<<Suite>>) = {Suite}
      BY DEF Range
    <3> QED
      BY <3>1, <3>2, <3>3
  <2> QED
    BY <2>1, <2>2
<1>3. old \in Seq(Entries)
  BY EmptySeq DEF HeadersInv, IsText
<1>4. new = old \o more
  OBVIOUS
<1> HIDE DEF more
<1>5. Range(new) = Range(old) \cup Range(more)
  <2>1. PICK m : m = more
    OBVIOUS
  <2>2. Range(old \o m) = Range(old) \cup Range(m)
    BY <1>2, <1>3, <2>1, RangeConcatenation
  <2> QED
    BY <1>4, <2>1, <2>2
<1>6. /\ \A x \in Range(old) : x.type = "SUITE" => x.group <= groups
      /\ \A t \in Texts : Suite \notin Range(t)
  <2>1. Range(<<>>) = {}
    BY EmptySeq DEF Range
  <2> QED
    BY <1>1, <2>1 DEF SuitesInv
<1>7. \A t \in Texts' : \A x \in Range(t) : x.type = "SUITE" => x.group <= groups
  <2>1. \A x \in Range(new) : x.type = "SUITE" => x.group <= groups
    <3> SUFFICES ASSUME NEW x \in Range(new), x.type = "SUITE"
                 PROVE  x.group <= groups
      OBVIOUS
    <3>1. x \in Range(old) \/ x = Suite
      BY <1>1, <1>2, <1>5
    <3>2. Suite.group <= groups
      BY <1>1
    <3> QED
      BY <1>6, <3>1, <3>2
  <2> QED
    BY <2>1 DEF SuitesInv
<1>8. {u \in Texts' : Suite \in Range(u)} = {new}
  BY <1>2, <1>5, <1>6
<1>9. Suite' = Suite
  BY DEF Suite
<1> QED
  BY <1>7, <1>8, <1>9 DEF SuitesInv

LEMMA WriteSuites ==
  ASSUME HeadersInv, SuitesInv, NEW canWrite \in BOOLEAN, WriteReport(canWrite)
  PROVE  SuitesInv'
<1> DEFINE existed == buf \in DOMAIN files
           opened  == environment.file # Unset /\ canWrite /\ (existed => file_append)
           header  == ~(xml_printed \/ (opened /\ existed))
           more    == IF header THEN <<Header, Suite>> ELSE <<Suite>>
           stream  == IF environment.file = Unset THEN "stdout" ELSE "stderr"
<1>1. phase = "writing" /\ phase' = "over" /\ UNCHANGED <<process, groups>>
  BY DEF WriteReport, InGroup
<1>2. \E old, new : /\ old \in Texts \/ old = <<>>
                    /\ new = old \o more
                    /\ Texts' \subseteq Texts \cup {new} /\ new \in Texts'
  <2>1. CASE opened /\ existed
    <3> DEFINE new == files[buf] \o more
    <3>1. files' = [files EXCEPT ![buf] = new] /\ streams' = streams
      BY <2>1 DEF WriteReport
    <3>2. files[buf] \in Texts
      BY <2>1 DEF Texts, Range
    <3> HIDE DEF more, new
    <3>3. Range(files') \subseteq Range(files) \cup {new} /\ new \in Range(files')
      BY <2>1, <3>1 DEF Range
    <3>4. Texts' \subseteq Texts \cup {new} /\ new \in Texts'
      BY <3>1, <3>3 DEF Texts
    <3> QED
      BY <3>2, <3>4 DEF new
  <2>2. CASE opened /\ ~existed
    <3>1. /\ files' = [name \in DOMAIN files \cup {buf} |->
                        IF name # buf THEN files[name] ELSE more]
          /\ streams' = streams
      BY <2>2 DEF WriteReport
    <3>2. more = <<>> \o more
      OBVIOUS
    <3> HIDE DEF more
    <3>3. Range(files') = Range(files) \cup {more}
      BY <2>2, <3>1 DEF Range
    <3>4. Texts' \subseteq Texts \cup {more} /\ more \in Texts'
      BY <3>1, <3>3 DEF Texts
    <3> QED
      BY <3>2, <3>4
  <2>3. CASE ~opened
    <3> DEFINE new == streams[stream] \o more
    <3>1. /\ files' = files /\ streams' = [streams EXCEPT ![stream] = new]
          /\ stream \in DOMAIN streams
      BY <2>3 DEF WriteReport, HeadersInv
    <3>2. streams[stream] \in Texts
      BY <3>1 DEF Texts, Range
    <3> HIDE DEF more, new, stream
    <3>3. Range(streams') \subseteq Range(streams) \cup {new} /\ new \in Range(streams')
      BY <3>1 DEF Range
    <3>4. Texts' \subseteq Texts \cup {new} /\ new \in Texts'
      BY <3>1, <3>3 DEF Texts
    <3> QED
      BY <3>2, <3>4 DEF new
  <2> QED
    BY <2>1, <2>2, <2>3
<1> HIDE DEF header
<1>3. header \in BOOLEAN
  BY DEF header
<1> QED
  BY <1>1, <1>2, <1>3, SuiteWritten

LEMMA SuitesStep ==
  ASSUME FormatsInv, HeadersInv, SuitesInv, [Next]_vars
  PROVE  SuitesInv'
<1>1. ASSUME NEW e \in Environments, StartProgram(e) PROVE SuitesInv'
  <2>1. /\ phase' = "idle" /\ groups' = groups /\ files' = files /\ streams' = NoTexts
    BY <1>1 DEF StartProgram
  <2>2. Texts' = Range(files) \cup {<<>>} /\ Range(<<>>) = {}
    BY <2>1, EmptySeq DEF Texts, Range, NoTexts
  <2>3. \A t \in Texts' : t \in Texts \/ Range(t) = {}
    BY <2>2 DEF Texts
  <2> QED
    BY <2>1, <2>3 DEF SuitesInv
<1>2. CASE EndProgram
  BY <1>2, SuitesStay DEF EndProgram, Texts
<1>3. ASSUME NEW name \in DOMAIN files, RemoveFile(name) PROVE SuitesInv'
  <2>1. /\ UNCHANGED <<groups, streams>> /\ phase' = "off" /\ Range(files') \subseteq Range(files)
    BY <1>3 DEF RemoveFile, Range
  <2> QED
    BY <2>1, SuitesStay DEF Texts
<1>4. ASSUME NEW p \in Filters, cmocka_set_test_filter(p) \/ cmocka_set_skip_filter(p)
      PROVE  SuitesInv'
  <2>1. phase' = "idle" /\ UNCHANGED <<groups, streams, files>>
    BY <1>4 DEF cmocka_set_test_filter, cmocka_set_skip_filter
  <2> QED
    BY <2>1, SuitesStay DEF Texts
<1>5. ASSUME NEW output \in Outputs, cmocka_set_message_output(output) PROVE SuitesInv'
  <2>1. phase' = "idle" /\ UNCHANGED <<groups, streams, files>>
    BY <1>5 DEF cmocka_set_message_output
  <2> QED
    BY <2>1, SuitesStay DEF Texts
<1>6. ASSUME NEW g \in Groups, BeginGroup(g) PROVE SuitesInv'
  <2>1. phase' = "setup" /\ groups' = groups + 1 /\ UNCHANGED <<streams, files>> /\ groups \in Nat
    BY <1>6 DEF BeginGroup, HeadersInv
  <2>2. Texts' = Texts
    BY <2>1 DEF Texts
  <2>3. ASSUME NEW t \in Texts, NEW x \in Range(t), x.type = "SUITE"
        PROVE  x.group <= groups + 1 /\ x.group # groups + 1
    <3>1. x.group \in Nat /\ x.group <= groups
      BY <2>3, SuiteEntries DEF SuitesInv
    <3> QED
      BY <2>1, <3>1
  <2> QED
    BY <2>1, <2>2, <2>3 DEF SuitesInv
<1>7. CASE GroupSetup \/ (\E status \in Statuses : RunTest(status))
             \/ (\E torn \in BOOLEAN : FinishGroup(torn)) \/ NameFile \/ Return
  <2>1. UNCHANGED <<groups, streams, files, global_msg_output>>
    BY <1>7 DEF GroupSetup, RunTest, FinishGroup, NameFile, Return
  <2>2. Texts' = Texts
    BY <2>1 DEF Texts
  <2>3. \/ phase' \in {"off", "idle"}
        \/ phase \in Reporting /\ phase' \in Reporting
        \/ phase' = "over" /\ "XML" \notin global_msg_output'
    <3>1. CASE GroupSetup
      BY <3>1 DEF GroupSetup, Reporting
    <3>2. ASSUME NEW status \in Statuses, RunTest(status)
          PROVE  phase \in Reporting /\ phase' \in Reporting
      BY <3>2 DEF RunTest, Reporting
    <3>3. ASSUME NEW torn \in BOOLEAN, FinishGroup(torn)
          PROVE  \/ phase \in Reporting /\ phase' \in Reporting
                 \/ phase' = "over" /\ "XML" \notin global_msg_output'
      <4>1. phase \in {"tests", "teardown"}
        BY <3>3 DEF FinishGroup
      <4>2. Output = global_msg_output
        BY <4>1, OutputSettled
      <4> QED
        BY <2>1, <3>3, <4>1, <4>2 DEF FinishGroup, Reporting
    <3>4. CASE NameFile
      BY <3>4 DEF NameFile, Reporting
    <3>5. CASE Return
      BY <3>5 DEF Return
    <3> QED
      BY <1>7, <3>1, <3>2, <3>3, <3>4, <3>5
  <2> QED
    BY <2>1, <2>2, <2>3, SuitesStay
<1>8. ASSUME NEW canWrite \in BOOLEAN, WriteReport(canWrite) PROVE SuitesInv'
  BY <1>8, WriteSuites
<1>9. CASE UNCHANGED vars
  BY <1>9, SuitesStay DEF vars, Texts
<1> QED
  BY <1>1, <1>2, <1>3, <1>4, <1>5, <1>6, <1>7, <1>8, <1>9 DEF Next, GroupStep

\* The report agrees with the counters.
LEMMA AgreesAtTheEnd ==
  ASSUME GroupInv, PassedCounted, LinesInv, SuitesInv
  PROVE  ReportsAgree
<1> SUFFICES ASSUME phase = "over"
             PROVE  ReportsAgree
  BY DEF ReportsAgree
<1> DEFINE P == group.total["PASSED"]
           S == group.total["SKIPPED"]
           F == group.total["FAILED"]
           E == group.total["ERROR"]
           n == Len(group.statuses)
<1>1. P \in Nat /\ S \in Nat /\ F \in Nat /\ E \in Nat /\ n \in Nat
  <2>1. group.total \in [Statuses -> Nat]
    BY DEF GroupInv, GroupRecords
  <2> QED
    BY <2>1, ResultIs, StatusNames
<1>2. /\ group.setup \in BOOLEAN
      /\ group.setup => P + S + F + E = n + 0 /\ n = Len(group.tests)
      /\ ~group.setup => P + S + F + E = n + 1 /\ n = 0
  <2>1. group.setup \in BOOLEAN
    BY DEF GroupInv, GroupRecords
  <2>2. CASE group.setup
    BY <2>2 DEF GroupInv
  <2>3. CASE ~group.setup
    <3>1. group.statuses = <<>>
      BY <2>3 DEF GroupInv
    <3>2. n = 0
      BY <3>1, EmptySeq
    <3>3. P + S + F + E = n + 1
      BY <2>3 DEF GroupInv
    <3>4. group.setup \in BOOLEAN
      BY <2>1
    <3> HIDE DEF P, S, F, E, n
    <3> QED
      BY <2>3, <3>2, <3>3, <3>4, Zenon
  <2> QED
    BY <2>1, <2>2, <2>3
<1>3. result = F + E
  BY DEF result
<1>4. P = Cardinality({i \in DOMAIN group.statuses : group.statuses[i] = "PASSED"})
  BY DEF PassedCounted, PassedPlaces
<1> HIDE DEF P, S, F, E, n
<1>5. ASSUME NEW f \in global_msg_output \cap Textual
      PROVE  /\ \A i \in DOMAIN lines[f] : lines[f][i].type = "PLAN" => lines[f][i].number = Len(group.tests)
             /\ VerdictNumbers(lines[f]) =
                  IF group.setup THEN [i \in 1 .. Len(group.tests) |-> i] ELSE <<>>
             /\ Cardinality(BadPlaces(lines[f])) = IF group.teardown THEN result ELSE result + 1
             /\ f = "TAP" /\ group.setup => (Last(lines[f]).type = "ALL OK" <=> result = 0)
  <2>1. Tells(lines[f], Len(group.tests), n, IF group.teardown THEN result ELSE result + 1)
    BY DEF LinesInv, n
  <2>2. [i \in 1 .. 0 |-> i] = <<>>
    BY EmptySeq
  <2>3. VerdictNumbers(lines[f]) = IF group.setup THEN [i \in 1 .. Len(group.tests) |-> i] ELSE <<>>
    BY <1>2, <2>1, <2>2 DEF Tells
  <2>4. ASSUME f = "TAP", group.setup
        PROVE  Last(lines[f]).type = "ALL OK" <=> result = 0
    <3>1. Last(lines[f]).type = "ALL OK" <=> P + S = n
      BY <2>4 DEF LinesInv, P, S, n
    <3>2. P + S + F + E = n
      BY <1>1, <1>2, <2>4
    <3>3. P + S = n <=> F + E = 0
      BY <1>1, <3>2
    <3> QED
      BY <1>3, <3>1, <3>3
  <2> QED
    BY <2>1, <2>3, <2>4 DEF Tells
<1>6. ASSUME "XML" \in global_msg_output
      PROVE  /\ \E x \in Range(lines["XML"]) :
                  /\ x.failures + x.errors = result
                  /\ x.tests = Cardinality({i \in DOMAIN group.statuses : group.statuses[i] = "PASSED"})
                                 + x.skipped + result - (IF group.setup THEN 0 ELSE 1)
             /\ Cardinality({t \in Range(files) \cup Range(streams) : Suite \in Range(t)}) = 1
  <2>1. lines["XML"] = <<Counters>>
    BY <1>6 DEF LinesInv
  <2>2. Counters \in Range(lines["XML"])
    BY <2>1 DEF Range
  <2>3. /\ Counters.failures = F /\ Counters.errors = E /\ Counters.skipped = S
        /\ Counters.tests = n
    BY DEF Counters, F, E, S, n
  <2>4. n = P + S + result - (IF group.setup THEN 0 ELSE 1)
    <3>1. CASE group.setup
      BY <1>1, <1>2, <1>3, <3>1
    <3>2. CASE ~group.setup
      BY <1>1, <1>2, <1>3, <3>2
    <3> QED
      BY <3>1, <3>2
  <2>5. PICK t : {u \in Texts : Suite \in Range(u)} = {t}
    BY <1>6 DEF SuitesInv
  <2>6. Cardinality({t}) = 1
    BY FS_Singleton
  <2> QED
    BY <1>3, <1>4, <2>2, <2>3, <2>4, <2>5, <2>6 DEF Texts
<1> QED
  BY <1>5, <1>6 DEF ReportsAgree

\* When a group is over, every format that was on says the same of it, and it is what the
\* group returns, for any tests, endings of them, formats and files (cmprintf,
\* cmprintf_group_start, cmprintf_group_finish, cmocka_run_group_tests).
THEOREM ReportsAgreeHolds == Spec => []ReportsAgree
<1>1. Init => HeadersInv
  BY HeadersInit
<1>2. Init => LinesInv
  BY DEF Init, LinesInv
<1> DEFINE Inv == /\ ProgramTypeOK /\ FormatsInv /\ GroupInv /\ PassedCounted
                  /\ HeadersInv /\ LinesInv /\ SuitesInv
<1>3. Inv /\ [Next]_vars => Inv'
  BY ProgramTypeStep, FormatsStep, GroupInvStep, HeadersStep, LinesStep, SuitesStep
<1> QED
  BY <1>1, <1>2, <1>3, AgreesAtTheEnd, ProgramTypeInit, FormatsInit, GroupInvInit, SuitesInit, PTL
  DEF Spec
=============================================================================
