--------------------------- MODULE MockTest_proofs ---------------------------
(***************************************************************************)
(* The queues and refcounts of cmocka.c implement the contract of its      *)
(* documentation, for all functions, parameters, values and counts.        *)
(***************************************************************************)
EXTENDS MockTest, Expectations_proofs

-----------------------------------------------------------------------------
(* Types.                                                                  *)

Entries == [what : Declarations, served : Nat]

\* Every declaration has a number for a count.
LEMMA DeclarationCounts == \A d \in Declarations : d.count \in Int
BY CountsAssumption
DEF Declarations, ResultDeclarations, CheckDeclarations, CallDeclarations

\* Noting a declaration or a use leaves a ledger.
LEMMA LedgerKeepsType ==
  ASSUME NEW led \in Seq(Entries)
  PROVE  /\ Len(led) \in Nat
         /\ \A d \in Declarations :
              Append(led, [what |-> d, served |-> 0]) \in Seq(Entries)
         /\ \A l \in 1 .. Len(led) :
              [led EXCEPT ![l].served = @ + 1] \in Seq(Entries)
<1>1. \A d \in Declarations : [what |-> d, served |-> 0] \in Entries
  BY DEF Entries
<1>2. ASSUME NEW l \in 1 .. Len(led)
      PROVE  [led EXCEPT ![l].served = @ + 1] \in Seq(Entries)
  <2> DEFINE e == [led[l] EXCEPT !.served = @ + 1]
  <2>1. led[l] \in Entries
    BY ElementOfSeq
  <2>2. e \in Entries
    BY <2>1 DEF Entries
  <2>3. [led EXCEPT ![l].served = @ + 1] = [led EXCEPT ![l] = e]
    OBVIOUS
  <2> QED
    BY <2>2, <2>3, ExceptSeq
<1> QED
  BY <1>1, <1>2, LenProperties, AppendProperties

\* Where a declaration is noted in the ledger is one of the locations.
LEMMA HereIsALocation ==
  ASSUME TypeOK, Here <= MaxDeclarations
  PROVE  Here \in Locations
<1>1. Len(ledger) \in Nat
  BY LenProperties DEF TypeOK
<1> QED
  BY <1>1, BoundsAssumption DEF Here

\* At first all stores are empty.
LEMMA TypeInit == Init => TypeOK
BY EmptySeq DEF Init, InitializeTesting, TypeOK, ExpectationsTypeOK

\* What a declaration does to ledger, test and refusal.
LEMMA DeclarationsKeepTypes ==
  ASSUME TypeOK, NEW d \in Declarations, NEW fails \in BOOLEAN, Declare(d, fails)
  PROVE  /\ ledger' \in Seq(Entries)
         /\ test' \in {"running", "rejected"}
         /\ refused' \subseteq Declarations \cup Uses
BY LedgerKeepsType DEF TypeOK, Entries, Declare, Exits

\* What a use does to ledger, test and refusal.
LEMMA UsesKeepTypes ==
  ASSUME NEW q, NEW u \in Uses, NEW fails \in BOOLEAN, Serve(q, u, fails),
         ledger \in Seq(Entries), SymbolFound(q) => q[1].location \in 1 .. Len(ledger)
  PROVE  /\ ledger' \in Seq(Entries)
         /\ test' \in {"running", "rejected"}
         /\ refused' \subseteq Declarations \cup Uses
BY LedgerKeepsType DEF Serve, Exits
-----------------------------------------------------------------------------
(* The link between a queue and the ledger: the queue lists the entries of *)
(* some places P of the ledger that are not exhausted, in their order, each *)
(* with the uses it has left.                                              *)
Lists(q, P, led) ==
  /\ \A i \in 1 .. Len(q) :
       /\ q[i].location \in P
       /\ ~Contract!Exhausted(led[q[i].location])
       /\ q[i].refcount = Left(led[q[i].location])
  /\ \A i, j \in 1 .. Len(q) : i < j => q[i].location < q[j].location
  /\ \A l \in P : Contract!Exhausted(led[l]) \/ \E i \in 1 .. Len(q) : q[i].location = l

\* No entry is used more often than it allows, and only a check is declared for no use.
InBounds(e) ==
  /\ e.what.count > 0 => e.served <= e.what.count
  /\ e.what.count = 0 => e.what.kind = "parameter"

Places(kind, key, led) ==
  {l \in 1 .. Len(led) : led[l].what.kind = kind /\ led[l].what.key = key}

CallPlaces(led) == {l \in 1 .. Len(led) : led[l].what.kind = "call"}

\* A new entry goes to the end of its queue.
LEMMA DeclaredLast ==
  ASSUME NEW led \in Seq(Entries), NEW P \in SUBSET (1 .. Len(led)), NEW d \in Declarations,
         NEW S, NEW q \in Seq(S), NEW e \in S, Lists(q, P, led),
         e.location = Len(led) + 1, e.refcount = d.count
  PROVE  Lists(Append(q, e), P \cup {Len(led) + 1}, Append(led, [what |-> d, served |-> 0]))
<1> DEFINE new == Append(led, [what |-> d, served |-> 0])
           n == Len(led) + 1
           r == Append(q, e)
<1>1. /\ Len(led) \in Nat
      /\ \A l \in 1 .. Len(led) : new[l] = led[l]
      /\ new[n] = [what |-> d, served |-> 0]
  BY LenProperties, AppendProperties
<1>2. /\ Len(q) \in Nat
      /\ Len(r) = Len(q) + 1
      /\ \A i \in 1 .. Len(q) : r[i] = q[i]
      /\ r[Len(q) + 1] = e
  BY LenProperties, AppendProperties
<1>3. ~Contract!Exhausted(new[n]) /\ Left(new[n]) = d.count
  BY <1>1, DeclarationCounts DEF Contract!Exhausted, Left
<1> HIDE DEF new, r
<1>4. \A i \in 1 .. Len(r) : IF i = Len(q) + 1 THEN r[i] = e ELSE i \in 1 .. Len(q) /\ r[i] = q[i]
  BY <1>2
<1>5. \A l \in P : l \in 1 .. Len(led) /\ new[l] = led[l]
  BY <1>1
<1>6. \A i \in 1 .. Len(r) :
        /\ r[i].location \in P \cup {n}
        /\ ~Contract!Exhausted(new[r[i].location])
        /\ r[i].refcount = Left(new[r[i].location])
  <2> SUFFICES ASSUME NEW i \in 1 .. Len(r)
               PROVE  /\ r[i].location \in P \cup {n}
                      /\ ~Contract!Exhausted(new[r[i].location])
                      /\ r[i].refcount = Left(new[r[i].location])
    OBVIOUS
  <2>1. CASE i = Len(q) + 1
    BY <1>3, <1>4, <2>1
  <2>2. CASE i # Len(q) + 1
    <3>1. i \in 1 .. Len(q) /\ r[i] = q[i]
      BY <1>4, <2>2
    <3>2. /\ q[i].location \in P /\ ~Contract!Exhausted(led[q[i].location])
          /\ q[i].refcount = Left(led[q[i].location])
      BY <3>1 DEF Lists
    <3>3. new[q[i].location] = led[q[i].location]
      BY <1>5, <3>2
    <3> QED
      BY <3>1, <3>2, <3>3
  <2> QED
    BY <2>1, <2>2
<1>7. ASSUME NEW i \in 1 .. Len(r), NEW j \in 1 .. Len(r), i < j
      PROVE  r[i].location < r[j].location
  <2>0. i \in 1 .. Len(q) /\ i # Len(q) + 1
    BY <1>2, <1>7
  <2>1. i \in 1 .. Len(q) /\ r[i] = q[i] /\ q[i].location \in 1 .. Len(led)
    BY <1>2, <1>5, <2>0 DEF Lists
  <2>2. CASE j = Len(q) + 1
    BY <1>1, <1>4, <2>1, <2>2
  <2>3. CASE j # Len(q) + 1
    BY <1>4, <1>7, <2>1, <2>3 DEF Lists
  <2> QED
    BY <2>2, <2>3
<1>8. ASSUME NEW l \in P \cup {n}
      PROVE  Contract!Exhausted(new[l]) \/ \E i \in 1 .. Len(r) : r[i].location = l
  <2>1. CASE l = n
    BY <1>2, <2>1
  <2>2. CASE l \in P
    <3>1. Contract!Exhausted(led[l]) \/ \E i \in 1 .. Len(q) : q[i].location = l
      BY <2>2 DEF Lists
    <3> QED
      BY <1>2, <1>5, <2>2, <3>1
  <2> QED
    BY <2>1, <2>2
<1> QED
  BY <1>6, <1>7, <1>8 DEF Lists, new, r

\* What happens at other places of the ledger does not concern a queue.
LEMMA OthersStay ==
  ASSUME NEW led, NEW new, NEW P, NEW q, Lists(q, P, led), \A l \in P : new[l] = led[l]
  PROVE  Lists(q, P, new)
BY DEF Lists

\* What is left of an entry after one more use.
LEMMA OneUse ==
  ASSUME NEW e \in Entries, InBounds(e), ~Contract!Exhausted(e), e.what.count # 0,
         NEW more, more = [e EXCEPT !.served = @ + 1]
  PROVE  /\ more.what = e.what /\ more.served = e.served + 1
         /\ InBounds(more)
         /\ Left(e) # 0
         /\ Left(e) = 1 <=> Contract!Exhausted(more)
         /\ Left(e) # 1 => Left(more) = Spent(Left(e))
<1>1. e.what.count \in Int /\ e.served \in Nat
  BY DeclarationCounts DEF Entries
<1>2. more.what = e.what /\ more.served = e.served + 1
  BY DEF Entries
<1> QED
  BY <1>1, <1>2 DEF Left, Always, Maybe, Spent, Contract!Exhausted, InBounds

\* A use only changes the number of uses of its entry.
LEMMA UseIsNoted ==
  ASSUME NEW led \in Seq(Entries), NEW l \in 1 .. Len(led)
  PROVE  /\ Len([led EXCEPT ![l].served = @ + 1]) = Len(led)
         /\ [led EXCEPT ![l].served = @ + 1][l] = [led[l] EXCEPT !.served = @ + 1]
         /\ \A m \in 1 .. Len(led) : m # l => [led EXCEPT ![l].served = @ + 1][m] = led[m]
<1>1. DOMAIN led = 1 .. Len(led) /\ led \in [1 .. Len(led) -> Entries]
  BY LenProperties
<1>2. DOMAIN [led EXCEPT ![l].served = @ + 1] = 1 .. Len(led)
  BY <1>1
<1>3. [led EXCEPT ![l].served = @ + 1] \in Seq(Entries)
  BY LedgerKeepsType
<1> QED
  BY <1>1, <1>2, <1>3, LenProperties

\* The i-th entry of a queue is used.
LEMMA UsedOnce ==
  ASSUME NEW led \in Seq(Entries), NEW P \in SUBSET (1 .. Len(led)), NEW q, NEW r,
         Len(q) \in Nat, Lists(q, P, led), NEW i \in 1 .. Len(q),
         q[i].refcount # 0, InBounds(led[q[i].location]),
         IF q[i].refcount = 1
         THEN /\ Len(r) = Len(q) - 1
              /\ \A j \in 1 .. Len(q) - 1 : r[j] = IF j < i THEN q[j] ELSE q[j + 1]
         ELSE /\ Len(r) = Len(q)
              /\ \A j \in 1 .. Len(q) :
                   /\ r[j].location = q[j].location
                   /\ r[j].refcount = IF j = i THEN Spent(q[j].refcount) ELSE q[j].refcount
  PROVE  Lists(r, P, [led EXCEPT ![q[i].location].served = @ + 1])
<1> DEFINE at == q[i].location
           new == [led EXCEPT ![at].served = @ + 1]
<1>1. at \in P /\ at \in 1 .. Len(led) /\ led[at] \in Entries
  BY ElementOfSeq DEF Lists
<1>2. led[at].what.count # 0
  BY <1>1, DeclarationCounts DEF Lists, Left, Always, Maybe, Entries
<1>3. /\ new[at] = [led[at] EXCEPT !.served = @ + 1]
      /\ \A l \in 1 .. Len(led) : l # at => new[l] = led[l]
  <2> HIDE DEF at
  <2> QED
    BY <1>1, UseIsNoted
<1>4. /\ q[i].refcount = 1 <=> Contract!Exhausted(new[at])
      /\ q[i].refcount # 1 => Left(new[at]) = Spent(q[i].refcount)
  <2>1. q[i].refcount = Left(led[at]) /\ ~Contract!Exhausted(led[at])
    BY DEF Lists
  <2> QED
    BY <1>1, <1>2, <1>3, <2>1, OneUse
<1>5. \A j \in 1 .. Len(q) : j # i => q[j].location # at /\ new[q[j].location] = led[q[j].location]
  BY <1>1, <1>3 DEF Lists
<1> HIDE DEF new, at
<1>6. CASE q[i].refcount = 1
  <2>1. /\ Len(r) = Len(q) - 1
        /\ \A j \in 1 .. Len(r) : \E k \in 1 .. Len(q) :
             /\ k # i /\ r[j] = q[k]
             /\ k = IF j < i THEN j ELSE j + 1
    BY <1>6
  <2>2. \A j \in 1 .. Len(r) :
          /\ r[j].location \in P
          /\ ~Contract!Exhausted(new[r[j].location])
          /\ r[j].refcount = Left(new[r[j].location])
    BY <1>5, <2>1 DEF Lists
  <2>3. \A j, k \in 1 .. Len(r) : j < k => r[j].location < r[k].location
    <3> SUFFICES ASSUME NEW j \in 1 .. Len(r), NEW k \in 1 .. Len(r), j < k
                 PROVE  r[j].location < r[k].location
      OBVIOUS
    <3>1. PICK m \in 1 .. Len(q) : r[j] = q[m] /\ m = IF j < i THEN j ELSE j + 1
      BY <2>1
    <3>2. PICK n \in 1 .. Len(q) : r[k] = q[n] /\ n = IF k < i THEN k ELSE k + 1
      BY <2>1
    <3>3. m < n
      BY <2>1, <3>1, <3>2
    <3> QED
      BY <3>1, <3>2, <3>3 DEF Lists
  <2>4. ASSUME NEW l \in P
        PROVE  Contract!Exhausted(new[l]) \/ \E j \in 1 .. Len(r) : r[j].location = l
    <3>1. CASE l = at
      BY <1>4, <1>6, <3>1
    <3>2. CASE l # at
      <4>1. new[l] = led[l]
        BY <1>3, <3>2 DEF new
      <4>2. CASE Contract!Exhausted(led[l])
        BY <4>1, <4>2
      <4>3. CASE ~Contract!Exhausted(led[l])
        <5>1. PICK k \in 1 .. Len(q) : q[k].location = l
          BY <4>3 DEF Lists
        <5>2. k # i
          BY <3>2, <5>1 DEF at
        <5>3. CASE k < i
          <6>1. k \in 1 .. Len(r) /\ k \in 1 .. Len(q) - 1
            BY <2>1, <5>3
          <6> QED
            BY <1>6, <5>1, <5>3, <6>1
        <5>4. CASE i < k
          <6>1. k - 1 \in 1 .. Len(r) /\ k - 1 \in 1 .. Len(q) - 1 /\ ~(k - 1 < i) /\ (k - 1) + 1 = k
            BY <2>1, <5>4
          <6> QED
            BY <1>6, <5>1, <6>1
        <5> QED
          BY <5>2, <5>3, <5>4
      <4> QED
        BY <4>2, <4>3
    <3> QED
      BY <3>1, <3>2
  <2> QED
    BY <2>2, <2>3, <2>4 DEF Lists, new, at
<1>7. CASE q[i].refcount # 1
  <2>1. /\ Len(r) = Len(q)
        /\ \A j \in 1 .. Len(q) :
             /\ r[j].location = q[j].location
             /\ r[j].refcount = IF j = i THEN Spent(q[j].refcount) ELSE q[j].refcount
    BY <1>7
  <2>2. \A j \in 1 .. Len(r) :
          /\ r[j].location \in P
          /\ ~Contract!Exhausted(new[r[j].location])
          /\ r[j].refcount = Left(new[r[j].location])
    BY <1>4, <1>5, <1>7, <2>1 DEF Lists, at
  <2>3. \A j, k \in 1 .. Len(r) : j < k => r[j].location < r[k].location
    BY <2>1 DEF Lists
  <2>4. ASSUME NEW l \in P
        PROVE  Contract!Exhausted(new[l]) \/ \E j \in 1 .. Len(r) : r[j].location = l
    <3>1. CASE l = at
      BY <2>1, <3>1 DEF at
    <3>2. CASE l # at
      <4>1. new[l] = led[l]
        BY <1>3, <3>2 DEF new
      <4> QED
        BY <2>1, <4>1 DEF Lists
    <3> QED
      BY <3>1, <3>2
  <2> QED
    BY <2>2, <2>3, <2>4 DEF Lists, new, at
<1> QED
  BY <1>6, <1>7
-----------------------------------------------------------------------------
(* What the operations on the stores do to the entries of a queue.         *)

\* The refcount of one entry is changed, and nothing else of the queue.
LEMMA RefcountChanged ==
  ASSUME NEW S, NEW q \in Seq(S), NEW i \in 1 .. Len(q), NEW n
  PROVE  /\ Len([q EXCEPT ![i].refcount = n]) = Len(q)
         /\ [q EXCEPT ![i].refcount = n][i] = [q[i] EXCEPT !.refcount = n]
         /\ \A j \in 1 .. Len(q) : j # i => [q EXCEPT ![i].refcount = n][j] = q[j]
<1> DEFINE e == [q[i] EXCEPT !.refcount = n]
<1>1. [q EXCEPT ![i].refcount = n] = [q EXCEPT ![i] = e]
  OBVIOUS
<1>2. q \in [1 .. Len(q) -> S] /\ DOMAIN q = 1 .. Len(q) /\ Len(q) \in Nat
  BY LenProperties
<1> HIDE DEF e
<1>3. [q EXCEPT ![i] = e] \in Seq(S \cup {e})
  <2>1. q \in Seq(S \cup {e})
    BY <1>2, SeqDef
  <2> QED
    BY <2>1, ExceptSeq
<1>4. DOMAIN [q EXCEPT ![i] = e] = 1 .. Len(q)
  BY <1>2
<1>5. Len([q EXCEPT ![i] = e]) = Len(q)
  BY <1>2, <1>3, <1>4, LenProperties
<1> QED
  BY <1>1, <1>2, <1>5 DEF e

\* get_symbol_value on a queue of return values.
LEMMA FirstReturnTaken ==
  ASSUME NEW q \in Seq(ReturnEntry), q # <<>>,
         NEW r, r = GetSymbolValue(q)
  PROVE  IF q[1].refcount = 1
         THEN /\ Len(r) = Len(q) - 1
              /\ \A j \in 1 .. Len(q) - 1 : r[j] = q[j + 1]
         ELSE /\ Len(r) = Len(q)
              /\ \A j \in 1 .. Len(q) :
                   /\ r[j].location = q[j].location /\ r[j].value = q[j].value
                   /\ r[j].refcount = IF j = 1 THEN Spent(q[j].refcount) ELSE q[j].refcount
<1>1. 1 \in 1 .. Len(q) /\ q[1] \in ReturnEntry /\ Len(q) \in Nat
  BY EmptySeq, ElementOfSeq, LenProperties
<1>2. CASE q[1].refcount = 1
  BY <1>1, <1>2, HeadTailProperties DEF GetSymbolValue
<1>3. CASE q[1].refcount # 1
  <2> DEFINE e == [q[1] EXCEPT !.refcount = Spent(q[1].refcount)]
  <2>1. e.location = q[1].location /\ e.value = q[1].value /\ e.refcount = Spent(q[1].refcount)
    BY <1>1 DEF ReturnEntry
  <2>2. r = [q EXCEPT ![1].refcount = Spent(q[1].refcount)]
    BY <1>3 DEF GetSymbolValue
  <2>3. Len(r) = Len(q) /\ r[1] = e /\ \A j \in 1 .. Len(q) : j # 1 => r[j] = q[j]
    BY <1>1, <2>2, RefcountChanged
  <2> HIDE DEF e
  <2> QED
    BY <1>3, <2>1, <2>3
<1> QED
  BY <1>2, <1>3

\* get_symbol_value on a queue of checks.
LEMMA FirstCheckTaken ==
  ASSUME NEW q \in Seq(CheckEntry), q # <<>>,
         NEW r, r = GetSymbolValue(q)
  PROVE  IF q[1].refcount = 1
         THEN /\ Len(r) = Len(q) - 1
              /\ \A j \in 1 .. Len(q) - 1 : r[j] = q[j + 1]
         ELSE /\ Len(r) = Len(q)
              /\ \A j \in 1 .. Len(q) :
                   /\ r[j].location = q[j].location /\ r[j].accepts = q[j].accepts
                   /\ r[j].refcount = IF j = 1 THEN Spent(q[j].refcount) ELSE q[j].refcount
<1>1. 1 \in 1 .. Len(q) /\ q[1] \in CheckEntry /\ Len(q) \in Nat
  BY EmptySeq, ElementOfSeq, LenProperties
<1>2. CASE q[1].refcount = 1
  BY <1>1, <1>2, HeadTailProperties DEF GetSymbolValue
<1>3. CASE q[1].refcount # 1
  <2> DEFINE e == [q[1] EXCEPT !.refcount = Spent(q[1].refcount)]
  <2>1. e.location = q[1].location /\ e.accepts = q[1].accepts /\ e.refcount = Spent(q[1].refcount)
    BY <1>1 DEF CheckEntry
  <2>2. r = [q EXCEPT ![1].refcount = Spent(q[1].refcount)]
    BY <1>3 DEF GetSymbolValue
  <2>3. Len(r) = Len(q) /\ r[1] = e /\ \A j \in 1 .. Len(q) : j # 1 => r[j] = q[j]
    BY <1>1, <2>2, RefcountChanged
  <2> HIDE DEF e
  <2> QED
    BY <1>3, <2>1, <2>3
<1> QED
  BY <1>2, <1>3

\* Where the search of _function_called stops.
LEMMA FirstStopIsFirst ==
  ASSUME NEW f, calls \in Seq(CallEntry), SearchStops(f) # {}
  PROVE  /\ FirstStop(f) \in SearchStops(f) /\ FirstStop(f) \in 1 .. Len(calls)
         /\ \A i \in SearchStops(f) : FirstStop(f) <= i
<1>1. SearchStops(f) \subseteq 1 .. Len(calls) /\ Len(calls) \in Nat
  BY LenProperties DEF SearchStops
<1>2. \E n \in SearchStops(f) : \A j \in SearchStops(f) : n <= j
  <2>1. SearchStops(f) \in SUBSET Nat
    BY <1>1
  <2> QED
    BY <2>1, SmallestExists
<1> QED
  BY <1>1, <1>2 DEF FirstStop

\* _function_called takes the call where its search stops.
LEMMA CallTaken ==
  ASSUME NEW f, calls \in Seq(CallEntry), ~FunctionCalledFails(f), FunctionCalled(f),
         NEW i, i = FirstStop(f)
  PROVE  IF calls[i].refcount = 1
         THEN /\ Len(calls') = Len(calls) - 1
              /\ \A j \in 1 .. Len(calls) - 1 :
                   calls'[j] = IF j < i THEN calls[j] ELSE calls[j + 1]
         ELSE /\ Len(calls') = Len(calls)
              /\ \A j \in 1 .. Len(calls) :
                   /\ calls'[j].location = calls[j].location
                   /\ calls'[j].function = calls[j].function
                   /\ calls'[j].refcount =
                        IF j = i THEN Spent(calls[j].refcount) ELSE calls[j].refcount
<1>1. i \in 1 .. Len(calls) /\ calls[i] \in CallEntry /\ Len(calls) \in Nat
  BY FirstStopIsFirst, ElementOfSeq, LenProperties DEF FunctionCalledFails
<1>2. CASE calls[i].refcount = 1
  <2> DEFINE a == SubSeq(calls, 1, i - 1)
             b == SubSeq(calls, i + 1, Len(calls))
  <2>1. calls' = a \o b
    BY <1>2 DEF FunctionCalled, RemoveAt
  <2>2. a \in Seq(CallEntry) /\ Len(a) = i - 1 /\ \A j \in 1 .. i - 1 : a[j] = calls[j]
    <3>1. \A j \in 1 .. i - 1 : calls[j] \in CallEntry
      BY <1>1, ElementOfSeq
    <3> QED
      BY <1>1, <3>1, SubSeqProperties
  <2>3. /\ b \in Seq(CallEntry) /\ Len(b) = Len(calls) - i
        /\ \A j \in 1 .. Len(calls) - i : b[j] = calls[i + j]
    <3>1. \A j \in i + 1 .. Len(calls) : calls[j] \in CallEntry
      BY <1>1, ElementOfSeq
    <3> QED
      BY <1>1, <3>1, SubSeqProperties
  <2> HIDE DEF a, b
  <2>4. /\ Len(calls') = Len(a) + Len(b)
        /\ \A j \in 1 .. Len(a) + Len(b) :
             calls'[j] = IF j <= Len(a) THEN a[j] ELSE b[j - Len(a)]
    BY <2>1, <2>2, <2>3, ConcatProperties
  <2>5. ASSUME NEW j \in 1 .. Len(calls) - 1
        PROVE  calls'[j] = IF j < i THEN calls[j] ELSE calls[j + 1]
    <3>1. j \in 1 .. Len(a) + Len(b)
      BY <1>1, <2>2, <2>3
    <3>2. CASE j < i
      <4>1. j \in 1 .. i - 1 /\ j <= Len(a)
        BY <1>1, <2>2, <3>2
      <4>2. calls'[j] = a[j]
        BY <2>4, <3>1, <4>1
      <4>3. a[j] = calls[j]
        BY <2>2, <4>1
      <4> QED
        BY <3>2, <4>2, <4>3
    <3>3. CASE ~(j < i)
      <4>0. i \in Int /\ Len(calls) \in Nat /\ Len(a) = i - 1
        BY <1>1, <2>2
      <4>1. j - Len(a) \in 1 .. Len(calls) - i /\ i + (j - Len(a)) = j + 1 /\ ~(j <= Len(a))
        BY <3>3, <4>0
      <4>2. calls'[j] = b[j - Len(a)]
        BY <2>4, <3>1, <4>1
      <4>3. b[j - Len(a)] = calls[j + 1]
        BY <2>3, <4>1
      <4> QED
        BY <3>3, <4>2, <4>3
    <3> QED
      BY <3>2, <3>3
  <2> QED
    BY <1>1, <1>2, <2>2, <2>3, <2>4, <2>5
<1>3. CASE calls[i].refcount # 1
  <2> DEFINE e == [calls[i] EXCEPT !.refcount = Spent(calls[i].refcount)]
  <2>1. /\ e.location = calls[i].location /\ e.function = calls[i].function
        /\ e.refcount = Spent(calls[i].refcount)
    BY <1>1 DEF CallEntry
  <2>2. calls' = [calls EXCEPT ![i].refcount = Spent(calls[i].refcount)]
    BY <1>3 DEF FunctionCalled
  <2>3. /\ Len(calls') = Len(calls) /\ calls'[i] = e
        /\ \A j \in 1 .. Len(calls) : j # i => calls'[j] = calls[j]
    BY <1>1, <2>2, RefcountChanged
  <2> HIDE DEF e
  <2> QED
    BY <1>3, <2>1, <2>3
<1> QED
  BY <1>2, <1>3
-----------------------------------------------------------------------------
(* The inductive invariant.  In every state no entry of the ledger is used *)
(* too often; while a test runs, each queue lists the open entries of its  *)
(* key, the entries of the ledger and of the queues say the same, and      *)
(* nothing was used while an earlier entry of its key was open.            *)

LedgerInv == \A l \in 1 .. Len(ledger) : InBounds(ledger[l])

StoresInv ==
  /\ \A f \in Functions : Lists(results[f], Places("result", <<f>>, ledger), ledger)
  /\ \A k \in Functions \X Parameters : Lists(parameters[k], Places("parameter", k, ledger), ledger)
  /\ Lists(calls, CallPlaces(ledger), ledger)

ReturnsSay(q, led) == \A i \in 1 .. Len(q) : {q[i].value} = led[q[i].location].what.payload
ChecksSay(q, led)  == \A i \in 1 .. Len(q) : q[i].accepts = led[q[i].location].what.payload
CallsSay(q, led)   == \A i \in 1 .. Len(q) : <<q[i].function>> = led[q[i].location].what.key

PayloadOf(led) ==
  /\ \A f \in Functions : ReturnsSay(results[f], led)
  /\ \A k \in Functions \X Parameters : ChecksSay(parameters[k], led)
  /\ CallsSay(calls, led)

PayloadInv == PayloadOf(ledger)

OrderInv ==
  \A i, j \in 1 .. Len(ledger) :
    /\ i < j /\ ledger[i].what.kind # "call"
    /\ Contract!SameQueue(ledger[i], ledger[j])
    /\ ledger[j].served > 0
    => Contract!Exhausted(ledger[i])

RunningInv == refused = {} /\ StoresInv /\ PayloadInv /\ OrderInv

MockInv == TypeOK /\ LedgerInv /\ (test = "running" => RunningInv)

\* A use leaves every entry of the ledger in its queue.
LEMMA PlacesUsed ==
  ASSUME NEW led \in Seq(Entries), NEW at \in 1 .. Len(led),
         NEW new, new = [led EXCEPT ![at].served = @ + 1]
  PROVE  /\ \A kind, key : Places(kind, key, new) = Places(kind, key, led)
         /\ CallPlaces(new) = CallPlaces(led)
         /\ \A l \in 1 .. Len(led) : new[l].what = led[l].what
         /\ \A l \in 1 .. Len(led) :
              new[l].served = IF l = at THEN led[l].served + 1 ELSE led[l].served
<1>1. led[at] \in Entries
  BY ElementOfSeq
<1>2. /\ Len(new) = Len(led)
      /\ new[at].what = led[at].what /\ new[at].served = led[at].served + 1
      /\ \A l \in 1 .. Len(led) : l # at => new[l] = led[l]
  BY <1>1, UseIsNoted DEF Entries
<1> QED
  BY <1>2 DEF Places, CallPlaces

\* A declaration leaves the ledger in bounds and in order.
LEMMA DeclaringKeeps ==
  ASSUME MockInv, test = "running", NEW d \in Declarations,
         d.count = 0 => d.kind = "parameter", Declare(d, FALSE)
  PROVE  /\ LedgerInv' /\ OrderInv' /\ refused' = {}
         /\ ledger' = Append(ledger, [what |-> d, served |-> 0])
         /\ Len(ledger) \in Nat /\ Len(ledger') = Len(ledger) + 1
         /\ \A l \in 1 .. Len(ledger) : ledger'[l] = ledger[l]
         /\ ledger'[Len(ledger) + 1] = [what |-> d, served |-> 0]
<1>1. ledger' = Append(ledger, [what |-> d, served |-> 0]) /\ refused' = {}
  BY DEF Declare, Exits
<1>2. ledger \in Seq(Entries)
  BY DEF MockInv, TypeOK, Entries
<1>3. /\ Len(ledger) \in Nat /\ Len(ledger') = Len(ledger) + 1
      /\ \A l \in 1 .. Len(ledger) : ledger'[l] = ledger[l]
      /\ ledger'[Len(ledger) + 1] = [what |-> d, served |-> 0]
  BY <1>1, <1>2, LenProperties, AppendProperties
<1>4. d.count \in Int
  BY DeclarationCounts
<1>5. \A l \in 1 .. Len(ledger') : l \in 1 .. Len(ledger) \/ l = Len(ledger) + 1
  BY <1>3
<1>6. LedgerInv'
  BY <1>3, <1>4, <1>5 DEF MockInv, LedgerInv, InBounds
<1>7. OrderInv'
  <2> SUFFICES ASSUME NEW i \in 1 .. Len(ledger'), NEW j \in 1 .. Len(ledger'),
                      i < j, ledger'[i].what.kind # "call",
                      Contract!SameQueue(ledger'[i], ledger'[j]), ledger'[j].served > 0
               PROVE  Contract!Exhausted(ledger'[i])
    BY DEF OrderInv
  <2>1. j \in 1 .. Len(ledger)
    BY <1>3, <1>5
  <2>2. i \in 1 .. Len(ledger)
    BY <1>3, <2>1
  <2> QED
    BY <1>3, <2>1, <2>2 DEF MockInv, RunningInv, OrderInv
<1> QED
  BY <1>1, <1>3, <1>6, <1>7

\* The use of the first open entry of a key, or of any call, leaves the ledger in bounds
\* and in order.
LEMMA UsingKeeps ==
  ASSUME MockInv, test = "running", NEW at \in 1 .. Len(ledger),
         ~Contract!Exhausted(ledger[at]), ledger[at].what.count # 0,
         \A l \in 1 .. Len(ledger) :
           /\ l < at /\ ledger[l].what.kind # "call" /\ Contract!SameQueue(ledger[l], ledger[at])
           => Contract!Exhausted(ledger[l]),
         ledger' = [ledger EXCEPT ![at].served = @ + 1]
  PROVE  LedgerInv' /\ OrderInv'
<1>1. ledger \in Seq(Entries) /\ Len(ledger) \in Nat
  BY LenProperties DEF MockInv, TypeOK, Entries
<1>2. /\ Len(ledger') = Len(ledger)
      /\ \A l \in 1 .. Len(ledger) : l # at => ledger'[l] = ledger[l]
      /\ ledger'[at] = [ledger[at] EXCEPT !.served = @ + 1]
      /\ ledger[at] \in Entries
  BY <1>1, UseIsNoted, ElementOfSeq
<1>3. /\ InBounds(ledger'[at])
      /\ ledger'[at].what = ledger[at].what
  BY <1>2, OneUse DEF MockInv, LedgerInv
<1>4. LedgerInv'
  BY <1>2, <1>3 DEF MockInv, LedgerInv
<1>5. OrderInv'
  <2> SUFFICES ASSUME NEW i \in 1 .. Len(ledger), NEW j \in 1 .. Len(ledger),
                      i < j, ledger'[i].what.kind # "call",
                      Contract!SameQueue(ledger'[i], ledger'[j]), ledger'[j].served > 0
               PROVE  Contract!Exhausted(ledger'[i])
    BY <1>2 DEF OrderInv
  <2>1. /\ ledger[i].what.kind # "call" /\ Contract!SameQueue(ledger[i], ledger[j])
    BY <1>2, <1>3 DEF Contract!SameQueue
  <2>2. Contract!Exhausted(ledger[i])
    <3>1. CASE j = at
      BY <2>1, <3>1
    <3>2. CASE j # at
      BY <1>2, <2>1, <3>2 DEF MockInv, RunningInv, OrderInv
    <3> QED
      BY <3>1, <3>2
  <2>3. i # at
    BY <2>2
  <2> QED
    BY <1>2, <2>2, <2>3
<1> QED
  BY <1>4, <1>5
-----------------------------------------------------------------------------
(* Who serves the next use.                                                *)

\* The first entry of a queue, and no other entry of its key.
LEMMA FirstServes ==
  ASSUME NEW kind \in {"result", "parameter"}, NEW key, NEW q, Len(q) \in Nat,
         Len(ledger) \in Nat, Lists(q, Places(kind, key, ledger), ledger),
         NEW l \in Places(kind, key, ledger)
  PROVE  Contract!Serves(l) <=> Len(q) > 0 /\ q[1].location = l
<1> DEFINE P == Places(kind, key, ledger)
<1>1. \A m \in P : m \in 1 .. Len(ledger) /\ ledger[m].what.kind = kind /\ ledger[m].what.key = key
  BY DEF Places
<1>2. ASSUME Contract!Serves(l)
      PROVE  Len(q) > 0 /\ q[1].location = l
  <2>1. ~Contract!Exhausted(ledger[l])
    BY <1>2 DEF Contract!Serves
  <2>2. PICK i \in 1 .. Len(q) : q[i].location = l
    BY <2>1 DEF Lists
  <2>3. CASE i # 1
    <3> DEFINE m == q[1].location
    <3>1. m < l /\ m \in P /\ ~Contract!Exhausted(ledger[m])
      BY <2>2, <2>3 DEF Lists
    <3>2. m \in 1 .. l - 1 /\ Contract!SameQueue(ledger[l], ledger[m])
      BY <1>1, <3>1 DEF Contract!SameQueue
    <3> QED
      BY <1>1, <1>2, <3>1, <3>2 DEF Contract!Serves
  <2> QED
    BY <2>2, <2>3
<1>3. ASSUME Len(q) > 0, q[1].location = l
      PROVE  Contract!Serves(l)
  <2>1. ~Contract!Exhausted(ledger[l])
    BY <1>3 DEF Lists
  <2>2. ASSUME NEW m \in 1 .. l - 1, Contract!SameQueue(ledger[l], ledger[m]),
               ~Contract!Exhausted(ledger[m])
        PROVE  FALSE
    <3>1. m \in P /\ m < l
      BY <1>1, <2>2 DEF Places, Contract!SameQueue
    <3>2. PICK i \in 1 .. Len(q) : q[i].location = m
      BY <2>2, <3>1 DEF Lists
    <3>3. i # 1 /\ 1 < i /\ 1 \in 1 .. Len(q)
      BY <1>1, <1>3, <3>1, <3>2
    <3> QED
      BY <1>1, <1>3, <3>1, <3>2, <3>3 DEF Lists
  <2> QED
    BY <1>1, <2>1, <2>2 DEF Contract!Serves
<1> QED
  BY <1>2, <1>3

\* What is left tells whether an entry is met.
LEMMA LeftTells ==
  ASSUME NEW e \in Entries, InBounds(e), ~Contract!Exhausted(e)
  PROVE  /\ Contract!Met(e) <=> ~(Left(e) > Maybe)
         /\ Left(e) = 0 <=> e.what.count = 0
         /\ Contract!Met(e) => e.what.count < 0
         /\ Left(e) \in Int
<1>1. e.what.count \in Int /\ e.served \in Nat
  BY DeclarationCounts DEF Entries
<1> QED
  BY <1>1 DEF Left, Always, Maybe, Contract!Exhausted, Contract!Met, InBounds

\* The first entry at which the search stops serves a call of its function ...
LEMMA StopServes ==
  ASSUME MockInv, test = "running", NEW f \in Functions, ~FunctionCalledFails(f),
         NEW at, at = calls[FirstStop(f)].location
  PROVE  /\ at \in 1 .. Len(ledger) /\ Contract!Serves(at)
         /\ ledger[at].what.kind = "call" /\ ledger[at].what.key = <<f>>
<1> DEFINE i == FirstStop(f)
<1>1. calls \in Seq(CallEntry) /\ Len(calls) \in Nat
  BY LenProperties DEF MockInv, TypeOK, ExpectationsTypeOK
<1>2. /\ i \in 1 .. Len(calls) /\ calls[i].function = f
      /\ \A j \in SearchStops(f) : i <= j
  BY <1>1, FirstStopIsFirst DEF FunctionCalledFails
<1>3. ledger \in Seq(Entries) /\ Len(ledger) \in Nat /\ LedgerInv
  BY LenProperties DEF MockInv, TypeOK, Entries
<1>4. Lists(calls, CallPlaces(ledger), ledger)
  BY DEF MockInv, RunningInv, StoresInv
<1> HIDE DEF i
<1>5. /\ at \in 1 .. Len(ledger) /\ ledger[at].what.kind = "call"
      /\ ~Contract!Exhausted(ledger[at])
  BY <1>2, <1>4 DEF Lists, CallPlaces, i
<1>6. ledger[at].what.key = <<f>>
  BY <1>2 DEF i, MockInv, RunningInv, PayloadInv, PayloadOf, CallsSay
<1>7. ASSUME NEW m \in 1 .. at - 1, ledger[m].what.kind = "call",
             ~Contract!Exhausted(ledger[m])
      PROVE  Contract!Met(ledger[m]) /\ ledger[m].what.key # ledger[at].what.key
  <2>1. m \in 1 .. Len(ledger) /\ m < at /\ m \in CallPlaces(ledger)
    BY <1>3, <1>5, <1>7 DEF CallPlaces
  <2>2. PICK j \in 1 .. Len(calls) : calls[j].location = m
    BY <1>4, <1>7, <2>1 DEF Lists
  <2>3. j < i
    <3>1. j # i
      BY <1>5, <2>1, <2>2 DEF i
    <3>2. ~(i < j)
      BY <1>2, <1>4, <1>5, <2>1, <2>2 DEF Lists, i
    <3> QED
      BY <1>1, <1>2, <3>1, <3>2
  <2>4. j \notin SearchStops(f)
    BY <1>1, <1>2, <2>3
  <2>5. calls[j].function # f /\ ~(calls[j].refcount > Maybe)
    BY <1>1, <2>4, LenProperties DEF SearchStops
  <2>6. <<calls[j].function>> = ledger[m].what.key
    BY <2>2 DEF MockInv, RunningInv, PayloadInv, PayloadOf, CallsSay
  <2>7. calls[j].refcount = Left(ledger[m])
    BY <1>4, <2>2 DEF Lists
  <2>8. ledger[m] \in Entries /\ InBounds(ledger[m])
    BY <1>3, <2>1, ElementOfSeq DEF LedgerInv
  <2>9. Contract!Met(ledger[m])
    BY <1>7, <2>5, <2>7, <2>8, LeftTells
  <2> QED
    BY <1>6, <2>5, <2>6, <2>9
<1> QED
  BY <1>5, <1>6, <1>7 DEF Contract!Serves

\* ... and when there is none, or it is for another function, no entry serves the call.
LEMMA NoStopNoService ==
  ASSUME MockInv, test = "running", NEW f \in Functions, FunctionCalledFails(f),
         NEW l \in 1 .. Len(ledger),
         ledger[l].what.kind = "call", ledger[l].what.key = <<f>>
  PROVE  ~Contract!Serves(l)
<1> SUFFICES ASSUME Contract!Serves(l) PROVE FALSE
  OBVIOUS
<1>1. calls \in Seq(CallEntry) /\ Len(calls) \in Nat /\ DOMAIN calls = 1 .. Len(calls)
  BY LenProperties DEF MockInv, TypeOK, ExpectationsTypeOK
<1>2. ledger \in Seq(Entries) /\ Len(ledger) \in Nat /\ LedgerInv
  BY LenProperties DEF MockInv, TypeOK, Entries
<1>3. Lists(calls, CallPlaces(ledger), ledger)
  BY DEF MockInv, RunningInv, StoresInv
<1>4. PICK n \in 1 .. Len(calls) : calls[n].location = l
  BY <1>3 DEF Contract!Serves, Lists, CallPlaces
<1>5. calls[n].function = f
  BY <1>4 DEF MockInv, RunningInv, PayloadInv, PayloadOf, CallsSay
<1>6. n \in SearchStops(f)
  BY <1>1, <1>5 DEF SearchStops
<1> DEFINE i == FirstStop(f)
           m == calls[i].location
<1>7. /\ i \in 1 .. Len(calls) /\ i <= n /\ i \in SearchStops(f)
      /\ calls[i].function # f
  BY <1>1, <1>6, FirstStopIsFirst DEF FunctionCalledFails
<1> HIDE DEF i
<1>8. i < n /\ calls[i].refcount > Maybe
  BY <1>1, <1>5, <1>7 DEF SearchStops
<1>9. /\ m < l /\ m \in 1 .. Len(ledger) /\ ledger[m].what.kind = "call"
      /\ ~Contract!Exhausted(ledger[m]) /\ calls[i].refcount = Left(ledger[m])
  BY <1>3, <1>4, <1>7, <1>8 DEF Lists, CallPlaces
<1>10. ledger[m] \in Entries /\ InBounds(ledger[m])
  BY <1>2, <1>9, ElementOfSeq DEF LedgerInv
<1>11. ~Contract!Met(ledger[m])
  BY <1>8, <1>9, <1>10, LeftTells
<1> QED
  BY <1>2, <1>9, <1>11 DEF Contract!Serves
-----------------------------------------------------------------------------
(* The queues that a declaration or a use does not change.                 *)

LEMMA ReturnsSayAppended ==
  ASSUME NEW S, NEW q \in Seq(S), NEW e \in S, NEW led, ReturnsSay(q, led),
         {e.value} = led[e.location].what.payload
  PROVE  ReturnsSay(Append(q, e), led)
<1>1. /\ Len(q) \in Nat /\ Len(Append(q, e)) = Len(q) + 1
      /\ Append(q, e)[Len(q) + 1] = e
      /\ \A j \in 1 .. Len(q) : Append(q, e)[j] = q[j]
  BY AppendProperties, LenProperties
<1>2. ASSUME NEW i \in 1 .. Len(Append(q, e))
      PROVE  {Append(q, e)[i].value} = led[Append(q, e)[i].location].what.payload
  <2>1. CASE i = Len(q) + 1
    BY <1>1, <2>1
  <2>2. CASE i # Len(q) + 1
    <3>1. i \in 1 .. Len(q) /\ Append(q, e)[i] = q[i]
      BY <1>1, <2>2
    <3> QED
      BY <3>1 DEF ReturnsSay
  <2> QED
    BY <2>1, <2>2
<1> QED
  BY <1>2 DEF ReturnsSay

LEMMA ChecksSayAppended ==
  ASSUME NEW S, NEW q \in Seq(S), NEW e \in S, NEW led, ChecksSay(q, led),
         e.accepts = led[e.location].what.payload
  PROVE  ChecksSay(Append(q, e), led)
<1>1. /\ Len(q) \in Nat /\ Len(Append(q, e)) = Len(q) + 1
      /\ Append(q, e)[Len(q) + 1] = e
      /\ \A j \in 1 .. Len(q) : Append(q, e)[j] = q[j]
  BY AppendProperties, LenProperties
<1>2. ASSUME NEW i \in 1 .. Len(Append(q, e))
      PROVE  Append(q, e)[i].accepts = led[Append(q, e)[i].location].what.payload
  <2>1. CASE i = Len(q) + 1
    BY <1>1, <2>1
  <2>2. CASE i # Len(q) + 1
    <3>1. i \in 1 .. Len(q) /\ Append(q, e)[i] = q[i]
      BY <1>1, <2>2
    <3> QED
      BY <3>1 DEF ChecksSay
  <2> QED
    BY <2>1, <2>2
<1> QED
  BY <1>2 DEF ChecksSay

LEMMA CallsSayAppended ==
  ASSUME NEW S, NEW q \in Seq(S), NEW e \in S, NEW led, CallsSay(q, led),
         <<e.function>> = led[e.location].what.key
  PROVE  CallsSay(Append(q, e), led)
<1>1. /\ Len(q) \in Nat /\ Len(Append(q, e)) = Len(q) + 1
      /\ Append(q, e)[Len(q) + 1] = e
      /\ \A j \in 1 .. Len(q) : Append(q, e)[j] = q[j]
  BY AppendProperties, LenProperties
<1>2. ASSUME NEW i \in 1 .. Len(Append(q, e))
      PROVE  <<Append(q, e)[i].function>> = led[Append(q, e)[i].location].what.key
  <2>1. CASE i = Len(q) + 1
    BY <1>1, <2>1
  <2>2. CASE i # Len(q) + 1
    <3>1. i \in 1 .. Len(q) /\ Append(q, e)[i] = q[i]
      BY <1>1, <2>2
    <3> QED
      BY <3>1 DEF CallsSay
  <2> QED
    BY <2>1, <2>2
<1> QED
  BY <1>2 DEF CallsSay

LEMMA LocationsInLedger ==
  ASSUME StoresInv
  PROVE  /\ \A f \in Functions : \A i \in 1 .. Len(results[f]) :
              results[f][i].location \in 1 .. Len(ledger)
         /\ \A k \in Functions \X Parameters : \A i \in 1 .. Len(parameters[k]) :
              parameters[k][i].location \in 1 .. Len(ledger)
         /\ \A i \in 1 .. Len(calls) : calls[i].location \in 1 .. Len(ledger)
<1>1. ASSUME NEW f \in Functions, NEW i \in 1 .. Len(results[f])
      PROVE  results[f][i].location \in 1 .. Len(ledger)
  BY DEF StoresInv, Lists, Places
<1>2. ASSUME NEW k \in Functions \X Parameters, NEW i \in 1 .. Len(parameters[k])
      PROVE  parameters[k][i].location \in 1 .. Len(ledger)
  BY DEF StoresInv, Lists, Places
<1>3. ASSUME NEW i \in 1 .. Len(calls)
      PROVE  calls[i].location \in 1 .. Len(ledger)
  BY DEF StoresInv, Lists, CallPlaces
<1> QED
  BY <1>1, <1>2, <1>3

LEMMA OthersDeclared ==
  ASSUME RunningInv, Len(ledger) \in Nat, NEW d, Len(ledger') = Len(ledger) + 1,
         \A l \in 1 .. Len(ledger) : ledger'[l] = ledger[l],
         d = ledger'[Len(ledger) + 1].what
  PROVE  /\ \A f \in Functions :
              d.kind # "result" \/ d.key # <<f>> =>
                Lists(results[f], Places("result", <<f>>, ledger'), ledger')
         /\ \A k \in Functions \X Parameters :
              d.kind # "parameter" \/ d.key # k =>
                Lists(parameters[k], Places("parameter", k, ledger'), ledger')
         /\ d.kind # "call" => Lists(calls, CallPlaces(ledger'), ledger')
         /\ PayloadOf(ledger')
         /\ Places(d.kind, d.key, ledger') = Places(d.kind, d.key, ledger) \cup {Len(ledger) + 1}
         /\ d.kind = "call" => CallPlaces(ledger') = CallPlaces(ledger) \cup {Len(ledger) + 1}
<1>1. \A kind, key : d.kind # kind \/ d.key # key =>
        Places(kind, key, ledger') = Places(kind, key, ledger)
  BY DEF Places
<1>2. d.kind # "call" => CallPlaces(ledger') = CallPlaces(ledger)
  BY DEF CallPlaces
<1>3. /\ \A kind, key : \A l \in Places(kind, key, ledger) : ledger'[l] = ledger[l]
      /\ \A l \in CallPlaces(ledger) : ledger'[l] = ledger[l]
  BY DEF Places, CallPlaces
<1>4. ASSUME NEW f \in Functions, d.kind # "result" \/ d.key # <<f>>
      PROVE  Lists(results[f], Places("result", <<f>>, ledger'), ledger')
  <2> DEFINE P == Places("result", <<f>>, ledger)
  <2>1. Lists(results[f], P, ledger)
    BY DEF RunningInv, StoresInv
  <2>2. Places("result", <<f>>, ledger') = P /\ \A l \in P : ledger'[l] = ledger[l]
    BY <1>1, <1>3, <1>4
  <2> HIDE DEF P
  <2>3. Lists(results[f], P, ledger')
    BY <2>1, <2>2 DEF Lists
  <2> QED
    BY <2>2, <2>3
<1>5. ASSUME NEW k \in Functions \X Parameters, d.kind # "parameter" \/ d.key # k
      PROVE  Lists(parameters[k], Places("parameter", k, ledger'), ledger')
  <2> DEFINE P == Places("parameter", k, ledger)
  <2>1. Lists(parameters[k], P, ledger)
    BY DEF RunningInv, StoresInv
  <2>2. Places("parameter", k, ledger') = P /\ \A l \in P : ledger'[l] = ledger[l]
    BY <1>1, <1>3, <1>5
  <2> HIDE DEF P
  <2>3. Lists(parameters[k], P, ledger')
    BY <2>1, <2>2 DEF Lists
  <2> QED
    BY <2>2, <2>3
<1>6. ASSUME d.kind # "call"
      PROVE  Lists(calls, CallPlaces(ledger'), ledger')
  <2> DEFINE P == CallPlaces(ledger)
  <2>1. Lists(calls, P, ledger)
    BY DEF RunningInv, StoresInv
  <2>2. CallPlaces(ledger') = P /\ \A l \in P : ledger'[l] = ledger[l]
    BY <1>2, <1>3, <1>6
  <2> HIDE DEF P
  <2>3. Lists(calls, P, ledger')
    BY <2>1, <2>2 DEF Lists
  <2> QED
    BY <2>2, <2>3
<1>7. PayloadOf(ledger')
  <2>0. /\ PayloadOf(ledger) /\ \A l \in 1 .. Len(ledger) : ledger'[l].what = ledger[l].what
        /\ \A f \in Functions : \A i \in 1 .. Len(results[f]) :
             results[f][i].location \in 1 .. Len(ledger)
        /\ \A k \in Functions \X Parameters : \A i \in 1 .. Len(parameters[k]) :
             parameters[k][i].location \in 1 .. Len(ledger)
        /\ \A i \in 1 .. Len(calls) : calls[i].location \in 1 .. Len(ledger)
    BY LocationsInLedger DEF RunningInv, PayloadInv
  <2>1. ASSUME NEW f \in Functions
        PROVE  ReturnsSay(results[f], ledger')
    BY <2>0 DEF PayloadOf, ReturnsSay
  <2>2. ASSUME NEW k \in Functions \X Parameters
        PROVE  ChecksSay(parameters[k], ledger')
    <3>1. ChecksSay(parameters[k], ledger)
      BY <2>0 DEF PayloadOf
    <3>2. \A i \in 1 .. Len(parameters[k]) :
            ledger'[parameters[k][i].location].what = ledger[parameters[k][i].location].what
      BY <2>0
    <3> QED
      BY <3>1, <3>2 DEF ChecksSay
  <2>3. CallsSay(calls, ledger')
    BY <2>0 DEF PayloadOf, CallsSay
  <2> QED
    BY <2>1, <2>2, <2>3 DEF PayloadOf
<1>8. /\ Places(d.kind, d.key, ledger') = Places(d.kind, d.key, ledger) \cup {Len(ledger) + 1}
      /\ d.kind = "call" => CallPlaces(ledger') = CallPlaces(ledger) \cup {Len(ledger) + 1}
  BY DEF Places, CallPlaces
<1> QED
  BY <1>4, <1>5, <1>6, <1>7, <1>8

LEMMA OthersUsed ==
  ASSUME RunningInv, ledger \in Seq(Entries), NEW at \in 1 .. Len(ledger),
         ledger' = [ledger EXCEPT ![at].served = @ + 1]
  PROVE  /\ \A f \in Functions :
              ledger[at].what.kind # "result" \/ ledger[at].what.key # <<f>> =>
                Lists(results[f], Places("result", <<f>>, ledger'), ledger')
         /\ \A k \in Functions \X Parameters :
              ledger[at].what.kind # "parameter" \/ ledger[at].what.key # k =>
                Lists(parameters[k], Places("parameter", k, ledger'), ledger')
         /\ ledger[at].what.kind # "call" => Lists(calls, CallPlaces(ledger'), ledger')
         /\ PayloadOf(ledger')
         /\ \A kind, key : Places(kind, key, ledger') = Places(kind, key, ledger)
         /\ CallPlaces(ledger') = CallPlaces(ledger)
<1>0. /\ Len(ledger') = Len(ledger)
      /\ \A l \in 1 .. Len(ledger) : l # at => ledger'[l] = ledger[l]
      /\ \A l \in 1 .. Len(ledger) : ledger'[l].what = ledger[l].what
  <2>1. /\ Len(ledger') = Len(ledger)
        /\ ledger'[at] = [ledger[at] EXCEPT !.served = @ + 1]
        /\ \A l \in 1 .. Len(ledger) : l # at => ledger'[l] = ledger[l]
    BY UseIsNoted
  <2>2. ledger[at] \in Entries
    BY ElementOfSeq
  <2>3. ledger'[at].what = ledger[at].what
    BY <2>1, <2>2 DEF Entries
  <2> QED
    BY <2>1, <2>3
<1>1. /\ \A kind, key : Places(kind, key, ledger') = Places(kind, key, ledger)
      /\ CallPlaces(ledger') = CallPlaces(ledger)
  BY <1>0 DEF Places, CallPlaces
<1>4. ASSUME NEW f \in Functions, ledger[at].what.kind # "result" \/ ledger[at].what.key # <<f>>
      PROVE  Lists(results[f], Places("result", <<f>>, ledger'), ledger')
  <2> DEFINE P == Places("result", <<f>>, ledger)
  <2>1. Lists(results[f], P, ledger)
    BY DEF RunningInv, StoresInv
  <2>2. Places("result", <<f>>, ledger') = P
    BY <1>1
  <2>3. \A l \in P : ledger'[l] = ledger[l]
    BY <1>0, <1>4 DEF Places
  <2> HIDE DEF P
  <2>4. Lists(results[f], P, ledger')
    BY <2>1, <2>3 DEF Lists
  <2> QED
    BY <2>2, <2>4
<1>5. ASSUME NEW k \in Functions \X Parameters,
             ledger[at].what.kind # "parameter" \/ ledger[at].what.key # k
      PROVE  Lists(parameters[k], Places("parameter", k, ledger'), ledger')
  <2> DEFINE P == Places("parameter", k, ledger)
  <2>1. Lists(parameters[k], P, ledger)
    BY DEF RunningInv, StoresInv
  <2>2. Places("parameter", k, ledger') = P
    BY <1>1
  <2>3. \A l \in P : ledger'[l] = ledger[l]
    BY <1>0, <1>5 DEF Places
  <2> HIDE DEF P
  <2>4. Lists(parameters[k], P, ledger')
    BY <2>1, <2>3 DEF Lists
  <2> QED
    BY <2>2, <2>4
<1>6. ASSUME ledger[at].what.kind # "call"
      PROVE  Lists(calls, CallPlaces(ledger'), ledger')
  <2> DEFINE P == CallPlaces(ledger)
  <2>1. Lists(calls, P, ledger)
    BY DEF RunningInv, StoresInv
  <2>2. CallPlaces(ledger') = P
    BY <1>1
  <2>3. \A l \in P : ledger'[l] = ledger[l]
    BY <1>0, <1>6 DEF CallPlaces
  <2> HIDE DEF P
  <2>4. Lists(calls, P, ledger')
    BY <2>1, <2>3 DEF Lists
  <2> QED
    BY <2>2, <2>4
<1>7. PayloadOf(ledger')
  <2>0. /\ PayloadOf(ledger) /\ \A l \in 1 .. Len(ledger) : ledger'[l].what = ledger[l].what
        /\ \A f \in Functions : \A i \in 1 .. Len(results[f]) :
             results[f][i].location \in 1 .. Len(ledger)
        /\ \A k \in Functions \X Parameters : \A i \in 1 .. Len(parameters[k]) :
             parameters[k][i].location \in 1 .. Len(ledger)
        /\ \A i \in 1 .. Len(calls) : calls[i].location \in 1 .. Len(ledger)
    BY <1>0, LocationsInLedger DEF RunningInv, PayloadInv
  <2>1. ASSUME NEW f \in Functions
        PROVE  ReturnsSay(results[f], ledger')
    BY <2>0 DEF PayloadOf, ReturnsSay
  <2>2. ASSUME NEW k \in Functions \X Parameters
        PROVE  ChecksSay(parameters[k], ledger')
    <3>1. ChecksSay(parameters[k], ledger)
      BY <2>0 DEF PayloadOf
    <3>2. \A i \in 1 .. Len(parameters[k]) :
            ledger'[parameters[k][i].location].what = ledger[parameters[k][i].location].what
      BY <2>0
    <3> QED
      BY <3>1, <3>2 DEF ChecksSay
  <2>3. CallsSay(calls, ledger')
    BY <2>0 DEF PayloadOf, CallsSay
  <2> QED
    BY <2>1, <2>2, <2>3 DEF PayloadOf
<1> QED
  BY <1>1, <1>4, <1>5, <1>6, <1>7
-----------------------------------------------------------------------------
(* The steps.  Each keeps the invariant and is a step of the contract.     *)

LEMMA DeclareReturnStep ==
  ASSUME MockInv, DeclareReturn
  PROVE  MockInv' /\ Contract!Next
<1>1. PICK f \in Functions, v \in Values, c \in Counts :
        /\ WillReturn(f, v, c, Here)
        /\ Declare([kind |-> "result", key |-> <<f>>, payload |-> {v}, count |-> c],
                   WillReturnFails(c))
  BY DEF DeclareReturn
<1> DEFINE d == [kind |-> "result", key |-> <<f>>, payload |-> {v}, count |-> c]
           e == [value |-> v, location |-> Here, refcount |-> c]
<1>2. /\ d \in Declarations
      /\ d.kind = "result" /\ d.key = <<f>> /\ d.payload = {v} /\ d.count = c
  BY DEF Declarations, ResultDeclarations
<1>3. TypeOK /\ test = "running" /\ Here <= MaxDeclarations /\ Declare(d, WillReturnFails(c))
  BY <1>1 DEF DeclareReturn, MockInv, Declare
<1> HIDE DEF d
<1>4. TypeOK'
  <2>1. ExpectationsTypeOK'
    BY <1>1, <1>3, HereIsALocation, CountsAssumption, WillReturnType DEF TypeOK
  <2> QED
    BY <1>2, <1>3, <2>1, DeclarationsKeepTypes DEF TypeOK, Entries, WillReturnFails
<1>5. CASE c = 0
  <2>1. /\ test' = "rejected" /\ refused' = {d} /\ ledger' = ledger
    BY <1>3, <1>5 DEF Declare, Exits, WillReturnFails
  <2>2. Contract!DeclareNothing(d)
    BY <1>2, <1>3, <1>5, <2>1 DEF Contract!DeclareNothing
  <2> QED
    BY <1>2, <1>4, <2>1, <2>2 DEF MockInv, LedgerInv, Contract!Next
<1>6. CASE c # 0
  <2>1. Declare(d, FALSE) /\ test' = "running"
    BY <1>3, <1>6 DEF WillReturnFails, Declare, Exits
  <2>2. /\ LedgerInv' /\ OrderInv' /\ refused' = {}
        /\ ledger' = Append(ledger, [what |-> d, served |-> 0])
        /\ Len(ledger) \in Nat /\ Len(ledger') = Len(ledger) + 1
        /\ \A l \in 1 .. Len(ledger) : ledger'[l] = ledger[l]
        /\ ledger'[Len(ledger) + 1] = [what |-> d, served |-> 0]
    BY <1>2, <1>3, <1>6, <2>1, DeclaringKeeps
  <2>3. RunningInv /\ ledger \in Seq(Entries)
    BY <1>3 DEF MockInv, TypeOK, Entries
  <2>4. /\ results \in [Functions -> Seq(ReturnEntry)]
        /\ e \in ReturnEntry /\ e.location = Len(ledger) + 1 /\ e.refcount = d.count
        /\ e.value = v
    BY <1>2, <1>3, <1>6, HereIsALocation, CountsAssumption
    DEF TypeOK, ExpectationsTypeOK, ReturnEntry, Here
  <2>5. /\ results' = [results EXCEPT ![f] = Append(results[f], e)]
        /\ parameters' = parameters /\ calls' = calls
    BY <1>1, <1>6 DEF WillReturn, WillReturnFails
  <2> HIDE DEF e
  <2>6. results'[f] = Append(results[f], e) /\ \A g \in Functions : g # f => results'[g] = results[g]
    BY <2>4, <2>5
  <2>7. /\ \A g \in Functions : g # f => Lists(results[g], Places("result", <<g>>, ledger'), ledger')
        /\ \A k \in Functions \X Parameters :
             Lists(parameters[k], Places("parameter", k, ledger'), ledger')
        /\ Lists(calls, CallPlaces(ledger'), ledger')
        /\ PayloadOf(ledger')
        /\ Places("result", <<f>>, ledger') = Places("result", <<f>>, ledger) \cup {Len(ledger) + 1}
    <3>1. d = ledger'[Len(ledger) + 1].what /\ d.kind # "parameter" /\ d.kind # "call"
      BY <1>2, <2>2
    <3>2. \A g \in Functions : g # f => d.key # <<g>>
      BY <1>2
    <3> QED
      BY <1>2, <2>2, <2>3, <3>1, <3>2, OthersDeclared
  <2>8. Lists(results'[f], Places("result", <<f>>, ledger'), ledger')
    <3> DEFINE P == Places("result", <<f>>, ledger)
    <3>1. Lists(results[f], P, ledger) /\ P \in SUBSET (1 .. Len(ledger))
      BY <2>3 DEF RunningInv, StoresInv, Places
    <3> HIDE DEF P
    <3>2. Lists(Append(results[f], e), P \cup {Len(ledger) + 1},
                Append(ledger, [what |-> d, served |-> 0]))
      BY <1>2, <2>3, <2>4, <3>1, DeclaredLast
    <3> QED
      BY <2>2, <2>6, <2>7, <3>2 DEF P
  <2>9. StoresInv'
    BY <2>5, <2>6, <2>7, <2>8 DEF StoresInv
  <2>10. PayloadInv'
    <3>1. ReturnsSay(results'[f], ledger')
      <4>1. {e.value} = ledger'[e.location].what.payload
        BY <1>2, <2>2, <2>4
      <4>2. ReturnsSay(results[f], ledger')
        BY <2>7 DEF PayloadOf
      <4> QED
        BY <2>4, <2>6, <4>1, <4>2, ReturnsSayAppended
    <3>2. ASSUME NEW g \in Functions
          PROVE  ReturnsSay(results'[g], ledger')
      BY <2>6, <2>7, <3>1 DEF PayloadOf
    <3> QED
      BY <2>5, <2>7, <3>2 DEF PayloadInv, PayloadOf
  <2>11. Contract!Declare(d)
    BY <1>3, <2>1, <2>2, <2>3 DEF Contract!Declare, RunningInv
  <2> QED
    BY <1>2, <1>4, <2>2, <2>9, <2>10, <2>11 DEF MockInv, RunningInv, Contract!Next
<1> QED
  BY <1>5, <1>6

LEMMA DeclareCheckStep ==
  ASSUME MockInv, DeclareCheck
  PROVE  MockInv' /\ Contract!Next
<1>1. PICK k \in Functions \X Parameters, a \in SUBSET Values, c \in Counts :
        /\ ExpectCheck(k, a, c, Here)
        /\ Declare([kind |-> "parameter", key |-> k, payload |-> a, count |-> c], FALSE)
  BY DEF DeclareCheck
<1> DEFINE d == [kind |-> "parameter", key |-> k, payload |-> a, count |-> c]
           e == [accepts |-> a, location |-> Here, refcount |-> c]
<1>2. /\ d \in Declarations
      /\ d.kind = "parameter" /\ d.key = k /\ d.payload = a /\ d.count = c
  BY DEF Declarations, CheckDeclarations
<1>3. TypeOK /\ test = "running" /\ Here <= MaxDeclarations /\ Declare(d, FALSE)
  BY <1>1 DEF DeclareCheck, MockInv, Declare
<1> HIDE DEF d
<1>4. TypeOK'
  <2>1. ExpectationsTypeOK'
    BY <1>1, <1>3, HereIsALocation, CountsAssumption, ExpectCheckType DEF TypeOK
  <2> QED
    BY <1>2, <1>3, <2>1, DeclarationsKeepTypes DEF TypeOK, Entries
<1>5. test' = "running"
  BY <1>3 DEF Declare, Exits
<1>6. /\ LedgerInv' /\ OrderInv' /\ refused' = {}
      /\ ledger' = Append(ledger, [what |-> d, served |-> 0])
      /\ Len(ledger) \in Nat /\ Len(ledger') = Len(ledger) + 1
      /\ \A l \in 1 .. Len(ledger) : ledger'[l] = ledger[l]
      /\ ledger'[Len(ledger) + 1] = [what |-> d, served |-> 0]
  BY <1>2, <1>3, DeclaringKeeps
<1>7. RunningInv /\ ledger \in Seq(Entries)
  BY <1>3 DEF MockInv, TypeOK, Entries
<1>8. /\ parameters \in [Functions \X Parameters -> Seq(CheckEntry)]
      /\ e \in CheckEntry /\ e.location = Len(ledger) + 1 /\ e.refcount = d.count
      /\ e.accepts = a
  BY <1>2, <1>3, HereIsALocation, CountsAssumption
  DEF TypeOK, ExpectationsTypeOK, CheckEntry, Here
<1>9. /\ parameters' = [parameters EXCEPT ![k] = Append(parameters[k], e)]
      /\ results' = results /\ calls' = calls
  BY <1>1 DEF ExpectCheck
<1> HIDE DEF e
<1>10. /\ parameters'[k] = Append(parameters[k], e)
       /\ \A h \in Functions \X Parameters : h # k => parameters'[h] = parameters[h]
  BY <1>8, <1>9
<1>11. /\ \A f \in Functions : Lists(results[f], Places("result", <<f>>, ledger'), ledger')
       /\ \A h \in Functions \X Parameters : h # k =>
            Lists(parameters[h], Places("parameter", h, ledger'), ledger')
       /\ Lists(calls, CallPlaces(ledger'), ledger')
       /\ PayloadOf(ledger')
       /\ Places("parameter", k, ledger') = Places("parameter", k, ledger) \cup {Len(ledger) + 1}
  <2>1. d = ledger'[Len(ledger) + 1].what /\ d.kind # "result" /\ d.kind # "call"
    BY <1>2, <1>6
  <2> QED
    BY <1>2, <1>6, <1>7, <2>1, OthersDeclared
<1>12. Lists(parameters'[k], Places("parameter", k, ledger'), ledger')
  <2> DEFINE P == Places("parameter", k, ledger)
  <2>1. Lists(parameters[k], P, ledger) /\ P \in SUBSET (1 .. Len(ledger))
    BY <1>7 DEF RunningInv, StoresInv, Places
  <2> HIDE DEF P
  <2>2. Lists(Append(parameters[k], e), P \cup {Len(ledger) + 1},
              Append(ledger, [what |-> d, served |-> 0]))
    BY <1>2, <1>7, <1>8, <2>1, DeclaredLast
  <2> QED
    BY <1>6, <1>10, <1>11, <2>2 DEF P
<1>13. StoresInv'
  BY <1>9, <1>10, <1>11, <1>12 DEF StoresInv
<1>14. PayloadInv'
  <2>1. ChecksSay(parameters'[k], ledger')
    <3>1. e.accepts = ledger'[e.location].what.payload
      BY <1>2, <1>6, <1>8
    <3>2. ChecksSay(parameters[k], ledger')
      BY <1>11 DEF PayloadOf
    <3> QED
      BY <1>8, <1>10, <3>1, <3>2, ChecksSayAppended
  <2>2. ASSUME NEW h \in Functions \X Parameters
        PROVE  ChecksSay(parameters'[h], ledger')
    BY <1>10, <1>11, <2>1 DEF PayloadOf
  <2> QED
    BY <1>9, <1>11, <2>2 DEF PayloadInv, PayloadOf
<1>15. Contract!Declare(d)
  BY <1>3, <1>5, <1>6, <1>7 DEF Contract!Declare, RunningInv
<1> QED
  BY <1>2, <1>4, <1>6, <1>13, <1>14, <1>15 DEF MockInv, RunningInv, Contract!Next

LEMMA DeclareCallStep ==
  ASSUME MockInv, DeclareCall
  PROVE  MockInv' /\ Contract!Next
<1>1. PICK f \in Functions, c \in Counts :
        /\ ExpectFunctionCall(f, c, Here)
        /\ Declare([kind |-> "call", key |-> <<f>>, payload |-> {}, count |-> c],
                   ExpectFunctionCallFails(c))
  BY DEF DeclareCall
<1> DEFINE d == [kind |-> "call", key |-> <<f>>, payload |-> {}, count |-> c]
           e == [function |-> f, location |-> Here, refcount |-> c]
<1>2. /\ d \in Declarations
      /\ d.kind = "call" /\ d.key = <<f>> /\ d.count = c
  BY DEF Declarations, CallDeclarations
<1>3. TypeOK /\ test = "running" /\ Here <= MaxDeclarations /\ Declare(d, ExpectFunctionCallFails(c))
  BY <1>1 DEF DeclareCall, MockInv, Declare
<1> HIDE DEF d
<1>4. TypeOK'
  <2>1. ExpectationsTypeOK'
    BY <1>1, <1>3, HereIsALocation, CountsAssumption, ExpectFunctionCallType DEF TypeOK
  <2> QED
    BY <1>2, <1>3, <2>1, DeclarationsKeepTypes DEF TypeOK, Entries, ExpectFunctionCallFails
<1>5. CASE c = 0
  <2>1. /\ test' = "rejected" /\ refused' = {d} /\ ledger' = ledger
    BY <1>3, <1>5 DEF Declare, Exits, ExpectFunctionCallFails
  <2>2. Contract!DeclareNothing(d)
    BY <1>2, <1>3, <1>5, <2>1 DEF Contract!DeclareNothing
  <2> QED
    BY <1>2, <1>4, <2>1, <2>2 DEF MockInv, LedgerInv, Contract!Next
<1>6. CASE c # 0
  <2>1. Declare(d, FALSE) /\ test' = "running"
    BY <1>3, <1>6 DEF ExpectFunctionCallFails, Declare, Exits
  <2>2. /\ LedgerInv' /\ OrderInv' /\ refused' = {}
        /\ ledger' = Append(ledger, [what |-> d, served |-> 0])
        /\ Len(ledger) \in Nat /\ Len(ledger') = Len(ledger) + 1
        /\ \A l \in 1 .. Len(ledger) : ledger'[l] = ledger[l]
        /\ ledger'[Len(ledger) + 1] = [what |-> d, served |-> 0]
    BY <1>2, <1>3, <1>6, <2>1, DeclaringKeeps
  <2>3. RunningInv /\ ledger \in Seq(Entries)
    BY <1>3 DEF MockInv, TypeOK, Entries
  <2>4. /\ calls \in Seq(CallEntry)
        /\ e \in CallEntry /\ e.location = Len(ledger) + 1 /\ e.refcount = d.count
        /\ e.function = f
    BY <1>2, <1>3, <1>6, HereIsALocation, CountsAssumption
    DEF TypeOK, ExpectationsTypeOK, CallEntry, Here
  <2>5. /\ calls' = Append(calls, e)
        /\ parameters' = parameters /\ results' = results
    BY <1>1, <1>6 DEF ExpectFunctionCall, ExpectFunctionCallFails
  <2> HIDE DEF e
  <2>6. /\ \A g \in Functions : Lists(results[g], Places("result", <<g>>, ledger'), ledger')
        /\ \A k \in Functions \X Parameters :
             Lists(parameters[k], Places("parameter", k, ledger'), ledger')
        /\ PayloadOf(ledger')
        /\ CallPlaces(ledger') = CallPlaces(ledger) \cup {Len(ledger) + 1}
    <3>1. d = ledger'[Len(ledger) + 1].what /\ d.kind # "parameter" /\ d.kind # "result"
      BY <1>2, <2>2
    <3> QED
      BY <1>2, <2>2, <2>3, <3>1, OthersDeclared
  <2>7. Lists(calls', CallPlaces(ledger'), ledger')
    <3> DEFINE P == CallPlaces(ledger)
    <3>1. Lists(calls, P, ledger) /\ P \in SUBSET (1 .. Len(ledger))
      BY <2>3 DEF RunningInv, StoresInv, CallPlaces
    <3> HIDE DEF P
    <3>2. Lists(Append(calls, e), P \cup {Len(ledger) + 1},
                Append(ledger, [what |-> d, served |-> 0]))
      BY <1>2, <2>3, <2>4, <3>1, DeclaredLast
    <3> QED
      BY <2>2, <2>5, <2>6, <3>2 DEF P
  <2>8. StoresInv'
    BY <2>5, <2>6, <2>7 DEF StoresInv
  <2>9. PayloadInv'
    <3>1. <<e.function>> = ledger'[e.location].what.key
      BY <1>2, <2>2, <2>4
    <3>2. CallsSay(calls, ledger')
      BY <2>6 DEF PayloadOf
    <3>3. CallsSay(calls', ledger')
      BY <2>4, <2>5, <3>1, <3>2, CallsSayAppended
    <3> QED
      BY <2>5, <2>6, <3>3 DEF PayloadInv, PayloadOf
  <2>10. Contract!Declare(d)
    BY <1>3, <2>1, <2>2, <2>3 DEF Contract!Declare, RunningInv
  <2> QED
    BY <1>2, <1>4, <2>2, <2>8, <2>9, <2>10 DEF MockInv, RunningInv, Contract!Next
<1> QED
  BY <1>5, <1>6

LEMMA CallMockStep ==
  ASSUME MockInv, CallMock
  PROVE  MockInv' /\ Contract!Next
<1>1. PICK f \in Functions :
        /\ Mock(f)
        /\ Serve(results[f], [kind |-> "result", key |-> <<f>>], MockFails(f))
  BY DEF CallMock
<1> DEFINE u == [kind |-> "result", key |-> <<f>>]
           q == results[f]
           r == GetSymbolValue(q)
           at == q[1].location
<1>2. u \in Uses /\ u.kind = "result" /\ u.key = <<f>>
  BY DEF Uses
<1> HIDE DEF u
<1>3. /\ TypeOK /\ test = "running" /\ RunningInv /\ LedgerInv
      /\ Serve(q, u, MockFails(f))
  BY <1>1 DEF CallMock, MockInv, u
<1>4. /\ ledger \in Seq(Entries) /\ Len(ledger) \in Nat
      /\ q \in Seq(ReturnEntry) /\ Len(q) \in Nat
      /\ results \in [Functions -> Seq(ReturnEntry)]
  BY <1>3, LenProperties DEF TypeOK, ExpectationsTypeOK, Entries
<1>5. /\ results'[f] = r /\ parameters' = parameters /\ calls' = calls
      /\ \A h \in Functions : h # f => results'[h] = results[h]
  BY <1>1, <1>4 DEF Mock
<1> DEFINE P == Places("result", <<f>>, ledger)
<1>6. Lists(q, P, ledger) /\ P \in SUBSET (1 .. Len(ledger))
  BY <1>3 DEF RunningInv, StoresInv, Places
<1>7. \A l \in P : Contract!Serves(l) <=> Len(q) > 0 /\ q[1].location = l
  BY <1>4, <1>6, FirstServes
<1>8. q # <<>> <=> Len(q) > 0
  BY <1>4, EmptySeq
<1>9. q # <<>> =>
        /\ 1 \in 1 .. Len(q) /\ at \in P /\ at \in 1 .. Len(ledger)
        /\ q[1].refcount = Left(ledger[at]) /\ ~Contract!Exhausted(ledger[at])
        /\ ledger[at] \in Entries /\ InBounds(ledger[at])
        /\ ledger[at].what.kind = "result" /\ ledger[at].what.key = <<f>>
  <2> SUFFICES ASSUME q # <<>>
               PROVE  /\ 1 \in 1 .. Len(q) /\ at \in P /\ at \in 1 .. Len(ledger)
                      /\ q[1].refcount = Left(ledger[at]) /\ ~Contract!Exhausted(ledger[at])
                      /\ ledger[at] \in Entries /\ InBounds(ledger[at])
                      /\ ledger[at].what.kind = "result" /\ ledger[at].what.key = <<f>>
    OBVIOUS
  <2>1. 1 \in 1 .. Len(q)
    BY <1>4, <1>8
  <2>2. at \in P /\ q[1].refcount = Left(ledger[at]) /\ ~Contract!Exhausted(ledger[at])
    BY <1>6, <2>1 DEF Lists
  <2>3. at \in 1 .. Len(ledger) /\ ledger[at].what.kind = "result" /\ ledger[at].what.key = <<f>>
    BY <2>2 DEF Places
  <2> QED
    BY <1>3, <1>4, <2>1, <2>2, <2>3, ElementOfSeq DEF LedgerInv
<1>10. TypeOK'
  <2>1. ExpectationsTypeOK'
    BY <1>1, <1>3, MockType DEF TypeOK
  <2>2. MockFails(f) \in BOOLEAN
    BY DEF MockFails, SymbolFound
  <2>3. /\ ledger' \in Seq(Entries) /\ test' \in {"running", "rejected"}
        /\ refused' \subseteq Declarations \cup Uses
    BY <1>2, <1>3, <1>4, <1>9, <2>2, UsesKeepTypes DEF SymbolFound
  <2> QED
    BY <2>1, <2>3 DEF TypeOK, Entries
<1> HIDE DEF q, r, at, P
<1>11. CASE ~SymbolFound(q)
  <2>1. ledger' = ledger /\ test' = "rejected" /\ refused' = {u}
    BY <1>3, <1>11 DEF Serve, Exits, MockFails, q
  <2>2. ASSUME NEW l \in 1 .. Len(ledger), Contract!IsFor(l, u), Contract!Serves(l)
        PROVE  ledger[l].what.count = 0
    <3>1. l \in P
      BY <1>2, <2>2 DEF P, Places, Contract!IsFor
    <3>2. q # <<>> /\ at = l
      BY <1>7, <1>8, <2>2, <3>1 DEF at
    <3>3. q[1].refcount = 0
      BY <1>11, <3>2 DEF SymbolFound
    <3> QED
      BY <1>9, <3>2, <3>3, LeftTells
  <2>3. DOMAIN ledger = 1 .. Len(ledger)
    BY <1>4, LenProperties
  <2>4. Contract!UseUndeclared(u)
    BY <1>3, <2>1, <2>2, <2>3 DEF Contract!UseUndeclared
  <2> QED
    BY <1>2, <1>3, <1>10, <2>1, <2>4 DEF MockInv, LedgerInv, Contract!Next
<1>12. CASE SymbolFound(q)
  <2>1. /\ q # <<>> /\ q[1].refcount # 0
        /\ ledger' = [ledger EXCEPT ![at].served = @ + 1]
    BY <1>3, <1>12 DEF Serve, SymbolFound, at
  <2>2. /\ 1 \in 1 .. Len(q) /\ at \in P /\ at \in 1 .. Len(ledger)
        /\ ~Contract!Exhausted(ledger[at])
        /\ ledger[at] \in Entries /\ InBounds(ledger[at])
        /\ ledger[at].what.kind = "result" /\ ledger[at].what.key = <<f>>
        /\ Contract!Serves(at) /\ ledger[at].what.count # 0
    BY <1>7, <1>8, <1>9, <2>1, LeftTells DEF at
  <2>3. LedgerInv' /\ OrderInv'
    <3>1. ASSUME NEW l \in 1 .. Len(ledger), l < at, ledger[l].what.kind # "call",
                 Contract!SameQueue(ledger[l], ledger[at])
          PROVE  Contract!Exhausted(ledger[l])
      <4>1. l \in 1 .. at - 1 /\ Contract!SameQueue(ledger[at], ledger[l])
        BY <1>4, <2>2, <3>1 DEF Contract!SameQueue
      <4> QED
        BY <2>2, <4>1 DEF Contract!Serves
    <3> QED
      BY <1>3, <2>1, <2>2, <3>1, UsingKeeps DEF MockInv
  <2>4. IF q[1].refcount = 1
        THEN /\ Len(r) = Len(q) - 1
             /\ \A j \in 1 .. Len(q) - 1 : r[j] = q[j + 1]
        ELSE /\ Len(r) = Len(q)
             /\ \A j \in 1 .. Len(q) :
                  /\ r[j].location = q[j].location /\ r[j].value = q[j].value
                  /\ r[j].refcount = IF j = 1 THEN Spent(q[j].refcount) ELSE q[j].refcount
    BY <1>4, <2>1, FirstReturnTaken DEF r
  <2>5. /\ \A h \in Functions : h # f =>
             Lists(results[h], Places("result", <<h>>, ledger'), ledger')
        /\ \A h \in Functions \X Parameters :
             Lists(parameters[h], Places("parameter", h, ledger'), ledger')
        /\ Lists(calls, CallPlaces(ledger'), ledger')
        /\ PayloadOf(ledger')
        /\ Places("result", <<f>>, ledger') = P
    <3>1. /\ ledger[at].what.kind # "parameter" /\ ledger[at].what.kind # "call"
          /\ \A h \in Functions : h # f => ledger[at].what.key # <<h>>
      BY <2>2
    <3> QED
      BY <1>3, <1>4, <2>1, <2>2, <3>1, OthersUsed DEF P
  <2>6. Lists(r, P, ledger')
    <3>1. IF q[1].refcount = 1
          THEN /\ Len(r) = Len(q) - 1
               /\ \A j \in 1 .. Len(q) - 1 : r[j] = IF j < 1 THEN q[j] ELSE q[j + 1]
          ELSE /\ Len(r) = Len(q)
               /\ \A j \in 1 .. Len(q) :
                    /\ r[j].location = q[j].location
                    /\ r[j].refcount = IF j = 1 THEN Spent(q[j].refcount) ELSE q[j].refcount
      <4>1. \A j \in 1 .. Len(q) - 1 : ~(j < 1)
        BY <1>4
      <4> QED
        BY <2>4, <4>1
    <3>2. Lists(r, P, [ledger EXCEPT ![q[1].location].served = @ + 1])
      <4>1. /\ ledger \in Seq(Entries) /\ P \in SUBSET (1 .. Len(ledger)) /\ Len(q) \in Nat
            /\ Lists(q, P, ledger)
        BY <1>4, <1>6
      <4>2. 1 \in 1 .. Len(q) /\ q[1].refcount # 0 /\ InBounds(ledger[q[1].location])
        BY <2>1, <2>2 DEF at
      <4> QED
        BY <3>1, <4>1, <4>2, UsedOnce
    <3> QED
      BY <2>1, <3>2 DEF at
  <2>7. StoresInv'
    BY <1>5, <2>5, <2>6 DEF StoresInv
  <2>8. PayloadInv'
    <3>1. ReturnsSay(q, ledger')
      BY <2>5 DEF PayloadOf, q
    <3>2. ReturnsSay(r, ledger')
      <4>1. ASSUME NEW j \in 1 .. Len(r)
            PROVE  {r[j].value} = ledger'[r[j].location].what.payload
        <5>1. CASE q[1].refcount = 1
          <6>1. j + 1 \in 1 .. Len(q) /\ r[j] = q[j + 1]
            BY <1>4, <2>4, <5>1
          <6> QED
            BY <3>1, <6>1 DEF ReturnsSay
        <5>2. CASE q[1].refcount # 1
          BY <2>4, <3>1, <5>2 DEF ReturnsSay
        <5> QED
          BY <5>1, <5>2
      <4> QED
        BY <4>1 DEF ReturnsSay
    <3>3. ASSUME NEW h \in Functions
          PROVE  ReturnsSay(results'[h], ledger')
      BY <1>5, <2>5, <3>2 DEF PayloadOf
    <3> QED
      BY <1>5, <2>5, <3>3 DEF PayloadInv, PayloadOf
  <2>9. test' = "running" /\ refused' = {}
    BY <1>3, <1>12 DEF Serve, Exits, MockFails, q
  <2>10. Contract!Use(at) /\ at \in DOMAIN ledger
    BY <1>3, <1>4, <2>1, <2>2, <2>9, LenProperties DEF Contract!Use, RunningInv
  <2> QED
    BY <1>10, <2>3, <2>7, <2>8, <2>9, <2>10 DEF MockInv, RunningInv, Contract!Next
<1> QED
  BY <1>11, <1>12

LEMMA CheckStep ==
  ASSUME MockInv, Check
  PROVE  MockInv' /\ Contract!Next
<1>1. PICK k \in Functions \X Parameters, v \in Values :
        /\ CheckExpected(k)
        /\ Serve(parameters[k], [kind |-> "parameter", key |-> k, value |-> v],
                 CheckExpectedFails(k, v))
  BY DEF Check
<1> DEFINE u == [kind |-> "parameter", key |-> k, value |-> v]
           q == parameters[k]
           r == GetSymbolValue(q)
           at == q[1].location
<1>2. u \in Uses /\ u.kind = "parameter" /\ u.key = k /\ u.value = v
  BY DEF Uses
<1> HIDE DEF u
<1>3. /\ TypeOK /\ test = "running" /\ RunningInv /\ LedgerInv
      /\ Serve(q, u, CheckExpectedFails(k, v))
  BY <1>1 DEF Check, MockInv, u
<1>4. /\ ledger \in Seq(Entries) /\ Len(ledger) \in Nat
      /\ q \in Seq(CheckEntry) /\ Len(q) \in Nat
      /\ parameters \in [Functions \X Parameters -> Seq(CheckEntry)]
  BY <1>3, LenProperties DEF TypeOK, ExpectationsTypeOK, Entries
<1>5. /\ parameters'[k] = r /\ results' = results /\ calls' = calls
      /\ \A h \in Functions \X Parameters : h # k => parameters'[h] = parameters[h]
  BY <1>1, <1>4 DEF CheckExpected
<1> DEFINE P == Places("parameter", k, ledger)
<1>6. Lists(q, P, ledger) /\ P \in SUBSET (1 .. Len(ledger))
  BY <1>3 DEF RunningInv, StoresInv, Places
<1>7. \A l \in P : Contract!Serves(l) <=> Len(q) > 0 /\ q[1].location = l
  BY <1>4, <1>6, FirstServes
<1>8. q # <<>> <=> Len(q) > 0
  BY <1>4, EmptySeq
<1>9. q # <<>> =>
        /\ 1 \in 1 .. Len(q) /\ at \in P /\ at \in 1 .. Len(ledger)
        /\ q[1].refcount = Left(ledger[at]) /\ ~Contract!Exhausted(ledger[at])
        /\ ledger[at] \in Entries /\ InBounds(ledger[at])
        /\ ledger[at].what.kind = "parameter" /\ ledger[at].what.key = k
  <2> SUFFICES ASSUME q # <<>>
               PROVE  /\ 1 \in 1 .. Len(q) /\ at \in P /\ at \in 1 .. Len(ledger)
                      /\ q[1].refcount = Left(ledger[at]) /\ ~Contract!Exhausted(ledger[at])
                      /\ ledger[at] \in Entries /\ InBounds(ledger[at])
                      /\ ledger[at].what.kind = "parameter" /\ ledger[at].what.key = k
    OBVIOUS
  <2>1. 1 \in 1 .. Len(q)
    BY <1>4, <1>8
  <2>2. at \in P /\ q[1].refcount = Left(ledger[at]) /\ ~Contract!Exhausted(ledger[at])
    BY <1>6, <2>1 DEF Lists
  <2>3. at \in 1 .. Len(ledger) /\ ledger[at].what.kind = "parameter" /\ ledger[at].what.key = k
    BY <2>2 DEF Places
  <2> QED
    BY <1>3, <1>4, <2>1, <2>2, <2>3, ElementOfSeq DEF LedgerInv
<1>10. TypeOK'
  <2>1. ExpectationsTypeOK'
    BY <1>1, <1>3, CheckExpectedType DEF TypeOK
  <2>2. CheckExpectedFails(k, v) \in BOOLEAN
    BY DEF CheckExpectedFails, SymbolFound
  <2>3. /\ ledger' \in Seq(Entries) /\ test' \in {"running", "rejected"}
        /\ refused' \subseteq Declarations \cup Uses
    BY <1>2, <1>3, <1>4, <1>9, <2>2, UsesKeepTypes DEF SymbolFound
  <2> QED
    BY <2>1, <2>3 DEF TypeOK, Entries
<1> HIDE DEF q, r, at, P
<1>11. CASE ~SymbolFound(q)
  <2>1. ledger' = ledger /\ test' = "rejected" /\ refused' = {u}
    BY <1>3, <1>11 DEF Serve, Exits, CheckExpectedFails, q
  <2>2. ASSUME NEW l \in 1 .. Len(ledger), Contract!IsFor(l, u), Contract!Serves(l)
        PROVE  ledger[l].what.count = 0
    <3>1. l \in P
      BY <1>2, <2>2 DEF P, Places, Contract!IsFor
    <3>2. q # <<>> /\ at = l
      BY <1>7, <1>8, <2>2, <3>1 DEF at
    <3>3. q[1].refcount = 0
      BY <1>11, <3>2 DEF SymbolFound
    <3> QED
      BY <1>9, <3>2, <3>3, LeftTells
  <2>3. DOMAIN ledger = 1 .. Len(ledger)
    BY <1>4, LenProperties
  <2>4. Contract!UseUndeclared(u)
    BY <1>3, <2>1, <2>2, <2>3 DEF Contract!UseUndeclared
  <2> QED
    BY <1>2, <1>3, <1>10, <2>1, <2>4 DEF MockInv, LedgerInv, Contract!Next
<1>12. CASE SymbolFound(q)
  <2>1. /\ q # <<>> /\ q[1].refcount # 0
        /\ ledger' = [ledger EXCEPT ![at].served = @ + 1]
    BY <1>3, <1>12 DEF Serve, SymbolFound, at
  <2>2. /\ 1 \in 1 .. Len(q) /\ at \in P /\ at \in 1 .. Len(ledger)
        /\ ~Contract!Exhausted(ledger[at])
        /\ ledger[at] \in Entries /\ InBounds(ledger[at])
        /\ ledger[at].what.kind = "parameter" /\ ledger[at].what.key = k
        /\ Contract!Serves(at) /\ ledger[at].what.count # 0
    BY <1>7, <1>8, <1>9, <2>1, LeftTells DEF at
  <2>3. LedgerInv' /\ OrderInv'
    <3>1. ASSUME NEW l \in 1 .. Len(ledger), l < at, ledger[l].what.kind # "call",
                 Contract!SameQueue(ledger[l], ledger[at])
          PROVE  Contract!Exhausted(ledger[l])
      <4>1. l \in 1 .. at - 1 /\ Contract!SameQueue(ledger[at], ledger[l])
        BY <1>4, <2>2, <3>1 DEF Contract!SameQueue
      <4> QED
        BY <2>2, <4>1 DEF Contract!Serves
    <3> QED
      BY <1>3, <2>1, <2>2, <3>1, UsingKeeps DEF MockInv
  <2>4. IF q[1].refcount = 1
        THEN /\ Len(r) = Len(q) - 1
             /\ \A j \in 1 .. Len(q) - 1 : r[j] = q[j + 1]
        ELSE /\ Len(r) = Len(q)
             /\ \A j \in 1 .. Len(q) :
                  /\ r[j].location = q[j].location /\ r[j].accepts = q[j].accepts
                  /\ r[j].refcount = IF j = 1 THEN Spent(q[j].refcount) ELSE q[j].refcount
    BY <1>4, <2>1, FirstCheckTaken DEF r
  <2>5. /\ \A h \in Functions \X Parameters : h # k =>
             Lists(parameters[h], Places("parameter", h, ledger'), ledger')
        /\ \A h \in Functions :
             Lists(results[h], Places("result", <<h>>, ledger'), ledger')
        /\ Lists(calls, CallPlaces(ledger'), ledger')
        /\ PayloadOf(ledger')
        /\ Places("parameter", k, ledger') = P
    BY <1>3, <1>4, <2>1, <2>2, OthersUsed DEF P
  <2>6. Lists(r, P, ledger')
    <3>1. IF q[1].refcount = 1
          THEN /\ Len(r) = Len(q) - 1
               /\ \A j \in 1 .. Len(q) - 1 : r[j] = IF j < 1 THEN q[j] ELSE q[j + 1]
          ELSE /\ Len(r) = Len(q)
               /\ \A j \in 1 .. Len(q) :
                    /\ r[j].location = q[j].location
                    /\ r[j].refcount = IF j = 1 THEN Spent(q[j].refcount) ELSE q[j].refcount
      <4>1. \A j \in 1 .. Len(q) - 1 : ~(j < 1)
        BY <1>4
      <4> QED
        BY <2>4, <4>1
    <3>2. Lists(r, P, [ledger EXCEPT ![q[1].location].served = @ + 1])
      <4>1. /\ ledger \in Seq(Entries) /\ P \in SUBSET (1 .. Len(ledger)) /\ Len(q) \in Nat
            /\ Lists(q, P, ledger)
        BY <1>4, <1>6
      <4>2. 1 \in 1 .. Len(q) /\ q[1].refcount # 0 /\ InBounds(ledger[q[1].location])
        BY <2>1, <2>2 DEF at
      <4> QED
        BY <3>1, <4>1, <4>2, UsedOnce
    <3> QED
      BY <2>1, <3>2 DEF at
  <2>7. StoresInv'
    BY <1>5, <2>5, <2>6 DEF StoresInv
  <2>8. PayloadInv'
    <3>1. ChecksSay(q, ledger')
      BY <2>5 DEF PayloadOf, q
    <3>2. ChecksSay(r, ledger')
      <4>1. ASSUME NEW j \in 1 .. Len(r)
            PROVE  r[j].accepts = ledger'[r[j].location].what.payload
        <5>1. CASE q[1].refcount = 1
          <6>1. j + 1 \in 1 .. Len(q) /\ r[j] = q[j + 1]
            BY <1>4, <2>4, <5>1
          <6> QED
            BY <3>1, <6>1 DEF ChecksSay
        <5>2. CASE q[1].refcount # 1
          BY <2>4, <3>1, <5>2 DEF ChecksSay
        <5> QED
          BY <5>1, <5>2
      <4> QED
        BY <4>1 DEF ChecksSay
    <3>3. ASSUME NEW h \in Functions \X Parameters
          PROVE  ChecksSay(parameters'[h], ledger')
      BY <1>5, <2>5, <3>2 DEF PayloadOf
    <3> QED
      BY <1>5, <2>5, <3>3 DEF PayloadInv, PayloadOf
  <2>9. q[1].accepts = ledger[at].what.payload /\ at \in DOMAIN ledger
    BY <1>3, <1>4, <2>2, LenProperties DEF RunningInv, PayloadInv, PayloadOf, ChecksSay, q, at
  <2>10. CASE v \in q[1].accepts
    <3>1. test' = "running" /\ refused' = {}
      BY <1>3, <1>12, <2>10 DEF Serve, Exits, CheckExpectedFails, q
    <3>2. Contract!Use(at)
      BY <1>3, <2>1, <2>2, <2>9, <2>10, <3>1 DEF Contract!Use, RunningInv
    <3> QED
      BY <1>10, <2>3, <2>7, <2>8, <2>9, <3>1, <3>2 DEF MockInv, RunningInv, Contract!Next
  <2>11. CASE v \notin q[1].accepts
    <3>1. test' = "rejected" /\ refused' = {u}
      BY <1>3, <1>12, <2>11 DEF Serve, Exits, CheckExpectedFails, q
    <3>2. Contract!UseWrongly(at, u)
      BY <1>2, <1>3, <2>1, <2>2, <2>9, <2>11, <3>1 DEF Contract!UseWrongly, Contract!IsFor
    <3> QED
      BY <1>2, <1>10, <2>3, <2>9, <3>1, <3>2 DEF MockInv, Contract!Next
  <2> QED
    BY <2>10, <2>11
<1> QED
  BY <1>11, <1>12

LEMMA CallOrderedStep ==
  ASSUME MockInv, CallOrdered
  PROVE  MockInv' /\ Contract!Next
<1>1. PICK f \in Functions :
        /\ FunctionCalled(f)
        /\ Exits([kind |-> "call", key |-> <<f>>], FunctionCalledFails(f))
        /\ IF FunctionCalledFails(f)
           THEN UNCHANGED ledger
           ELSE LET loc == calls[FirstStop(f)].location IN
                /\ ledger[loc].served < MaxServed
                /\ ledger' = [ledger EXCEPT ![loc].served = @ + 1]
  BY DEF CallOrdered
<1> DEFINE u == [kind |-> "call", key |-> <<f>>]
           i == FirstStop(f)
           at == calls[i].location
           P == CallPlaces(ledger)
<1>2. u \in Uses /\ u.kind = "call" /\ u.key = <<f>>
  BY DEF Uses
<1> HIDE DEF u
<1>3. TypeOK /\ test = "running" /\ RunningInv /\ LedgerInv /\ Exits(u, FunctionCalledFails(f))
  BY <1>1 DEF CallOrdered, MockInv, u
<1>4. /\ ledger \in Seq(Entries) /\ Len(ledger) \in Nat /\ DOMAIN ledger = 1 .. Len(ledger)
      /\ calls \in Seq(CallEntry) /\ Len(calls) \in Nat
  BY <1>3, LenProperties DEF TypeOK, ExpectationsTypeOK, Entries
<1>5. ExpectationsTypeOK' /\ results' = results /\ parameters' = parameters
  BY <1>1, <1>3, FunctionCalledType DEF TypeOK, FunctionCalled
<1>6. CASE FunctionCalledFails(f)
  <2>1. ledger' = ledger /\ test' = "rejected" /\ refused' = {u}
    BY <1>1, <1>3, <1>6 DEF Exits
  <2>2. \A l \in 1 .. Len(ledger) : Contract!IsFor(l, u) => ~Contract!Serves(l)
    BY <1>2, <1>3, <1>6, NoStopNoService DEF Contract!IsFor
  <2>3. Contract!UseUndeclared(u)
    BY <1>3, <1>4, <2>1, <2>2 DEF Contract!UseUndeclared
  <2>4. TypeOK'
    BY <1>2, <1>3, <1>5, <2>1 DEF TypeOK
  <2> QED
    BY <1>2, <1>3, <2>1, <2>3, <2>4 DEF MockInv, LedgerInv, Contract!Next
<1>7. CASE ~FunctionCalledFails(f)
  <2>1. /\ ledger' = [ledger EXCEPT ![at].served = @ + 1]
        /\ test' = "running" /\ refused' = {}
    BY <1>1, <1>3, <1>7 DEF Exits
  <2>2. /\ at \in 1 .. Len(ledger) /\ Contract!Serves(at)
        /\ ledger[at].what.kind = "call" /\ ledger[at].what.key = <<f>>
    BY <1>3, <1>7, StopServes
  <2>3. i \in 1 .. Len(calls) /\ calls[i] \in CallEntry /\ calls[i].refcount # 0
    <3>1. i \in 1 .. Len(calls)
      BY <1>4, <1>7, FirstStopIsFirst DEF FunctionCalledFails
    <3>2. calls[i] \in CallEntry
      BY <1>4, <3>1, ElementOfSeq
    <3> HIDE DEF i
    <3> QED
      BY <3>1, <3>2 DEF CallEntry
  <2>4. IF calls[i].refcount = 1
        THEN /\ Len(calls') = Len(calls) - 1
             /\ \A j \in 1 .. Len(calls) - 1 :
                  calls'[j] = IF j < i THEN calls[j] ELSE calls[j + 1]
        ELSE /\ Len(calls') = Len(calls)
             /\ \A j \in 1 .. Len(calls) :
                  /\ calls'[j].location = calls[j].location
                  /\ calls'[j].function = calls[j].function
                  /\ calls'[j].refcount =
                       IF j = i THEN Spent(calls[j].refcount) ELSE calls[j].refcount
    BY <1>1, <1>4, <1>7, CallTaken
  <2>5. Lists(calls, P, ledger) /\ P \in SUBSET (1 .. Len(ledger))
    BY <1>3 DEF RunningInv, StoresInv, CallPlaces
  <2>6. /\ ledger[at] \in Entries /\ InBounds(ledger[at]) /\ ~Contract!Exhausted(ledger[at])
        /\ ledger[at].what.count # 0
    <3>1. ledger[at] \in Entries /\ InBounds(ledger[at]) /\ ~Contract!Exhausted(ledger[at])
      BY <1>3, <1>4, <2>2, ElementOfSeq DEF LedgerInv, Contract!Serves
    <3> QED
      BY <2>2, <3>1 DEF InBounds
  <2> HIDE DEF i, at, P
  <2>7. LedgerInv' /\ OrderInv'
    <3>1. ASSUME NEW l \in 1 .. Len(ledger), l < at, ledger[l].what.kind # "call",
                 Contract!SameQueue(ledger[l], ledger[at])
          PROVE  Contract!Exhausted(ledger[l])
      BY <2>2, <3>1 DEF Contract!SameQueue
    <3> QED
      BY <1>3, <2>1, <2>2, <2>6, <3>1, UsingKeeps DEF MockInv
  <2>8. TypeOK'
    BY <1>3, <1>4, <1>5, <2>1, <2>2, LedgerKeepsType DEF TypeOK, Entries
  <2>9. /\ \A g \in Functions : Lists(results[g], Places("result", <<g>>, ledger'), ledger')
        /\ \A k \in Functions \X Parameters :
             Lists(parameters[k], Places("parameter", k, ledger'), ledger')
        /\ PayloadOf(ledger')
        /\ CallPlaces(ledger') = P
    <3>1. ledger[at].what.kind # "result" /\ ledger[at].what.kind # "parameter"
      BY <2>2
    <3> QED
      BY <1>3, <1>4, <2>1, <2>2, <3>1, OthersUsed DEF P
  <2>10. Lists(calls', P, ledger')
    <3>1. Lists(calls', P, [ledger EXCEPT ![calls[i].location].served = @ + 1])
      BY <1>4, <2>3, <2>4, <2>5, <2>6, UsedOnce DEF at
    <3> QED
      BY <2>1, <3>1 DEF at
  <2>11. StoresInv'
    BY <1>5, <2>9, <2>10 DEF StoresInv
  <2>12. PayloadInv'
    <3>1. CallsSay(calls, ledger')
      BY <2>9 DEF PayloadOf
    <3>2. ASSUME NEW j \in 1 .. Len(calls')
          PROVE  <<calls'[j].function>> = ledger'[calls'[j].location].what.key
      <4>1. CASE calls[i].refcount = 1
        <5>1. /\ j \in 1 .. Len(calls) /\ j + 1 \in 1 .. Len(calls)
              /\ calls'[j] = IF j < i THEN calls[j] ELSE calls[j + 1]
          BY <1>4, <2>4, <4>1
        <5> QED
          BY <3>1, <5>1 DEF CallsSay
      <4>2. CASE calls[i].refcount # 1
        BY <2>4, <3>1, <4>2 DEF CallsSay
      <4> QED
        BY <4>1, <4>2
    <3>3. CallsSay(calls', ledger')
      BY <3>2 DEF CallsSay
    <3> QED
      BY <1>5, <2>9, <3>3 DEF PayloadInv, PayloadOf
  <2>13. Contract!Use(at) /\ at \in DOMAIN ledger
    BY <1>3, <1>4, <2>1, <2>2, <2>6 DEF Contract!Use, RunningInv
  <2> QED
    BY <2>1, <2>7, <2>8, <2>11, <2>12, <2>13 DEF MockInv, RunningInv, Contract!Next
<1> QED
  BY <1>6, <1>7

\* What is left in a queue at the end is an unmet declaration or a shadowed one.
\* A queue with an entry has one or more.
LEMMA AboveOne == \A n \in Nat : \A i \in 1 .. n : n # 1 => n > 1
  OBVIOUS

LEMMA QueueLeftover ==
  ASSUME OrderInv, LedgerInv, ledger \in Seq(Entries), Len(ledger) \in Nat,
         NEW kind \in {"result", "parameter"}, NEW key, NEW S, NEW q \in Seq(S),
         Lists(q, Places(kind, key, ledger), ledger)
  PROVE  DropSatisfiedFirst(q) # <<>> <=>
           \E l \in Places(kind, key, ledger) : ~Contract!Met(ledger[l]) \/ Contract!Shadowed(l)
<1> DEFINE P == Places(kind, key, ledger)
<1>1. Len(q) \in Nat /\ (q = <<>> <=> Len(q) = 0)
  BY LenProperties, EmptySeq
<1>2. \A l \in P :
        /\ l \in 1 .. Len(ledger) /\ ledger[l].what.kind = kind /\ ledger[l].what.key = key
        /\ ledger[l] \in Entries /\ InBounds(ledger[l])
  BY ElementOfSeq DEF Places, LedgerInv
<1>3. \A i \in 1 .. Len(q) :
        /\ q[i].location \in P /\ ~Contract!Exhausted(ledger[q[i].location])
        /\ q[i].refcount = Left(ledger[q[i].location])
  BY DEF Lists
<1>4. \A i \in 1 .. Len(q) :
        /\ q[i].refcount \in Int
        /\ Contract!Met(ledger[q[i].location]) <=> ~(q[i].refcount > Maybe)
        /\ Contract!Met(ledger[q[i].location]) => ledger[q[i].location].what.count < 0
  BY <1>2, <1>3, LeftTells
<1>5. \A l \in P : Contract!Exhausted(ledger[l]) \/ \E i \in 1 .. Len(q) : q[i].location = l
  BY DEF Lists
<1>6. \A i, j \in 1 .. Len(q) : i < j => q[i].location < q[j].location
  BY DEF Lists
<1> HIDE DEF P
<1>7. DropSatisfiedFirst(q) # <<>> <=> Len(q) > 1 \/ (Len(q) = 1 /\ q[1].refcount > Maybe)
  <2>1. CASE Len(q) = 0
    BY <1>1, <2>1 DEF DropSatisfiedFirst
  <2>2. CASE Len(q) > 0
    <3>1. /\ q # <<>> /\ q[1].refcount \in Int
          /\ Tail(q) \in Seq(S) /\ Len(Tail(q)) = Len(q) - 1
      BY <1>1, <1>4, <2>2, HeadTailProperties
    <3>2. Tail(q) = <<>> <=> Len(Tail(q)) = 0
      BY <3>1, EmptySeq
    <3> QED
      BY <1>1, <2>2, <3>1, <3>2 DEF DropSatisfiedFirst, Always, Maybe
  <2> QED
    BY <1>1, <2>1, <2>2
<1>8. ASSUME Len(q) > 1
      PROVE  \E l \in P : ~Contract!Met(ledger[l]) \/ Contract!Shadowed(l)
  <2> DEFINE a == q[1].location
             b == q[2].location
  <2>1. 1 \in 1 .. Len(q) /\ 2 \in 1 .. Len(q) /\ 1 < 2
    BY <1>1, <1>8
  <2>2. a \in P /\ b \in P /\ a < b
    BY <1>3, <1>6, <2>1
  <2>3. CASE Contract!Met(ledger[a])
    <3>1. ledger[a].what.count < 0
      BY <1>4, <2>1, <2>3
    <3>2. a \in 1 .. b - 1 /\ Contract!SameQueue(ledger[b], ledger[a]) /\ ledger[b].what.kind # "call"
      BY <1>2, <2>2 DEF Contract!SameQueue
    <3>3. Contract!Shadowed(b)
      BY <3>1, <3>2 DEF Contract!Shadowed
    <3> QED
      BY <2>2, <3>3
  <2> QED
    BY <2>2, <2>3
<1>9. ASSUME Len(q) = 1, q[1].refcount > Maybe
      PROVE  \E l \in P : ~Contract!Met(ledger[l]) \/ Contract!Shadowed(l)
  <2>1. 1 \in 1 .. Len(q)
    BY <1>9
  <2> QED
    BY <1>3, <1>4, <1>9, <2>1
<1>10. ASSUME NEW l \in P, ~Contract!Met(ledger[l])
       PROVE  Len(q) > 1 \/ (Len(q) = 1 /\ q[1].refcount > Maybe)
  <2>1. ~Contract!Exhausted(ledger[l])
    BY <1>10 DEF Contract!Met
  <2>2. PICK i \in 1 .. Len(q) : q[i].location = l
    BY <1>5, <2>1
  <2>3. q[i].refcount > Maybe
    BY <1>4, <1>10, <2>2
  <2>4. Len(q) \in Nat
    BY <1>1, LenProperties
  <2>5. CASE Len(q) = 1
    <3>1. i = 1
      BY <2>5
    <3> QED
      BY <2>3, <2>5, <3>1
  <2>6. CASE Len(q) # 1
    BY <2>4, <2>6, AboveOne
  <2> QED
    BY <2>5, <2>6
<1>11. ASSUME NEW l \in P, Contract!Shadowed(l)
       PROVE  Len(q) > 1
  <2>1. PICK j \in 1 .. l - 1 :
          Contract!SameQueue(ledger[l], ledger[j]) /\ ledger[j].what.count < 0
    BY <1>11 DEF Contract!Shadowed
  <2>2. j \in 1 .. Len(ledger) /\ j < l /\ j \in P /\ ledger[j].what.kind # "call"
    BY <1>2, <2>1 DEF Contract!SameQueue, P, Places
  <2>3. ~Contract!Exhausted(ledger[j])
    BY <1>2, <2>1, <2>2, DeclarationCounts DEF Contract!Exhausted, Entries
  <2>4. ~Contract!Exhausted(ledger[l])
    <3> SUFFICES ASSUME Contract!Exhausted(ledger[l]) PROVE FALSE
      OBVIOUS
    <3>1. ledger[l].served > 0
      BY <1>2, DeclarationCounts DEF Contract!Exhausted, Entries
    <3>2. Contract!SameQueue(ledger[j], ledger[l])
      BY <2>1 DEF Contract!SameQueue
    <3> QED
      BY <1>2, <2>2, <2>3, <3>1, <3>2 DEF OrderInv
  <2>5. PICK m \in 1 .. Len(q) : q[m].location = j
    BY <1>5, <2>2, <2>3
  <2>6. PICK n \in 1 .. Len(q) : q[n].location = l
    BY <1>5, <2>4
  <2>7. m # n
    BY <1>2, <2>2, <2>5, <2>6
  <2> QED
    BY <1>1, <2>5, <2>6, <2>7
<1> QED
  BY <1>7, <1>8, <1>9, <1>10, <1>11 DEF P

LEMMA CallsLeftover ==
  ASSUME LedgerInv, ledger \in Seq(Entries), calls \in Seq(CallEntry),
         Lists(calls, CallPlaces(ledger), ledger)
  PROVE  (\E i \in DOMAIN calls : calls[i].refcount >= Always) <=>
           \E l \in CallPlaces(ledger) : ~Contract!Met(ledger[l])
<1> DEFINE P == CallPlaces(ledger)
<1>1. \A l \in P : ledger[l] \in Entries /\ InBounds(ledger[l])
  BY ElementOfSeq DEF CallPlaces, LedgerInv
<1>2. \A i \in 1 .. Len(calls) :
        /\ calls[i].location \in P /\ ~Contract!Exhausted(ledger[calls[i].location])
        /\ calls[i].refcount = Left(ledger[calls[i].location])
  BY DEF Lists
<1>3. \A l \in P : Contract!Exhausted(ledger[l]) \/ \E i \in 1 .. Len(calls) : calls[i].location = l
  BY DEF Lists
<1> HIDE DEF P
<1>4. \A i \in 1 .. Len(calls) :
        calls[i].refcount >= Always <=> ~Contract!Met(ledger[calls[i].location])
  BY <1>1, <1>2, LeftTells DEF Always, Maybe
<1>5. DOMAIN calls = 1 .. Len(calls)
  BY LenProperties
<1>6. \A l \in P : ~Contract!Met(ledger[l]) => ~Contract!Exhausted(ledger[l])
  BY DEF Contract!Met
<1> QED
  BY <1>2, <1>3, <1>4, <1>5, <1>6 DEF P

\* fail_if_leftover_values finds something exactly when a declaration is unmet or shadowed.
LEMMA LeftoversTell ==
  ASSUME MockInv, test = "running"
  PROVE  HasLeftoverValues <=> ~(Contract!AllMet /\ Contract!NoneShadowed)
<1>1. /\ TypeOK /\ RunningInv /\ LedgerInv /\ OrderInv /\ StoresInv
      /\ ledger \in Seq(Entries) /\ Len(ledger) \in Nat /\ DOMAIN ledger = 1 .. Len(ledger)
      /\ calls \in Seq(CallEntry)
  BY LenProperties DEF MockInv, RunningInv, TypeOK, ExpectationsTypeOK, Entries
<1> DEFINE Bad(l) == ~Contract!Met(ledger[l]) \/ Contract!Shadowed(l)
<1>2. ASSUME NEW f \in Functions
      PROVE  DropSatisfiedFirst(results[f]) # <<>> <=>
               \E l \in Places("result", <<f>>, ledger) : Bad(l)
  <2>1. results[f] \in Seq(ReturnEntry) /\ Lists(results[f], Places("result", <<f>>, ledger), ledger)
    BY <1>1 DEF TypeOK, ExpectationsTypeOK, StoresInv
  <2> QED
    BY <1>1, <2>1, QueueLeftover
<1>3. ASSUME NEW k \in Functions \X Parameters
      PROVE  DropSatisfiedFirst(parameters[k]) # <<>> <=>
               \E l \in Places("parameter", k, ledger) : Bad(l)
  <2>1. parameters[k] \in Seq(CheckEntry) /\ Lists(parameters[k], Places("parameter", k, ledger), ledger)
    BY <1>1 DEF TypeOK, ExpectationsTypeOK, StoresInv
  <2> QED
    BY <1>1, <2>1, QueueLeftover
<1>4. (\E i \in DOMAIN calls : calls[i].refcount >= Always) <=>
        \E l \in CallPlaces(ledger) : Bad(l)
  <2>1. Lists(calls, CallPlaces(ledger), ledger)
    BY <1>1 DEF StoresInv
  <2>2. \A l \in CallPlaces(ledger) : ~Contract!Shadowed(l)
    BY DEF CallPlaces, Contract!Shadowed
  <2>3. (\E i \in DOMAIN calls : calls[i].refcount >= Always) <=>
          \E l \in CallPlaces(ledger) : ~Contract!Met(ledger[l])
    BY <1>1, <2>1, CallsLeftover
  <2> QED
    BY <2>2, <2>3
<1>5. ASSUME NEW l \in 1 .. Len(ledger)
      PROVE  \/ \E f \in Functions : l \in Places("result", <<f>>, ledger)
             \/ \E k \in Functions \X Parameters : l \in Places("parameter", k, ledger)
             \/ l \in CallPlaces(ledger)
  <2>1. ledger[l] \in Entries
    BY <1>1, ElementOfSeq
  <2>2. ledger[l].what \in Declarations
    BY <2>1 DEF Entries
  <2> QED
    BY <2>2
    DEF Declarations, ResultDeclarations, CheckDeclarations, CallDeclarations, Places, CallPlaces
<1>6. ~(Contract!AllMet /\ Contract!NoneShadowed) <=> \E l \in 1 .. Len(ledger) : Bad(l)
  BY <1>1 DEF Contract!AllMet, Contract!NoneShadowed
<1>7. /\ \A kind, key : Places(kind, key, ledger) \subseteq 1 .. Len(ledger)
      /\ CallPlaces(ledger) \subseteq 1 .. Len(ledger)
  BY DEF Places, CallPlaces
<1> HIDE DEF Bad
<1> QED
  BY <1>2, <1>3, <1>4, <1>5, <1>6, <1>7 DEF HasLeftoverValues

LEMMA EndOfTestStep ==
  ASSUME MockInv, EndOfTest
  PROVE  MockInv' /\ Contract!Next
<1>1. Contract!End
  BY LeftoversTell DEF EndOfTest, Contract!End
<1>2. /\ test' \in {"passed", "leftover"} /\ ledger' = ledger /\ refused' = refused
      /\ results' = results /\ parameters' = parameters /\ calls' = calls
  BY DEF EndOfTest, expectations
<1>3. MockInv'
  BY <1>2 DEF MockInv, TypeOK, ExpectationsTypeOK, LedgerInv
<1> QED
  BY <1>1, <1>3 DEF Contract!Next

\* Nothing is declared when a test starts.
LEMMA NothingDeclared ==
  ASSUME InitializeTesting, ledger = <<>>, refused = {}, test = "running", TypeOK
  PROVE  MockInv
<1>1. Len(ledger) = 0 /\ Len(calls) = 0 /\ \A f \in Functions : Len(results[f]) = 0
  BY EmptySeq DEF InitializeTesting
<1>2. \A k \in Functions \X Parameters : Len(parameters[k]) = 0
  BY EmptySeq DEF InitializeTesting
<1>3. StoresInv
  BY <1>1, <1>2 DEF StoresInv, Lists, Places, CallPlaces
<1>4. PayloadInv
  BY <1>1, <1>2 DEF PayloadInv, PayloadOf, ReturnsSay, ChecksSay, CallsSay
<1> QED
  BY <1>1, <1>3, <1>4 DEF MockInv, RunningInv, LedgerInv, OrderInv

LEMMA NextTestStep ==
  ASSUME MockInv, NextTest
  PROVE  MockInv' /\ Contract!Next
<1>1. Contract!NextTest
  BY DEF NextTest, Contract!NextTest
<1>2. TypeOK'
  BY EmptySeq DEF NextTest, TeardownTesting, TypeOK, ExpectationsTypeOK
<1>3. Len(ledger') = 0 /\ Len(calls') = 0 /\ \A f \in Functions : Len(results'[f]) = 0
  BY EmptySeq DEF NextTest, TeardownTesting
<1>4. \A k \in Functions \X Parameters : Len(parameters'[k]) = 0
  BY EmptySeq DEF NextTest, TeardownTesting
<1>5. StoresInv'
  BY <1>3, <1>4 DEF StoresInv, Lists, Places, CallPlaces
<1>6. PayloadInv'
  BY <1>3, <1>4 DEF PayloadInv, PayloadOf, ReturnsSay, ChecksSay, CallsSay
<1>7. refused' = {}
  BY DEF NextTest
<1> QED
  BY <1>1, <1>2, <1>3, <1>5, <1>6, <1>7 DEF MockInv, RunningInv, LedgerInv, OrderInv, Contract!Next
-----------------------------------------------------------------------------
LEMMA MockInvHolds == Spec => []MockInv
<1>1. Init => MockInv
  BY TypeInit, NothingDeclared DEF Init
<1>2. MockInv /\ [Next]_vars => MockInv'
  <2>1. ASSUME MockInv, UNCHANGED vars
        PROVE  MockInv'
    BY <2>1
    DEF vars, expectations, MockInv, TypeOK, ExpectationsTypeOK, LedgerInv, RunningInv, StoresInv,
        PayloadInv, PayloadOf, OrderInv
  <2> QED
    BY <2>1, DeclareReturnStep, CallMockStep, DeclareCheckStep, CheckStep, DeclareCallStep,
       CallOrderedStep, EndOfTestStep, NextTestStep
    DEF Next
<1> QED
  BY <1>1, <1>2, PTL DEF Spec

\* The stores hold declarations with uses left, for all functions, parameters, values and
\* counts: no return value and no ordered call with refcount 0 stays in a queue
\* (add_symbol_value, get_symbol_value, _function_called).
THEOREM MockTypeCorrect == Spec => []TypeOK
<1>1. MockInv => TypeOK
  BY DEF MockInv
<1> QED
  BY <1>1, MockInvHolds, PTL

\* While a test runs, the queues and their refcounts hold exactly the declarations that
\* still allow a use, each with the uses it has left (add_symbol_value, get_symbol_value,
\* _function_called).
THEOREM StoresMatchLedgerHolds == Spec => []StoresMatchLedger
<1>1. MockInv => StoresMatchLedger
  <2> SUFFICES ASSUME MockInv, test = "running", NEW loc \in DOMAIN ledger
               PROVE  IF Contract!Exhausted(ledger[loc])
                      THEN \A n \in -2 .. MaxServed : ~StoredAs(loc, n)
                      ELSE StoredAs(loc, Left(ledger[loc]))
    BY DEF StoresMatchLedger
  <2>1. /\ TypeOK /\ StoresInv /\ PayloadInv /\ LedgerInv
        /\ ledger \in Seq(Entries) /\ DOMAIN ledger = 1 .. Len(ledger)
        /\ calls \in Seq(CallEntry) /\ DOMAIN calls = 1 .. Len(calls)
        /\ \A f \in Functions : DOMAIN results[f] = 1 .. Len(results[f])
        /\ \A k \in Functions \X Parameters : DOMAIN parameters[k] = 1 .. Len(parameters[k])
    <3>1. /\ TypeOK /\ StoresInv /\ PayloadInv /\ LedgerInv /\ ledger \in Seq(Entries)
          /\ results \in [Functions -> Seq(ReturnEntry)]
          /\ parameters \in [Functions \X Parameters -> Seq(CheckEntry)]
          /\ calls \in Seq(CallEntry)
      BY DEF MockInv, RunningInv, TypeOK, ExpectationsTypeOK, Entries
    <3>2. DOMAIN ledger = 1 .. Len(ledger) /\ DOMAIN calls = 1 .. Len(calls)
      BY <3>1, LenProperties
    <3>3. ASSUME NEW f \in Functions PROVE DOMAIN results[f] = 1 .. Len(results[f])
      <4>1. results[f] \in Seq(ReturnEntry)
        BY <3>1
      <4> QED
        BY <4>1, LenProperties
    <3>4. ASSUME NEW k \in Functions \X Parameters
          PROVE  DOMAIN parameters[k] = 1 .. Len(parameters[k])
      <4>1. parameters[k] \in Seq(CheckEntry)
        BY <3>1
      <4> QED
        BY <4>1, LenProperties
    <3> QED
      BY <3>1, <3>2, <3>3, <3>4
  <2>2. CASE Contract!Exhausted(ledger[loc])
    <3>1. ASSUME NEW f \in Functions, NEW i \in DOMAIN results[f]
          PROVE  results[f][i].location # loc
      <4>1. Lists(results[f], Places("result", <<f>>, ledger), ledger)
        BY <2>1 DEF StoresInv
      <4>2. i \in 1 .. Len(results[f])
        BY <2>1
      <4> QED
        BY <2>2, <4>1, <4>2 DEF Lists
    <3>2. \A k \in Functions \X Parameters : \A i \in DOMAIN parameters[k] :
            parameters[k][i].location # loc
      <4> SUFFICES ASSUME NEW k \in Functions \X Parameters, NEW i \in DOMAIN parameters[k]
                   PROVE  parameters[k][i].location # loc
        OBVIOUS
      <4>1. Lists(parameters[k], Places("parameter", k, ledger), ledger)
        BY <2>1 DEF StoresInv
      <4>2. i \in 1 .. Len(parameters[k])
        BY <2>1
      <4> QED
        BY <2>2, <4>1, <4>2 DEF Lists
    <3>3. \A i \in DOMAIN calls : calls[i].location # loc
      BY <2>1, <2>2 DEF StoresInv, Lists
    <3>4. ASSUME NEW n \in -2 .. MaxServed, StoredAs(loc, n)
          PROVE  FALSE
      BY <3>1, <3>2, <3>3, <3>4 DEF StoredAs
    <3> QED
      BY <2>2, <3>4
  <2>3. CASE ~Contract!Exhausted(ledger[loc])
    <3>0. ledger[loc] \in Entries
      BY <2>1, ElementOfSeq
    <3>1. ledger[loc].what \in Declarations
      BY <3>0 DEF Entries
    <3>2. CASE \E f \in Functions : ledger[loc].what.kind = "result" /\ ledger[loc].what.key = <<f>>
      <4>1. PICK f \in Functions : ledger[loc].what.kind = "result" /\ ledger[loc].what.key = <<f>>
        BY <3>2
      <4>2. loc \in Places("result", <<f>>, ledger)
        BY <2>1, <4>1 DEF Places
      <4>3. Lists(results[f], Places("result", <<f>>, ledger), ledger) /\ ReturnsSay(results[f], ledger)
        BY <2>1 DEF StoresInv, PayloadInv, PayloadOf
      <4>4. PICK i \in 1 .. Len(results[f]) : results[f][i].location = loc
        BY <2>3, <4>2, <4>3 DEF Lists
      <4>5. results[f][i].refcount = Left(ledger[loc]) /\ {results[f][i].value} = ledger[loc].what.payload
        BY <4>3, <4>4 DEF Lists, ReturnsSay
      <4> QED
        BY <2>1, <2>3, <4>1, <4>4, <4>5 DEF StoredAs
    <3>3. CASE \E k \in Functions \X Parameters :
                 ledger[loc].what.kind = "parameter" /\ ledger[loc].what.key = k
      <4>1. PICK k \in Functions \X Parameters :
              ledger[loc].what.kind = "parameter" /\ ledger[loc].what.key = k
        BY <3>3
      <4>2. loc \in Places("parameter", k, ledger)
        BY <2>1, <4>1 DEF Places
      <4>3. Lists(parameters[k], Places("parameter", k, ledger), ledger) /\ ChecksSay(parameters[k], ledger)
        BY <2>1 DEF StoresInv, PayloadInv, PayloadOf
      <4>4. PICK i \in 1 .. Len(parameters[k]) : parameters[k][i].location = loc
        BY <2>3, <4>2, <4>3 DEF Lists
      <4>5. parameters[k][i].refcount = Left(ledger[loc]) /\ parameters[k][i].accepts = ledger[loc].what.payload
        BY <4>3, <4>4 DEF Lists, ChecksSay
      <4> QED
        BY <2>1, <2>3, <4>1, <4>4, <4>5 DEF StoredAs
    <3>4. CASE ledger[loc].what.kind = "call"
      <4>1. loc \in CallPlaces(ledger)
        BY <2>1, <3>4 DEF CallPlaces
      <4>2. Lists(calls, CallPlaces(ledger), ledger) /\ CallsSay(calls, ledger)
        BY <2>1 DEF StoresInv, PayloadInv, PayloadOf
      <4>3. PICK i \in 1 .. Len(calls) : calls[i].location = loc
        BY <2>3, <4>1, <4>2 DEF Lists
      <4>4. calls[i].refcount = Left(ledger[loc]) /\ <<calls[i].function>> = ledger[loc].what.key
        BY <4>2, <4>3 DEF Lists, CallsSay
      <4> QED
        BY <2>1, <2>3, <3>4, <4>3, <4>4 DEF StoredAs
    <3> QED
      BY <3>1, <3>2, <3>3, <3>4
      DEF Declarations, ResultDeclarations, CheckDeclarations, CallDeclarations
  <2> QED
    BY <2>2, <2>3
<1> QED
  BY <1>1, MockInvHolds, PTL

\* Refinement: with queues, refcounts and a clean-up that looks at the first entry only,
\* every test uses the same declarations, and comes to the same end, as the ledger of
\* MockContract has it (get_symbol_value, _check_expected, _function_called,
\* fail_if_leftover_values).
THEOREM ContractImplemented == Spec => ContractSpec
<1>1. Init => Contract!Init
  BY DEF Init, Contract!Init
<1>2. MockInv /\ [Next]_vars => [Contract!Next]_(Contract!contract)
  BY DeclareReturnStep, CallMockStep, DeclareCheckStep, CheckStep, DeclareCallStep,
     CallOrderedStep, EndOfTestStep, NextTestStep
  DEF Next, vars, Contract!contract
<1> QED
  BY <1>1, <1>2, MockInvHolds, PTL DEF Spec, ContractSpec, Contract!Spec

\* The theorems about the contract, for the declarations and uses of this module.
Promised == INSTANCE MockContract_proofs
              WITH ledger <- ledger, test <- test, refused <- refused

\* What the contract amounts to holds of the code: values and checks of a key serve in
\* the order of their declarations and never too often, ordered calls are accepted in
\* order, and each verdict has its reason.  A test that passes has used everything it
\* declared, as often as it said (get_symbol_value, _function_called,
\* fail_if_leftover_values, exit_test).
THEOREM PromisesKept ==
  Spec => [](/\ Contract!UsedInOrder /\ Contract!NeverOverused
             /\ Contract!CallsInOrder /\ Contract!VerdictHasReason)
<1>1. Promised!CountsAreIntegers
  BY DeclarationCounts DEF Promised!CountsAreIntegers
<1>2. Promised!Spec => [](Promised!UsedInOrder /\ Promised!NeverOverused /\ Promised!CallsInOrder)
  BY <1>1, Promised!ContractKept
<1>3. Promised!Spec => []Promised!VerdictHasReason
  BY Promised!VerdictsHaveReasons
<1>4. Contract!Init => Promised!Init
  BY DEF Contract!Init, Promised!Init
<1>5. [Contract!Next]_(Contract!contract) => [Promised!Next]_(Promised!contract)
  BY DEF Contract!Next, Promised!Next, Contract!contract, Promised!contract,
         Contract!Declare, Promised!Declare, Contract!DeclareNothing, Promised!DeclareNothing,
         Contract!Use, Promised!Use, Contract!UseWrongly, Promised!UseWrongly,
         Contract!UseUndeclared, Promised!UseUndeclared, Contract!End, Promised!End,
         Contract!NextTest, Promised!NextTest,
         Contract!Serves, Promised!Serves, Contract!Met, Promised!Met,
         Contract!Exhausted, Promised!Exhausted, Contract!SameQueue, Promised!SameQueue,
         Contract!IsFor, Promised!IsFor, Contract!Shadowed, Promised!Shadowed,
         Contract!AllMet, Promised!AllMet, Contract!NoneShadowed, Promised!NoneShadowed
<1>6. Promised!UsedInOrder /\ Promised!NeverOverused /\ Promised!CallsInOrder
        => Contract!UsedInOrder /\ Contract!NeverOverused /\ Contract!CallsInOrder
  BY DEF Contract!UsedInOrder, Promised!UsedInOrder, Contract!NeverOverused,
         Promised!NeverOverused, Contract!CallsInOrder, Promised!CallsInOrder,
         Contract!Met, Promised!Met, Contract!Exhausted, Promised!Exhausted,
         Contract!SameQueue, Promised!SameQueue
<1>7. Promised!VerdictHasReason => Contract!VerdictHasReason
  BY DEF Contract!VerdictHasReason, Promised!VerdictHasReason,
         Contract!AllMet, Promised!AllMet, Contract!NoneShadowed, Promised!NoneShadowed,
         Contract!Met, Promised!Met, Contract!Exhausted, Promised!Exhausted,
         Contract!Shadowed, Promised!Shadowed, Contract!SameQueue, Promised!SameQueue
<1> QED
  BY <1>2, <1>3, <1>4, <1>5, <1>6, <1>7, ContractImplemented, PTL
  DEF ContractSpec, Contract!Spec, Promised!Spec
=============================================================================
