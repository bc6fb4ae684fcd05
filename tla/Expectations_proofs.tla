------------------------- MODULE Expectations_proofs -------------------------
(***************************************************************************)
(* Every operation on the expectation stores keeps them well-typed; in     *)
(* particular no return value and no expected call stays behind with       *)
(* nothing left to use (refcount 0).                                       *)
(***************************************************************************)
EXTENDS Expectations, SequenceTheorems, WellFoundedInduction, TLAPS
-----------------------------------------------------------------------------
(* Facts about sequences and sets of naturals, on which the proofs about the   *)
(* heap rest as well.                                                          *)

\* Removing a place of a sequence leaves a sequence over the same set.
LEMMA RemoveAtType ==
  ASSUME NEW S, NEW s \in Seq(S), NEW i \in 1 .. Len(s)
  PROVE  RemoveAt(s, i) \in Seq(S)
<1>1. SubSeq(s, 1, i - 1) \in Seq(S)
  <2>1. \A j \in 1 .. i - 1 : s[j] \in S
    BY ElementOfSeq, LenProperties
  <2> QED
    BY <2>1, SubSeqProperties
<1>2. SubSeq(s, i + 1, Len(s)) \in Seq(S)
  <2>1. Len(s) \in Nat
    BY LenProperties
  <2>2. \A j \in i + 1 .. Len(s) : s[j] \in S
    BY <2>1, ElementOfSeq
  <2> QED
    BY <2>1, <2>2, SubSeqProperties
<1> QED
  BY <1>1, <1>2, ConcatProperties DEF RemoveAt

\* A non-empty set of naturals has a least element.
LEMMA SmallestExists ==
  ASSUME NEW N \in SUBSET Nat, N # {}
  PROVE  \E n \in N : \A m \in N : n <= m
<1>1. PICK n \in N : \A m \in N : <<m, n>> \notin OpToRel(<, Nat)
  BY NatLessThanWellFounded, WFMin
<1>2. ASSUME NEW m \in N, m < n PROVE FALSE
  <2>1. <<m, n>> \in Nat \X Nat /\ <<m, n>>[1] < <<m, n>>[2]
    BY <1>2
  <2>2. <<m, n>> \in OpToRel(<, Nat)
    BY <2>1, Zenon DEF OpToRel
  <2> QED
    BY <1>1, <2>2, Zenon
<1>3. \A m \in N : n <= m
  BY <1>2
<1> QED
  BY <1>3

\* A stretch of a sequence is a sequence over the same set.
LEMMA StretchType ==
  ASSUME NEW S, NEW s \in Seq(S), NEW m \in Nat \ {0}, NEW n \in Int, n <= Len(s)
  PROVE  SubSeq(s, m, n) \in Seq(S)
<1>1. Len(s) \in Nat
  BY LenProperties
<1>2. \A j \in m .. n : s[j] \in S
  BY <1>1, ElementOfSeq
<1> QED
  BY <1>1, <1>2, SubSeqProperties
-----------------------------------------------------------------------------
\* A retrieval uses up an entry with one use left, and leaves every other one with
\* uses to come.
LEMMA SpentNotZero ==
  ASSUME NEW r \in Int \ {0}, r # 1
  PROVE  Spent(r) \in Int \ {0}
BY DEF Spent, Maybe

LEMMA GetReturnType ==
  ASSUME NEW queue \in Seq(ReturnEntry)
  PROVE  GetSymbolValue(queue) \in Seq(ReturnEntry)
<1>1. CASE queue = <<>>
  BY <1>1 DEF GetSymbolValue
<1>2. CASE queue # <<>>
  <2>1. 1 \in 1 .. Len(queue) /\ queue[1] \in ReturnEntry
    BY <1>2, EmptySeq, ElementOfSeq
  <2>2. CASE queue[1].refcount = 1
    BY <1>2, <2>2, HeadTailProperties DEF GetSymbolValue
  <2>3. CASE queue[1].refcount # 1
    <3> DEFINE e == [queue[1] EXCEPT !.refcount = Spent(queue[1].refcount)]
    <3>1. e \in ReturnEntry
      BY <2>1, <2>3, SpentNotZero DEF ReturnEntry
    <3>2. GetSymbolValue(queue) = [queue EXCEPT ![1] = e]
      BY <1>2, <2>3 DEF GetSymbolValue
    <3> QED
      BY <2>1, <3>1, <3>2, ExceptSeq
  <2> QED
    BY <2>2, <2>3
<1> QED
  BY <1>1, <1>2

LEMMA GetCheckType ==
  ASSUME NEW queue \in Seq(CheckEntry)
  PROVE  GetSymbolValue(queue) \in Seq(CheckEntry)
<1>1. CASE queue = <<>>
  BY <1>1 DEF GetSymbolValue
<1>2. CASE queue # <<>>
  <2>1. 1 \in 1 .. Len(queue) /\ queue[1] \in CheckEntry
    BY <1>2, EmptySeq, ElementOfSeq
  <2>2. CASE queue[1].refcount = 1
    BY <1>2, <2>2, HeadTailProperties DEF GetSymbolValue
  <2>3. CASE queue[1].refcount # 1
    <3> DEFINE e == [queue[1] EXCEPT !.refcount = Spent(queue[1].refcount)]
    <3>0. queue[1].refcount \in Int /\ Spent(queue[1].refcount) \in Int
      BY <2>1 DEF CheckEntry, Spent, Maybe
    <3>1. e \in CheckEntry
      BY <2>1, <3>0 DEF CheckEntry
    <3>2. GetSymbolValue(queue) = [queue EXCEPT ![1] = e]
      BY <1>2, <2>3 DEF GetSymbolValue
    <3> QED
      BY <2>1, <3>1, <3>2, ExceptSeq
  <2> QED
    BY <2>2, <2>3
<1> QED
  BY <1>1, <1>2

LEMMA TeardownType == TeardownTesting => ExpectationsTypeOK'
BY EmptySeq DEF TeardownTesting, ExpectationsTypeOK

LEMMA WillReturnType ==
  ASSUME ExpectationsTypeOK, CountsAssumption,
         NEW f \in Functions, NEW v \in Values, NEW c \in Counts, NEW loc \in Locations,
         WillReturn(f, v, c, loc)
  PROVE  ExpectationsTypeOK'
<1> DEFINE e == [value |-> v, location |-> loc, refcount |-> c]
<1>1. CASE c = 0
  BY <1>1 DEF WillReturn, WillReturnFails, ExpectationsTypeOK
<1>2. CASE c # 0
  <2>1. e \in ReturnEntry
    BY <1>2 DEF ReturnEntry, CountsAssumption
  <2>2. Append(results[f], e) \in Seq(ReturnEntry)
    BY <2>1, AppendProperties DEF ExpectationsTypeOK
  <2>3. results' = [results EXCEPT ![f] = Append(results[f], e)]
    BY <1>2 DEF WillReturn, WillReturnFails
  <2> QED
    BY <2>2, <2>3 DEF WillReturn, ExpectationsTypeOK
<1> QED
  BY <1>1, <1>2

LEMMA MockType ==
  ASSUME ExpectationsTypeOK, NEW f \in Functions, Mock(f)
  PROVE  ExpectationsTypeOK'
BY GetReturnType DEF Mock, ExpectationsTypeOK

LEMMA ExpectCheckType ==
  ASSUME ExpectationsTypeOK, CountsAssumption,
         NEW k \in Functions \X Parameters, NEW a \in SUBSET Values,
         NEW c \in Counts, NEW loc \in Locations,
         ExpectCheck(k, a, c, loc)
  PROVE  ExpectationsTypeOK'
<1> DEFINE e == [accepts |-> a, location |-> loc, refcount |-> c]
<1>1. e \in CheckEntry
  BY DEF CheckEntry, CountsAssumption
<1>2. Append(parameters[k], e) \in Seq(CheckEntry)
  BY <1>1, AppendProperties DEF ExpectationsTypeOK
<1> QED
  BY <1>2 DEF ExpectCheck, ExpectationsTypeOK

LEMMA CheckExpectedType ==
  ASSUME ExpectationsTypeOK, NEW k \in Functions \X Parameters, CheckExpected(k)
  PROVE  ExpectationsTypeOK'
BY GetCheckType DEF CheckExpected, ExpectationsTypeOK

LEMMA ExpectFunctionCallType ==
  ASSUME ExpectationsTypeOK, CountsAssumption,
         NEW f \in Functions, NEW c \in Counts, NEW loc \in Locations,
         ExpectFunctionCall(f, c, loc)
  PROVE  ExpectationsTypeOK'
<1> DEFINE e == [function |-> f, location |-> loc, refcount |-> c]
<1>1. CASE c = 0
  BY <1>1 DEF ExpectFunctionCall, ExpectFunctionCallFails, ExpectationsTypeOK
<1>2. CASE c # 0
  <2>1. e \in CallEntry
    BY <1>2 DEF CallEntry, CountsAssumption
  <2>2. Append(calls, e) \in Seq(CallEntry)
    BY <2>1, AppendProperties DEF ExpectationsTypeOK
  <2> QED
    BY <1>2, <2>2 DEF ExpectFunctionCall, ExpectFunctionCallFails, ExpectationsTypeOK
<1> QED
  BY <1>1, <1>2

LEMMA FunctionCalledType ==
  ASSUME ExpectationsTypeOK, NEW f \in Functions, FunctionCalled(f)
  PROVE  ExpectationsTypeOK'
<1>1. CASE FunctionCalledFails(f)
  BY <1>1 DEF FunctionCalled, ExpectationsTypeOK
<1>2. CASE ~FunctionCalledFails(f)
  <2> DEFINE i == FirstStop(f)
  <2>0. calls \in Seq(CallEntry)
    BY DEF ExpectationsTypeOK
  <2>1. i \in 1 .. Len(calls)
    <3>1. SearchStops(f) # {} /\ SearchStops(f) \subseteq 1 .. Len(calls)
      BY <1>2, <2>0, LenProperties DEF FunctionCalledFails, SearchStops
    <3>2. \E n \in SearchStops(f) : \A j \in SearchStops(f) : n <= j
      <4>1. SearchStops(f) \in SUBSET Nat
        BY <3>1, <2>0, LenProperties
      <4> QED
        BY <3>1, <4>1, SmallestExists
    <3> QED
      BY <3>1, <3>2 DEF FirstStop
  <2>2. calls[i] \in CallEntry
    BY <2>0, <2>1, ElementOfSeq
  <2>3. CASE calls[i].refcount = 1
    BY <1>2, <2>0, <2>1, <2>3, RemoveAtType DEF FunctionCalled, ExpectationsTypeOK
  <2>4. CASE calls[i].refcount # 1
    <3> DEFINE e == [calls[i] EXCEPT !.refcount = Spent(calls[i].refcount)]
    <3>1. e \in CallEntry
      BY <2>2, <2>4, SpentNotZero DEF CallEntry
    <3>2. calls' = [calls EXCEPT ![i] = e]
      BY <1>2, <2>4 DEF FunctionCalled
    <3>3. calls' \in Seq(CallEntry)
      <4> HIDE DEF i, e
      <4> QED
        BY <2>0, <2>1, <3>1, <3>2, ExceptSeq
    <3> QED
      BY <3>3 DEF FunctionCalled, ExpectationsTypeOK
  <2> QED
    BY <2>3, <2>4
<1> QED
  BY <1>1, <1>2
=============================================================================
