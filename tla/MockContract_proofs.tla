------------------------- MODULE MockContract_proofs -------------------------
(***************************************************************************)
(* What the contract of MockContract amounts to, for every set of          *)
(* declarations: the order in which expectations are used, and how often.  *)
(***************************************************************************)
EXTENDS MockContract, SequenceTheorems, TLAPS

CountsAreIntegers == \A d \in Declarations : d.count \in Int

Entry == [what : Declarations, served : Nat]

\* The three promises, and the type of the ledger they are kept in.  Together
\* they are inductive: an entry that serves is not exhausted, so nothing of its
\* queue was used after it.
ContractInv ==
  /\ ledger \in Seq(Entry)
  /\ UsedInOrder
  /\ NeverOverused
  /\ CallsInOrder

LEMMA EntryAt ==
  ASSUME CountsAreIntegers, ledger \in Seq(Entry), NEW i \in DOMAIN ledger
  PROVE  /\ ledger[i] \in Entry
         /\ ledger[i].what.count \in Int
         /\ ledger[i].served \in Nat
<1>1. ledger[i] \in Entry
  BY ElementOfSeq, LenProperties
<1> QED
  BY <1>1 DEF Entry, CountsAreIntegers

\* Counting one use of the entry that serves.
LEMMA ServeKeepsInv ==
  ASSUME CountsAreIntegers, ContractInv, NEW i \in DOMAIN ledger, Serves(i),
         ledger[i].what.count # 0,
         ledger' = [ledger EXCEPT ![i].served = @ + 1]
  PROVE  ContractInv'
<1> DEFINE e == [ledger[i] EXCEPT !.served = ledger[i].served + 1]
<1>1. /\ ledger[i] \in Entry
      /\ ledger[i].what.count \in Int
      /\ ledger[i].served \in Nat
  BY EntryAt DEF ContractInv
<1>2. e \in Entry /\ e.what = ledger[i].what /\ e.served = ledger[i].served + 1
  BY <1>1 DEF Entry
<1>3. ledger' = [ledger EXCEPT ![i] = e]
  OBVIOUS
<1>4. ledger' \in Seq(Entry) /\ DOMAIN ledger' = DOMAIN ledger
  <2> HIDE DEF e
  <2> QED
    BY <1>2, <1>3, ExceptSeq, LenProperties DEF ContractInv
<1>5. /\ ledger'[i] = e
      /\ \A j \in DOMAIN ledger : j # i => ledger'[j] = ledger[j]
  <2> HIDE DEF e
  <2> QED
    BY <1>3, LenProperties DEF ContractInv
<1>6. ~Exhausted(ledger[i])
  BY DEF Serves
<1> HIDE DEF e
<1>7. /\ DOMAIN ledger \subseteq Int
      /\ \A j \in DOMAIN ledger : ledger'[j].what = ledger[j].what
      /\ \A j \in DOMAIN ledger : j # i => Exhausted(ledger'[j]) = Exhausted(ledger[j])
  BY <1>2, <1>5, LenProperties DEF ContractInv
<1>8. UsedInOrder'
  <2> SUFFICES ASSUME NEW j \in DOMAIN ledger, NEW k \in DOMAIN ledger,
                      j < k, SameQueue(ledger[j], ledger[k]), ledger'[k].served > 0
               PROVE  Exhausted(ledger'[j])
    <3>1. \A j, k \in DOMAIN ledger : SameQueue(ledger'[j], ledger'[k]) => SameQueue(ledger[j], ledger[k])
      BY <1>7 DEF SameQueue
    <3> QED
      BY <1>4, <3>1 DEF UsedInOrder
  <2>1. CASE k = i
    <3>1. j # i /\ j \in 1 .. i - 1
      BY <1>7, <2>1, LenProperties DEF ContractInv
    <3>2. Exhausted(ledger[j])
      BY <2>1, <3>1 DEF Serves, SameQueue
    <3> QED
      BY <1>7, <3>1, <3>2
  <2>2. CASE k # i
    <3>1. ledger[k].served > 0
      BY <1>5, <2>2
    <3>2. Exhausted(ledger[j])
      BY <3>1 DEF ContractInv, UsedInOrder
    <3> QED
      BY <1>6, <1>7, <3>2
  <2> QED
    BY <2>1, <2>2
<1>9. NeverOverused'
  <2> SUFFICES ASSUME NEW j \in DOMAIN ledger, ledger[j].what.count >= 0
               PROVE  ledger'[j].served <= ledger[j].what.count
    BY <1>4, <1>7 DEF NeverOverused
  <2>1. ledger[j].served <= ledger[j].what.count
    BY DEF ContractInv, NeverOverused
  <2>2. CASE j = i
    BY <1>1, <1>2, <1>5, <1>6, <2>1, <2>2 DEF Exhausted
  <2>3. CASE j # i
    BY <1>5, <2>1, <2>3
  <2> QED
    BY <2>2, <2>3
<1>10. CallsInOrder'
  <2> SUFFICES ASSUME NEW j \in DOMAIN ledger, NEW k \in DOMAIN ledger, j < k,
                      ledger[j].what.kind = "call", ledger[k].what.kind = "call",
                      ledger'[k].served > 0
               PROVE  Met(ledger'[j])
    BY <1>4, <1>7 DEF CallsInOrder
  <2>1. CASE k = i
    <3>1. j # i /\ j \in 1 .. i - 1
      BY <1>7, <2>1, LenProperties DEF ContractInv
    <3>2. Met(ledger[j])
      BY <2>1, <3>1 DEF Serves, Met
    <3> QED
      BY <1>5, <3>1, <3>2
  <2>2. CASE k # i
    <3>1. Met(ledger[j])
      BY <1>5, <2>2 DEF ContractInv, CallsInOrder
    <3>2. CASE j = i
      BY <1>1, <1>2, <1>5, <1>6, <3>1, <3>2 DEF Met
    <3>3. CASE j # i
      BY <1>5, <3>1, <3>3
    <3> QED
      BY <3>2, <3>3
  <2> QED
    BY <2>1, <2>2
<1> QED
  BY <1>4, <1>8, <1>9, <1>10 DEF ContractInv

\* A new declaration stands behind all others and was not used.
LEMMA DeclareKeepsInv ==
  ASSUME CountsAreIntegers, ContractInv, NEW d \in Declarations, Declare(d)
  PROVE  ContractInv'
<1> DEFINE e == [what |-> d, served |-> 0]
           n == Len(ledger)
<1>1. e \in Entry /\ e.what.count \in Int /\ e.served = 0
  BY DEF Entry, CountsAreIntegers
<1>2. ledger' = Append(ledger, e)
  BY DEF Declare
<1> HIDE DEF e
<1>3. /\ ledger' \in Seq(Entry) /\ n \in Nat
      /\ DOMAIN ledger = 1 .. n /\ DOMAIN ledger' = 1 .. n + 1
      /\ \A j \in 1 .. n : ledger'[j] = ledger[j]
      /\ ledger'[n + 1] = e
  BY <1>1, <1>2, AppendProperties, LenProperties DEF ContractInv
<1> HIDE DEF n
<1>4. UsedInOrder' /\ CallsInOrder'
  BY <1>1, <1>3 DEF ContractInv, UsedInOrder, CallsInOrder
<1>5. NeverOverused'
  BY <1>1, <1>3 DEF ContractInv, NeverOverused
<1> QED
  BY <1>3, <1>4, <1>5 DEF ContractInv

LEMMA EmptyLedger == ledger = <<>> => ContractInv
BY EmptySeq DEF ContractInv, UsedInOrder, NeverOverused, CallsInOrder

\* Expectations of one key are used in the order of their declarations, none more
\* often than it was declared for, and an ordered call is accepted only when all
\* that was declared before it is met (get_symbol_value, _function_called).
THEOREM ContractKept ==
  ASSUME CountsAreIntegers
  PROVE  Spec => [](UsedInOrder /\ NeverOverused /\ CallsInOrder)
<1>1. Init => ContractInv
  BY EmptyLedger DEF Init
<1>2. ContractInv /\ [Next]_contract => ContractInv'
  <2> SUFFICES ASSUME ContractInv, [Next]_contract
               PROVE  ContractInv'
    OBVIOUS
  <2>1. ASSUME NEW d \in Declarations, Declare(d) PROVE ContractInv'
    BY <2>1, DeclareKeepsInv
  <2>2. ASSUME NEW i \in DOMAIN ledger, Use(i) \/ \E u \in Uses : UseWrongly(i, u)
        PROVE  ContractInv'
    BY <2>2, ServeKeepsInv DEF Use, UseWrongly
  <2>3. CASE UNCHANGED ledger
    BY <2>3 DEF ContractInv, UsedInOrder, NeverOverused, CallsInOrder
  <2>4. CASE NextTest
    <3>1. ledger' = <<>>
      BY <2>4 DEF NextTest
    <3> QED
      BY <3>1, EmptySeq DEF ContractInv, UsedInOrder, NeverOverused, CallsInOrder
  <2> QED
    <3>1. CASE \E d \in Declarations : Declare(d) \/ DeclareNothing(d)
      BY <2>1, <2>3, <3>1 DEF DeclareNothing
    <3>2. CASE \E i \in DOMAIN ledger : Use(i) \/ \E u \in Uses : UseWrongly(i, u)
      BY <2>2, <3>2
    <3>3. CASE \E u \in Uses : UseUndeclared(u)
      BY <2>3, <3>3 DEF UseUndeclared
    <3>4. CASE End \/ UNCHANGED contract
      BY <2>3, <3>4 DEF End, contract
    <3> QED
      BY <2>4, <3>1, <3>2, <3>3, <3>4 DEF Next
<1>3. ContractInv => UsedInOrder /\ NeverOverused /\ CallsInOrder
  BY DEF ContractInv
<1> QED
  BY <1>1, <1>2, <1>3, PTL DEF Spec

\* Only what ends a test with an exit is ever refused.
FateInv ==
  /\ VerdictHasReason
  /\ test = "running" => refused = {}
  /\ test \in {"running", "passed", "leftover", "rejected"}

\* No test passes with a declaration unmet or shadowed, and none fails without a
\* cause that its declarations and uses show (fail_if_leftover_values, exit_test).
THEOREM VerdictsHaveReasons == Spec => []VerdictHasReason
<1>1. Init => FateInv
  BY DEF Init, FateInv, VerdictHasReason
<1>2. FateInv /\ [Next]_contract => FateInv'
  <2> SUFFICES ASSUME FateInv, [Next]_contract
               PROVE  FateInv'
    OBVIOUS
  <2>1. CASE test' = "running" /\ refused' = {}
    BY <2>1 DEF FateInv, VerdictHasReason
  <2>2. CASE test' = "rejected" /\ refused' # {}
    BY <2>2 DEF FateInv, VerdictHasReason
  <2>3. CASE End
    BY <2>3 DEF End, FateInv, VerdictHasReason, AllMet, NoneShadowed, Shadowed
  <2>4. CASE UNCHANGED contract
    BY <2>4 DEF contract, FateInv, VerdictHasReason, AllMet, NoneShadowed, Shadowed
  <2>5. CASE \E d \in Declarations : Declare(d) \/ DeclareNothing(d)
    BY <2>1, <2>2, <2>5 DEF Declare, DeclareNothing, FateInv
  <2>6. CASE \E i \in DOMAIN ledger : Use(i) \/ \E u \in Uses : UseWrongly(i, u)
    BY <2>1, <2>2, <2>6 DEF Use, UseWrongly, FateInv
  <2>7. CASE \E u \in Uses : UseUndeclared(u)
    BY <2>2, <2>7 DEF UseUndeclared
  <2>8. CASE NextTest
    BY <2>1, <2>8 DEF NextTest
  <2> QED
    BY <2>3, <2>4, <2>5, <2>6, <2>7, <2>8 DEF Next
<1>3. FateInv => VerdictHasReason
  BY DEF FateInv
<1> QED
  BY <1>1, <1>2, <1>3, PTL DEF Spec
=============================================================================
