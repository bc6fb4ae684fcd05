-------------------------- MODULE TestRunner_proofs --------------------------
(***************************************************************************)
(* Theorems about TestRunner, for every number of tests and groups, every  *)
(* script of the user functions and every heap.                            *)
(***************************************************************************)
EXTENDS TestRunner, Expectations_proofs, FiniteSetTheorems, TLAPS
-----------------------------------------------------------------------------
(* Every operation on the checking heap keeps the list of blocks a list of blocks. *)

\* An allocated block has a place in the list.
LEMMA PlaceType ==
  ASSUME HeapTypeOK, NEW b \in Allocated
  PROVE  /\ Place(b) \in 1 .. Len(blocks)
         /\ blocks[Place(b)] = b
<1>1. \E i \in DOMAIN blocks : blocks[i] = b
  BY DEF Allocated, ToSet
<1> QED
  BY <1>1, LenProperties DEF Place, HeapTypeOK

LEMMA AllocatedBlocks == HeapTypeOK => Allocated \subseteq Blocks
BY LenProperties, ElementOfSeq DEF HeapTypeOK, Allocated, ToSet

LEMMA UnlinkType ==
  ASSUME HeapTypeOK, NEW b \in Allocated
  PROVE  Unlink(b) \in Seq(Blocks)
BY PlaceType, RemoveAtType DEF Unlink, HeapTypeOK

\* The first place after a check point that can be followed is in the list, or
\* just behind it.
LEMMA FirstAfterType ==
  ASSUME HeapTypeOK, NEW point, Follows(point)
  PROVE  FirstAfter(point) \in 1 .. Len(blocks) + 1
<1>1. Len(blocks) \in Nat
  BY LenProperties DEF HeapTypeOK
<1>2. CASE point = Root
  BY <1>1, <1>2 DEF FirstAfter
<1>3. CASE point # Root
  BY <1>1, <1>3, PlaceType DEF FirstAfter, Follows
<1> QED
  BY <1>2, <1>3

\* A check point is the head of the list or its youngest block.
LEMMA CheckPointType == HeapTypeOK => CheckPoint \in CheckPoints
<1> SUFFICES ASSUME HeapTypeOK
             PROVE  CheckPoint \in CheckPoints
  OBVIOUS
<1>1. CASE blocks = <<>>
  BY <1>1 DEF CheckPoint, CheckPoints
<1>2. CASE blocks # <<>>
  <2>1. Len(blocks) \in 1 .. Len(blocks)
    BY <1>2, EmptySeq DEF HeapTypeOK
  <2>2. blocks[Len(blocks)] \in Blocks
    BY <2>1, ElementOfSeq DEF HeapTypeOK
  <2> QED
    BY <1>2, <2>2 DEF CheckPoint, CheckPoints, Last
<1> QED
  BY <1>1, <1>2

LEMMA MallocType ==
  ASSUME HeapTypeOK, NEW b \in Blocks, Malloc(b)
  PROVE  HeapTypeOK'
BY AppendProperties DEF Malloc, HeapTypeOK

LEMMA FreeType ==
  ASSUME HeapTypeOK, NEW b \in Allocated, Free(b)
  PROVE  HeapTypeOK'
BY UnlinkType DEF Free, HeapTypeOK

LEMMA ReallocType ==
  ASSUME HeapTypeOK, NEW b \in Allocated, NEW new \in Blocks, Realloc(b, new)
  PROVE  HeapTypeOK'
<1> DEFINE rest == IF FreeFails(b) THEN blocks ELSE Unlink(b)
<1>1. rest \in Seq(Blocks)
  BY UnlinkType DEF HeapTypeOK
<1>2. Append(rest, new) \in Seq(Blocks)
  BY <1>1, AppendProperties
<1> QED
  BY <1>2 DEF Realloc, HeapTypeOK

LEMMA OverrunType ==
  ASSUME HeapTypeOK, NEW b \in Allocated, Overrun(b)
  PROVE  HeapTypeOK'
BY AllocatedBlocks DEF Overrun, HeapTypeOK

LEMMA FreeFromType ==
  ASSUME HeapTypeOK, NEW first \in 1 .. Len(blocks) + 1, FreeFrom(first)
  PROVE  HeapTypeOK'
<1> DEFINE stop  == {i \in first .. Len(blocks) : FreeFails(blocks[i])}
<1>1. first \in 1 .. Len(blocks) + 1 /\ Len(blocks) \in Nat
  BY LenProperties DEF HeapTypeOK
<1>2. SubSeq(blocks, 1, first - 1) \in Seq(Blocks)
  BY <1>1, StretchType DEF HeapTypeOK
<1>3. Unfreed(first) \in Seq(Blocks)
  <2>1. CASE stop = {}
    BY <2>1, EmptySeq DEF Unfreed
  <2>2. CASE stop # {}
    <3> DEFINE least == CHOOSE i \in stop : \A j \in stop : i <= j
    <3>1. \E i \in stop : \A j \in stop : i <= j
      <4>1. stop \in SUBSET Nat
        BY <1>1
      <4> HIDE DEF stop
      <4> QED
        BY <2>2, <4>1, SmallestExists
    <3>2. least \in stop
      <4> HIDE DEF stop
      <4> QED
        BY <3>1
    <3>3. least \in Nat \ {0}
      <4> HIDE DEF least
      <4> QED
        BY <1>1, <3>2
    <3>4. SubSeq(blocks, least, Len(blocks)) \in Seq(Blocks)
      <4> HIDE DEF least
      <4> QED
        BY <1>1, <3>3, StretchType DEF HeapTypeOK
    <3> QED
      BY <2>2, <3>4 DEF Unfreed
  <2> QED
    BY <2>1, <2>2
<1> QED
  BY <1>2, <1>3, ConcatProperties DEF FreeFrom, HeapTypeOK

LEMMA FreeAllocatedBlocksType ==
  ASSUME HeapTypeOK, NEW point, Follows(point), FreeAllocatedBlocks(point)
  PROVE  HeapTypeOK'
BY FirstAfterType, FreeFromType DEF FreeAllocatedBlocks
-----------------------------------------------------------------------------
InFrame == {"body", "checks", "leftovers", "jumped", "leave"}

\* The inductive invariant behind FrameDiscipline: what is saved while a frame is
\* active is what was installed before.
FrameInv ==
  /\ running \in BOOLEAN
  /\ handler \in {"default", "exception_handler"}
  /\ pc \in InFrame => saved = "default"
  /\ FrameDiscipline

\* Every frame is entered from outside of a frame, and leaves it as it was.
LEMMA EnterFrame ==
  ASSUME NEW kind, NEW point, FrameInv, Enter(kind, point),
         pc \in {"group", "return", "next", "wrapUp", "returned"}
  PROVE  FrameInv'
BY DEF FrameInv, FrameDiscipline, Enter, InFrame, Lost

LEMMA GotoPlace ==
  ASSUME NEW place \in {"next", "wrapUp", "finish", "returned"},
         FrameInv, Goto(place),
         pc \in {"group", "return", "next", "wrapUp", "returned"}
  PROVE  FrameInv'
BY DEF FrameInv, FrameDiscipline, Goto, signals, InFrame, Lost

LEMMA FrameInvInit == Init => FrameInv
BY DEF Init, FrameInv, FrameDiscipline, InFrame, Lost

\* What a user function does leaves its frame through the checks, through
\* exit_test, or not at all.
LEMMA UserStepFrame == FrameInv /\ UserStep => FrameInv'
<1> SUFFICES ASSUME FrameInv, UserStep
             PROVE  FrameInv'
  OBVIOUS
<1> USE DEF FrameInv, FrameDiscipline, InFrame, Lost, control, flags, signals,
            MakesCall, Finishes, ExitTest
<1>1. CASE ReturnFromBody
  BY <1>1 DEF ReturnFromBody
<1>2. CASE UseMock
  BY <1>2 DEF UseMock
<1>3. CASE UseOrderedCall
  BY <1>3 DEF UseOrderedCall
<1>4. CASE UseMalloc
  BY <1>4 DEF UseMalloc
<1>5. CASE UseFree
  BY <1>5 DEF UseFree
<1>6. CASE UseRealloc
  BY <1>6 DEF UseRealloc
<1>7. CASE OverrunBlock
  BY <1>7 DEF OverrunBlock
<1>8. CASE Fail
  BY <1>8 DEF Fail
<1>9. CASE Skip
  BY <1>9 DEF Skip
<1>10. CASE Stop
  BY <1>10 DEF Stop
<1>11. CASE ExpectAssertFailure
  BY <1>11 DEF ExpectAssertFailure
<1>12. CASE AssertMissing
  BY <1>12 DEF AssertMissing
<1>13. CASE MockAssert
  BY <1>13 DEF MockAssert
<1> QED
  BY <1>1, <1>2, <1>3, <1>4, <1>5, <1>6, <1>7, <1>8, <1>9, <1>10, <1>11, <1>12, <1>13
  DEF UserStep

LEMMA FrameStepFrame == FrameInv /\ FrameStep => FrameInv'
<1> SUFFICES ASSUME FrameInv, FrameStep
             PROVE  FrameInv'
  OBVIOUS
<1> USE DEF FrameInv, FrameDiscipline, InFrame, Lost, flags, signals, ExitTest
<1>1. CASE LeakCheck
  BY <1>1 DEF LeakCheck
<1>2. CASE FailIfLeftoverValues
  BY <1>2 DEF FailIfLeftoverValues
<1>3. CASE Landed
  BY <1>3 DEF Landed
<1>4. CASE Leave
  BY <1>4 DEF Leave, RestoreHandlers
<1> QED
  BY <1>1, <1>2, <1>3, <1>4 DEF FrameStep

LEMMA GroupStepFrame == FrameInv /\ GroupStep => FrameInv'
<1> SUFFICES ASSUME FrameInv, GroupStep
             PROVE  FrameInv'
  OBVIOUS
<1>1. CASE BeginGroup \/ OutOfMemory
  BY <1>1, EnterFrame, GotoPlace DEF BeginGroup, OutOfMemory, StartGroup
<1>2. CASE AfterGroupSetup
  BY <1>2, GotoPlace DEF AfterGroupSetup, Returned
<1>3. CASE StartTest
  BY <1>3, EnterFrame DEF StartTest
<1>4. CASE AfterSetup
  BY <1>4, EnterFrame, GotoPlace DEF AfterSetup, Returned, Account
<1>5. CASE AfterTest
  BY <1>5, EnterFrame, GotoPlace DEF AfterTest, Returned, Account
<1>6. CASE AfterTeardown
  BY <1>6, GotoPlace DEF AfterTeardown, Returned, Account
<1>7. CASE WrapUp
  BY <1>7, EnterFrame, GotoPlace DEF WrapUp
<1>8. CASE AfterGroupTeardown
  BY <1>8, GotoPlace DEF AfterGroupTeardown, Returned
<1>9. CASE Finish
  BY <1>9 DEF Finish, ExitTest, FrameInv, FrameDiscipline, InFrame, Lost, flags, signals
<1> QED
  BY <1>1, <1>2, <1>3, <1>4, <1>5, <1>6, <1>7, <1>8, <1>9 DEF GroupStep

LEMMA FrameInvHolds == Spec => []FrameInv
<1>1. Init => FrameInv
  BY FrameInvInit
<1>2. FrameInv /\ [Next]_vars => FrameInv'
  <2> SUFFICES ASSUME FrameInv, [Next]_vars
               PROVE  FrameInv'
    OBVIOUS
  <2>1. CASE Next
    BY <2>1, UserStepFrame, FrameStepFrame, GroupStepFrame DEF Next
  <2>2. CASE UNCHANGED vars
    BY <2>2 DEF vars, FrameInv, FrameDiscipline, flags, signals, InFrame, Lost
  <2> QED
    BY <2>1, <2>2
<1> QED
  BY <1>1, <1>2, PTL DEF Spec

\* exit_test never jumps to a frame that is gone, no signal is caught outside of a
\* frame, and no stop() is remembered beyond its frame
\* (cmocka_run_one_test_or_fixture).
THEOREM FrameDisciplineHolds == Spec => []FrameDiscipline
<1>1. FrameInv => FrameDiscipline
  BY DEF FrameInv
<1> QED
  BY <1>1, FrameInvHolds, PTL
-----------------------------------------------------------------------------
(* Type correctness.                                                       *)

\* The part of TypeOK that is about the frame, and the part about the group.
FrameTypeOK ==
  /\ ExpectationsTypeOK
  /\ HeapTypeOK
  /\ pc \in Places
  /\ frame \in Frames
  /\ ops \in 0 .. MaxOps
  /\ running \in BOOLEAN /\ stopTest \in BOOLEAN
  /\ expecting \in BOOLEAN /\ guarded \in BOOLEAN
  /\ handler \in {"default", "exception_handler"}
  /\ saved \in {"default", "exception_handler"}
  /\ checkPoint \in CheckPoints
  /\ rc \in {-1, 0}
  /\ own \subseteq Blocks

GroupTypeOK ==
  /\ current \in 0 .. NumTests
  /\ groups \in 0 .. MaxGroups
  /\ suite \in Suites
  /\ skipTest \in BOOLEAN
  /\ testPoint \in CheckPoints \cup {Null}
  /\ groupPoint \in CheckPoints
  /\ status \in [Tests -> Statuses]
  /\ totals \in [Counters -> Nat]
  /\ verdict \in Int
  /\ cause \in Endings
  /\ ended \in [Tests -> Endings]
  /\ failures \subseteq Frames \X (0 .. NumTests)

LEMMA TypeParts == TypeOK <=> FrameTypeOK /\ GroupTypeOK
BY DEF TypeOK, FrameTypeOK, GroupTypeOK

\* What the operators of the runner compute.
LEMMA HelperTypes ==
  ASSUME TypeOK
  PROVE  /\ ReturnOfJump \in {-1, 0}
         /\ StatusOfTest \in Statuses
         /\ CheckPoint \in CheckPoints
<1>1. HeapTypeOK
  BY DEF TypeOK
<1>2. CheckPoint \in CheckPoints
  BY <1>1, CheckPointType
<1> QED
  BY <1>2 DEF ReturnOfJump, StatusOfTest, Statuses

LEMMA EnterType ==
  ASSUME TypeOK, NEW kind \in Frames, NEW point \in CheckPoints \cup {Null},
         Enter(kind, point)
  PROVE  FrameTypeOK'
<1>1. ExpectationsTypeOK'
  BY TeardownType DEF Enter
<1>2. HeapTypeOK'
  BY DEF Enter, TypeOK, HeapTypeOK, heap
<1>3. checkPoint' \in CheckPoints
  BY HelperTypes DEF Enter, FrameCheckPoint
<1> QED
  BY <1>1, <1>2, <1>3, RunnerAssumption DEF Enter, TypeOK, FrameTypeOK, Places

LEMMA GotoType ==
  ASSUME TypeOK, NEW place \in Places, Goto(place)
  PROVE  FrameTypeOK'
BY DEF Goto, TypeOK, FrameTypeOK, signals, expectations, heap, ExpectationsTypeOK, HeapTypeOK

LEMMA CountType ==
  ASSUME TypeOK, NEW counters, Count(counters)
  PROVE  totals' \in [Counters -> Nat]
BY DEF TypeOK, Count

LEMMA AccountType ==
  ASSUME TypeOK, NEW s \in Statuses, Account(s)
  PROVE  /\ status' \in [Tests -> Statuses]
         /\ totals' \in [Counters -> Nat]
BY CountType DEF Account, TypeOK

LEMMA ExitTestType ==
  ASSUME NEW skipping, ExitTest(skipping)
  PROVE  pc' \in Places
BY DEF ExitTest, Places, Lost

LEMMA FinishesType ==
  ASSUME TypeOK, NEW fails, Finishes(fails)
  PROVE  pc' \in Places /\ cause' \in Endings
BY ExitTestType DEF Finishes, TypeOK, Endings

LEMMA MakesCallType ==
  ASSUME TypeOK, NEW operation, MakesCall(operation)
  PROVE  ops' \in 0 .. MaxOps
BY RunnerAssumption DEF MakesCall, TypeOK

\* Steps on the expectations.
LEMMA MockStepType ==
  ASSUME TypeOK, UseMock \/ UseOrderedCall
  PROVE  ExpectationsTypeOK' /\ pc' \in Places /\ cause' \in Endings
         /\ ops' \in 0 .. MaxOps
<1>1. ExpectationsTypeOK
  BY DEF TypeOK
<1>2. ops' \in 0 .. MaxOps
  BY MakesCallType DEF UseMock, UseOrderedCall
<1>3. pc' \in Places /\ cause' \in Endings
  BY FinishesType DEF UseMock, UseOrderedCall
<1>4. ASSUME UseMock PROVE ExpectationsTypeOK'
  BY <1>1, <1>4, CountsAssumption, WillReturnType, MockType DEF UseMock
<1>5. ASSUME UseOrderedCall PROVE ExpectationsTypeOK'
  BY <1>1, <1>5, CountsAssumption, ExpectFunctionCallType, FunctionCalledType
  DEF UseOrderedCall
<1> QED
  BY <1>2, <1>3, <1>4, <1>5

\* Steps on the heap.
LEMMA HeapStepType ==
  ASSUME TypeOK, UseMalloc \/ UseFree \/ UseRealloc \/ OverrunBlock
  PROVE  HeapTypeOK' /\ pc' \in Places /\ cause' \in Endings
         /\ ops' \in 0 .. MaxOps /\ own' \subseteq Blocks
<1>1. HeapTypeOK /\ own \subseteq Blocks /\ pc \in Places /\ cause \in Endings
  BY DEF TypeOK
<1>2. ops' \in 0 .. MaxOps
  BY MakesCallType DEF UseMalloc, UseFree, UseRealloc, OverrunBlock
<1>3. pc' \in Places /\ cause' \in Endings
  BY <1>1, FinishesType DEF UseMalloc, UseFree, UseRealloc, OverrunBlock
<1>4. ASSUME UseMalloc PROVE HeapTypeOK' /\ own' \subseteq Blocks
  BY <1>1, <1>4, MallocType DEF UseMalloc
<1>5. ASSUME UseFree PROVE HeapTypeOK' /\ own' \subseteq Blocks
  BY <1>1, <1>5, FreeType DEF UseFree, Free
<1>6. ASSUME UseRealloc PROVE HeapTypeOK' /\ own' \subseteq Blocks
  BY <1>1, <1>6, ReallocType DEF UseRealloc, Realloc
<1>7. ASSUME OverrunBlock PROVE HeapTypeOK' /\ own' \subseteq Blocks
  BY <1>1, <1>7, OverrunType DEF OverrunBlock, Overrun
<1> QED
  BY <1>2, <1>3, <1>4, <1>5, <1>6, <1>7

LEMMA UnchangedStores ==
  /\ ExpectationsTypeOK /\ UNCHANGED expectations => ExpectationsTypeOK'
  /\ HeapTypeOK /\ UNCHANGED heap => HeapTypeOK'
BY DEF expectations, heap, ExpectationsTypeOK, HeapTypeOK

LEMMA UserStepType == TypeOK /\ UserStep => TypeOK'
<1> SUFFICES ASSUME TypeOK, UserStep
             PROVE  TypeOK'
  OBVIOUS
<1> USE UnchangedStores DEF control, group, flags, signals, points, report
<1>1. CASE ReturnFromBody
  BY <1>1 DEF ReturnFromBody, TypeOK, Places, Endings
<1>2. CASE UseMock
  BY <1>2, MockStepType DEF UseMock, TypeOK
<1>3. CASE UseOrderedCall
  BY <1>3, MockStepType DEF UseOrderedCall, TypeOK
<1>4. CASE UseMalloc
  <2>1. HeapTypeOK' /\ pc' \in Places /\ cause' \in Endings /\ ops' \in 0 .. MaxOps /\ own' \subseteq Blocks
    BY <1>4, HeapStepType
  <2> QED
    BY <1>4, <2>1 DEF UseMalloc, TypeOK
<1>5. CASE UseFree
  <2>1. HeapTypeOK' /\ pc' \in Places /\ cause' \in Endings /\ ops' \in 0 .. MaxOps /\ own' \subseteq Blocks
    BY <1>5, HeapStepType
  <2> QED
    BY <1>5, <2>1 DEF UseFree, TypeOK
<1>6. CASE UseRealloc
  <2>1. HeapTypeOK' /\ pc' \in Places /\ cause' \in Endings /\ ops' \in 0 .. MaxOps /\ own' \subseteq Blocks
    BY <1>6, HeapStepType
  <2> QED
    BY <1>6, <2>1 DEF UseRealloc, TypeOK
<1>7. CASE OverrunBlock
  <2>1. HeapTypeOK' /\ pc' \in Places /\ cause' \in Endings /\ ops' \in 0 .. MaxOps /\ own' \subseteq Blocks
    BY <1>7, HeapStepType
  <2> QED
    BY <1>7, <2>1 DEF OverrunBlock, TypeOK
<1>8. CASE Fail
  <2>1. ops' \in 0 .. MaxOps /\ pc' \in Places /\ cause' \in Endings
    BY <1>8, MakesCallType, FinishesType DEF Fail
  <2> QED
    BY <1>8, <2>1 DEF Fail, TypeOK
<1>9. CASE Skip
  BY <1>9, MakesCallType, ExitTestType DEF Skip, TypeOK, Endings
<1>10. CASE Stop
  BY <1>10, MakesCallType, ExitTestType DEF Stop, TypeOK, Endings
<1>11. CASE ExpectAssertFailure
  BY <1>11, MakesCallType DEF ExpectAssertFailure, TypeOK
<1>12. CASE AssertMissing
  BY <1>12, FinishesType DEF AssertMissing, LowerExpecting, TypeOK
<1>13. CASE MockAssert
  <2>1. ops' \in 0 .. MaxOps
    BY <1>13, MakesCallType DEF MockAssert
  <2>2. CASE expecting
    <3>1. pc' \in Places /\ expecting' \in BOOLEAN /\ guarded' \in BOOLEAN
      BY <1>13, <2>2 DEF MockAssert, TypeOK, Places, Lost
    <3> QED
      BY <1>13, <2>1, <2>2, <3>1 DEF MockAssert, TypeOK
  <2>3. CASE ~expecting
    <3>1. pc' \in Places /\ cause' \in Endings
      BY <1>13, <2>3, FinishesType DEF MockAssert
    <3> QED
      BY <1>13, <2>1, <2>3, <3>1 DEF MockAssert, TypeOK
  <2> QED
    BY <2>2, <2>3
<1> QED
  BY <1>1, <1>2, <1>3, <1>4, <1>5, <1>6, <1>7, <1>8, <1>9, <1>10, <1>11, <1>12, <1>13
  DEF UserStep

LEMMA FrameStepType == TypeOK /\ FrameStep => TypeOK'
<1> SUFFICES ASSUME TypeOK, FrameStep
             PROVE  TypeOK'
  OBVIOUS
<1> USE UnchangedStores DEF group, flags, signals, points, report
<1>1. CASE LeakCheck
  <2>1. HeapTypeOK'
    <3>1. \A first \in DOMAIN blocks : first \in 1 .. Len(blocks) + 1
      BY LenProperties DEF TypeOK, HeapTypeOK
    <3> QED
      BY <1>1, <3>1, FreeFromType, FreeAllocatedBlocksType, UnchangedStores
      DEF LeakCheck, TypeOK
  <2>2. pc' \in Places /\ cause' \in Endings
    BY <1>1, ExitTestType DEF LeakCheck, TypeOK, Places, Endings
  <2> QED
    BY <1>1, <2>1, <2>2 DEF LeakCheck, TypeOK
<1>2. CASE FailIfLeftoverValues
  <2>1. pc' \in Places /\ cause' \in Endings /\ running' \in BOOLEAN
    BY <1>2, ExitTestType DEF FailIfLeftoverValues, TypeOK, Places, Endings
  <2> QED
    BY <1>2, <2>1 DEF FailIfLeftoverValues, TypeOK
<1>3. CASE Landed
  BY <1>3, HelperTypes DEF Landed, TypeOK, Places, Endings
<1>4. CASE Leave
  <2>1. failures' \subseteq Frames \X (0 .. NumTests)
    BY <1>4 DEF Leave, TypeOK
  <2> QED
    BY <1>4, <2>1, TeardownType DEF Leave, RestoreHandlers, TypeOK, Places
<1> QED
  BY <1>1, <1>2, <1>3, <1>4 DEF FrameStep

LEMMA GroupStepType == TypeOK /\ GroupStep => TypeOK'
<1> SUFFICES ASSUME TypeOK, GroupStep
             PROVE  FrameTypeOK' /\ GroupTypeOK'
  BY TypeParts DEF FrameTypeOK, GroupTypeOK, TypeOK
<1>1. CASE BeginGroup \/ OutOfMemory
  <2>1. FrameTypeOK'
    BY <1>1, EnterType, GotoType, HelperTypes
    DEF BeginGroup, OutOfMemory, Frames, Places
  <2>2. GroupTypeOK'
    BY <1>1, HelperTypes, RunnerAssumption
    DEF BeginGroup, OutOfMemory, StartGroup, ClearTotals, TypeOK, GroupTypeOK,
        Statuses, Endings
  <2> QED
    BY <2>1, <2>2
<1>2. CASE AfterGroupSetup
  <2>1. FrameTypeOK'
    BY <1>2, GotoType DEF AfterGroupSetup, Places
  <2>2. totals' \in [Counters -> Nat]
    BY <1>2, CountType DEF AfterGroupSetup, TypeOK
  <2> QED
    BY <1>2, <2>1, <2>2 DEF AfterGroupSetup, TypeOK, GroupTypeOK, group, history
<1>3. CASE StartTest
  <2>1. CheckPoint \in CheckPoints
    BY HelperTypes
  <2>2. testPoint' \in CheckPoints \cup {Null}
    BY <1>3, <2>1 DEF StartTest
  <2>3. FrameTypeOK'
    BY <1>3, <2>2, EnterType DEF StartTest, Frames
  <2>4. current' \in 0 .. NumTests
    BY <1>3, RunnerAssumption DEF StartTest, TypeOK
  <2> QED
    BY <1>3, <2>2, <2>3, <2>4 DEF StartTest, TypeOK, GroupTypeOK, report, history
<1>4. CASE AfterSetup
  <2>1. FrameTypeOK'
    BY <1>4, EnterType, GotoType DEF AfterSetup, Account, Frames, Places
  <2>2. status' \in [Tests -> Statuses] /\ totals' \in [Counters -> Nat]
    BY <1>4, AccountType DEF AfterSetup, TypeOK, Statuses
  <2> QED
    BY <1>4, <2>1, <2>2 DEF AfterSetup, TypeOK, GroupTypeOK, group, history
<1>5. CASE AfterTest
  <2>1. StatusOfTest \in Statuses
    BY HelperTypes
  <2>2. FrameTypeOK'
    BY <1>5, EnterType, GotoType DEF AfterTest, Account, Frames, Places, TypeOK
  <2>3. status' \in [Tests -> Statuses] /\ totals' \in [Counters -> Nat]
    BY <1>5, <2>1, AccountType DEF AfterTest, TypeOK
  <2>4. ended' \in [Tests -> Endings] /\ skipTest' \in BOOLEAN
    BY <1>5 DEF AfterTest, LowerSkip, TypeOK
  <2> QED
    BY <1>5, <2>2, <2>3, <2>4 DEF AfterTest, TypeOK, GroupTypeOK, group
<1>6. CASE AfterTeardown
  <2>1. FrameTypeOK'
    BY <1>6, GotoType DEF AfterTeardown, Account, Places
  <2>2. current \in Tests => StatusAfterTeardown \in Statuses
    BY DEF StatusAfterTeardown, Statuses, TypeOK
  <2>3. status' \in [Tests -> Statuses] /\ totals' \in [Counters -> Nat]
    BY <1>6, <2>2, AccountType, CountType DEF AfterTeardown, Account, TypeOK
  <2> QED
    BY <1>6, <2>1, <2>3 DEF AfterTeardown, TypeOK, GroupTypeOK, group, history
<1>7. CASE WrapUp
  <2>1. FrameTypeOK'
    BY <1>7, EnterType, GotoType DEF WrapUp, Frames, Places, TypeOK
  <2> QED
    BY <1>7, <2>1 DEF WrapUp, TypeOK, GroupTypeOK, group, report, history
<1>8. CASE AfterGroupTeardown
  <2>1. FrameTypeOK'
    BY <1>8, GotoType DEF AfterGroupTeardown, Places
  <2> QED
    BY <1>8, <2>1 DEF AfterGroupTeardown, TypeOK, GroupTypeOK, group, report, history
<1>9. CASE Finish
  <2>1. HeapTypeOK'
    BY <1>9, FreeAllocatedBlocksType, UnchangedStores DEF Finish, TypeOK
  <2>2. ExpectationsTypeOK'
    BY <1>9, UnchangedStores DEF Finish, TypeOK
  <2>3. pc' \in Places /\ cause' \in Endings
    BY <1>9, ExitTestType DEF Finish, TypeOK, Places, Lost, Endings
  <2>4. verdict' \in Int
    BY <1>9 DEF Finish, TypeOK, Counters
  <2> QED
    BY <1>9, <2>1, <2>2, <2>3, <2>4
    DEF Finish, TypeOK, FrameTypeOK, GroupTypeOK, group, flags, signals, points
<1> QED
  BY <1>1, <1>2, <1>3, <1>4, <1>5, <1>6, <1>7, <1>8, <1>9 DEF GroupStep

LEMMA TypeInit == Init => TypeOK
<1> SUFFICES ASSUME Init
             PROVE  TypeOK
  OBVIOUS
<1>1. ExpectationsTypeOK
  BY EmptySeq DEF Init, InitializeTesting, ExpectationsTypeOK
<1>2. HeapTypeOK
  BY EmptySeq DEF Init, InitHeap, HeapTypeOK
<1>3. NumTests \in Nat /\ MaxGroups \in Nat /\ MaxOps \in Nat
  BY RunnerAssumption
<1>4. FrameTypeOK
  <2>1. running \in BOOLEAN /\ stopTest \in BOOLEAN /\ expecting \in BOOLEAN
        /\ guarded \in BOOLEAN
    BY DEF Init
  <2> QED
    BY <1>1, <1>2, <1>3, <2>1 DEF Init, FrameTypeOK, Places, Frames, CheckPoints
<1>5. GroupTypeOK
  <2>1. skipTest \in BOOLEAN /\ failures \subseteq Frames \X (0 .. NumTests)
    BY DEF Init
  <2>2. status \in [Tests -> Statuses] /\ totals \in [Counters -> Nat]
        /\ ended \in [Tests -> Endings]
    BY DEF Init, Statuses, Endings
  <2> QED
    BY <1>3, <2>1, <2>2 DEF Init, GroupTypeOK, CheckPoints, Endings
<1> QED
  BY <1>4, <1>5, TypeParts

\* The runner, its stores and its heap keep their types, whatever user functions
\* do.
THEOREM TypeCorrect == Spec => []TypeOK
<1>1. Init => TypeOK
  BY TypeInit
<1>2. TypeOK /\ [Next]_vars => TypeOK'
  <2> SUFFICES ASSUME TypeOK, [Next]_vars
               PROVE  TypeOK'
    OBVIOUS
  <2>1. CASE Next
    BY <2>1, UserStepType, FrameStepType, GroupStepType DEF Next
  <2>2. CASE UNCHANGED vars
    BY <2>2, UnchangedStores
    DEF vars, TypeOK, group, flags, signals, points, report, history
  <2> QED
    BY <2>1, <2>2
<1> QED
  BY <1>1, <1>2, PTL DEF Spec
-----------------------------------------------------------------------------
(* The heap between groups.                                                *)

\* Only group steps come to the places where no group is at work.
LEMMA StepInGroup ==
  ASSUME GroupsStartEmpty, FrameInv, UserStep \/ FrameStep
  PROVE  GroupsStartEmpty'
<1> USE DEF GroupsStartEmpty, control, group, points, signals, flags, ExitTest
<1>1. CASE UserStep
  BY <1>1 DEF UserStep, MakesCall, Finishes, ReturnFromBody, UseMock, UseOrderedCall,
              UseMalloc, UseFree, UseRealloc, OverrunBlock, Fail, Skip, Stop,
              ExpectAssertFailure, AssertMissing, MockAssert
<1>2. CASE FrameStep
  BY <1>2 DEF FrameStep, LeakCheck, FailIfLeftoverValues, Landed, Leave
<1> QED
  BY <1>1, <1>2

\* A group that comes to its result has no block behind the root: there is none.
LEMMA FinishesEmpty ==
  ASSUME blocks \in Seq(Blocks), BlocksAfter(Root) = {}
  PROVE  blocks = <<>>
<1>1. Len(blocks) \in Nat /\ FirstAfter(Root) = 1
  BY LenProperties DEF FirstAfter
<1>2. Len(blocks) = 0
  <2> SUFFICES ASSUME Len(blocks) # 0
               PROVE  FALSE
    OBVIOUS
  <2>1. 1 \in FirstAfter(Root) .. Len(blocks)
    BY <1>1
  <2> QED
    BY <2>1 DEF BlocksAfter
<1> QED
  BY <1>2, EmptySeq

LEMMA GroupStepEmpty ==
  ASSUME TypeOK, GroupsStartEmpty, GroupStep
  PROVE  GroupsStartEmpty'
<1> USE DEF GroupsStartEmpty
<1>1. CASE BeginGroup \/ OutOfMemory
  <2>1. blocks = <<>> /\ groupPoint' = Root /\ blocks' = blocks
    BY <1>1 DEF BeginGroup, OutOfMemory, StartGroup, CheckPoint, Enter, Goto, heap
  <2> QED
    BY <2>1
<1>2. CASE StartTest \/ WrapUp
  BY <1>2 DEF StartTest, WrapUp, Enter, Goto
<1>3. CASE AfterGroupSetup \/ AfterGroupTeardown
  BY <1>3 DEF AfterGroupSetup, AfterGroupTeardown, Goto
<1>4. CASE AfterSetup \/ AfterTest \/ AfterTeardown
  BY <1>4 DEF AfterSetup, AfterTest, AfterTeardown, Account, Enter, Goto
<1>5. CASE Finish
  <2>1. groupPoint' = Root
    BY <1>5 DEF Finish, points
  <2>2. CASE pc' = "returned"
    <3>1. BlocksAfter(Root) = {} /\ blocks' = blocks
      BY <1>5, <2>2 DEF Finish, ExitTest, heap
    <3> QED
      BY <2>1, <3>1, FinishesEmpty DEF TypeOK, HeapTypeOK
  <2>3. CASE pc' # "returned"
    BY <1>5, <2>1, <2>3 DEF Finish, ExitTest
  <2> QED
    BY <2>2, <2>3
<1> QED
  BY <1>1, <1>2, <1>3, <1>4, <1>5 DEF GroupStep

\* Every group starts with an empty heap: what a test leaves behind is found when
\* its group ends, at the latest (_cmocka_run_group_tests).
THEOREM GroupsStartEmptyHolds == Spec => []GroupsStartEmpty
<1>1. Init => GroupsStartEmpty
  BY DEF Init, InitHeap, GroupsStartEmpty
<1>2. TypeOK /\ FrameInv /\ GroupsStartEmpty /\ [Next]_vars => GroupsStartEmpty'
  <2> SUFFICES ASSUME TypeOK, FrameInv, GroupsStartEmpty, [Next]_vars
               PROVE  GroupsStartEmpty'
    OBVIOUS
  <2>1. CASE Next
    BY <2>1, StepInGroup, GroupStepEmpty DEF Next
  <2>2. CASE UNCHANGED vars
    BY <2>2 DEF vars, GroupsStartEmpty, points, heap
  <2> QED
    BY <2>1, <2>2
<1> QED
  BY <1>1, <1>2, TypeCorrect, FrameInvHolds, PTL DEF Spec
-----------------------------------------------------------------------------
(* What user functions leave behind, under the rules of SafeScripts.       *)

\* A skip() is remembered until the runner has reported its test, which did not
\* pass, and an assertion is only expected inside of expect_assert_failure().
CleanInv ==
  /\ pc # "undefined"
  /\ pc \notin Lost =>
       /\ skipTest =>
            /\ frame = "test"
            /\ \/ pc = "jumped" /\ ~stopTest
               \/ pc \in {"leave", "return"} /\ rc = -1
       /\ expecting <=> guarded
       /\ guarded => pc = "body" /\ "expectAssert" \in suite.mayDo[frame]
  /\ StartsClean

LEMMA CleanInit == Init => CleanInv
<1> SUFFICES ASSUME Init
             PROVE  CleanInv
  OBVIOUS
<1>1. pc = "group" /\ ~skipTest /\ ~expecting /\ ~guarded
  BY DEF Init
<1> QED
  BY <1>1 DEF CleanInv, StartsClean

\* A frame starts clean when it is entered without a skip() to report.
LEMMA EnterClean ==
  ASSUME NEW kind, NEW point, FrameInv, CleanInv, Enter(kind, point), ~skipTest',
         pc \in {"group", "return", "next", "wrapUp", "returned"}
  PROVE  CleanInv'
BY DEF FrameInv, FrameDiscipline, CleanInv, StartsClean, Enter, TeardownTesting, Lost

LEMMA GotoClean ==
  ASSUME NEW place \in {"next", "wrapUp", "finish", "returned"},
         FrameInv, CleanInv, Goto(place), ~skipTest',
         pc \in {"group", "return", "next", "wrapUp", "returned"}
  PROVE  CleanInv'
BY DEF FrameInv, FrameDiscipline, CleanInv, StartsClean, Goto, Lost

\* A call that touches no flag keeps the frame clean when it returns, and when it
\* leaves outside of expect_assert_failure().
LEMMA CallClean ==
  ASSUME CleanInv, pc = "body", running, ~skipTest,
         ops' # 0, UNCHANGED <<frame, suite, guarded, flags>>,
         \/ pc' = pc
         \/ pc' \in {"jumped", "aborted", "exited"} /\ ~guarded
  PROVE  CleanInv'
BY DEF CleanInv, StartsClean, Lost, flags

\* A user function leaves skipTest and stopTest to the runner, and no call but
\* those of Leaving takes it out of expect_assert_failure().
LEMMA UserStepClean ==
  ASSUME SafeScripts, TypeOK, FrameInv, CleanInv, UserStep
  PROVE  CleanInv'
<1>1. pc = "body"
  BY DEF UserStep, ReturnFromBody, UseMock, UseOrderedCall, UseMalloc, UseFree,
         UseRealloc, OverrunBlock, Fail, Skip, Stop, ExpectAssertFailure,
         AssertMissing, MockAssert, MakesCall
<1>2. running /\ ~stopTest /\ ~skipTest /\ (expecting <=> guarded)
  BY <1>1 DEF FrameInv, FrameDiscipline, CleanInv, Lost
<1>3. frame \in Frames /\ ops + 1 # 0 /\ suite.mayDo \in Scripts
  BY DEF TypeOK, Suites
<1>4. guarded => suite.mayDo[frame] \cap Leaving = {}
  BY <1>1, <1>3 DEF CleanInv, SafeScripts, Lost
<1> USE DEF CleanInv, StartsClean, Lost, control, group, flags, MakesCall, Finishes, ExitTest
<1>5. CASE ReturnFromBody
  BY <1>1, <1>2, <1>5 DEF ReturnFromBody
<1>6. CASE UseMock \/ UseOrderedCall
  <2>1. ops' # 0 /\ ~guarded /\ UNCHANGED <<frame, suite, guarded, flags>>
    BY <1>3, <1>4, <1>6 DEF UseMock, UseOrderedCall, Leaving
  <2>2. pc' = pc \/ pc' \in {"jumped", "aborted", "exited"}
    BY <1>6 DEF UseMock, UseOrderedCall
  <2> QED
    BY <1>1, <1>2, <2>1, <2>2, CallClean
<1>7. CASE UseMalloc \/ OverrunBlock
  <2>1. pc' = pc /\ ops' # 0 /\ UNCHANGED <<frame, suite, guarded, flags>>
    BY <1>3, <1>7 DEF UseMalloc, OverrunBlock
  <2> QED
    BY <1>1, <1>2, <2>1, CallClean
<1>8. CASE UseFree \/ UseRealloc
  <2>1. ops' # 0 /\ ~guarded /\ UNCHANGED <<frame, suite, guarded, flags>>
    BY <1>3, <1>4, <1>8 DEF UseFree, UseRealloc, Leaving
  <2>2. pc' = pc \/ pc' \in {"jumped", "aborted", "exited"}
    BY <1>8 DEF UseFree, UseRealloc
  <2> QED
    BY <1>1, <1>2, <2>1, <2>2, CallClean
<1>9. CASE Fail
  BY <1>1, <1>2, <1>3, <1>4, <1>9 DEF Fail, Leaving
<1>10. CASE Skip
  BY <1>1, <1>2, <1>3, <1>4, <1>10 DEF Skip, Leaving, SafeScripts
<1>11. CASE Stop
  BY <1>1, <1>2, <1>3, <1>4, <1>11 DEF Stop, Leaving
<1>12. CASE ExpectAssertFailure
  BY <1>1, <1>2, <1>3, <1>12 DEF ExpectAssertFailure
<1>13. CASE AssertMissing
  BY <1>1, <1>2, <1>3, <1>13 DEF AssertMissing, LowerExpecting
<1>14. CASE MockAssert
  BY <1>1, <1>2, <1>3, <1>14 DEF MockAssert
<1> QED
  BY <1>5, <1>6, <1>7, <1>8, <1>9, <1>10, <1>11, <1>12, <1>13, <1>14 DEF UserStep

\* The runner does not raise these flags, and lands a skipped test with -1.
LEMMA FrameStepClean ==
  ASSUME TypeOK, FrameInv, CleanInv, FrameStep
  PROVE  CleanInv'
<1> USE DEF FrameInv, FrameDiscipline, CleanInv, StartsClean, Lost, flags, group, ExitTest
<1>1. CASE LeakCheck
  BY <1>1 DEF LeakCheck
<1>2. CASE FailIfLeftoverValues
  BY <1>2 DEF FailIfLeftoverValues
<1>3. CASE Landed
  BY <1>3 DEF Landed, ReturnOfJump
<1>4. CASE Leave
  BY <1>4 DEF Leave
<1> QED
  BY <1>1, <1>2, <1>3, <1>4 DEF FrameStep

LEMMA GroupStepClean ==
  ASSUME TypeOK, FrameInv, CleanInv, GroupStep
  PROVE  CleanInv'
<1>1. skipTest => pc \in Lost \cup {"jumped", "leave"} \/ (Returned("test") /\ rc = -1)
  BY DEF CleanInv, Returned
<1>2. CASE BeginGroup \/ OutOfMemory
  <2>1. pc \in {"group", "returned"} /\ ~skipTest'
    BY <1>1, <1>2 DEF BeginGroup, OutOfMemory, StartGroup, Returned, Lost
  <2>2. CASE BeginGroup
    BY <2>1, <2>2, EnterClean, GotoClean DEF BeginGroup
  <2>3. CASE OutOfMemory
    BY <2>1, <2>3, GotoClean DEF OutOfMemory
  <2> QED
    BY <1>2, <2>2, <2>3
<1>3. CASE AfterGroupSetup
  BY <1>1, <1>3, GotoClean DEF AfterGroupSetup, Returned, Lost
<1>4. CASE StartTest
  BY <1>1, <1>4, EnterClean DEF StartTest, Lost, Returned
<1>5. CASE AfterSetup
  BY <1>1, <1>5, EnterClean, GotoClean DEF AfterSetup, Returned, Account, Lost
<1>6. CASE AfterTest
  <2>1. ~skipTest'
    BY <1>1, <1>6 DEF AfterTest, LowerSkip, Returned, Lost
  <2> QED
    BY <1>6, <2>1, EnterClean, GotoClean DEF AfterTest, Returned, Account
<1>7. CASE AfterTeardown
  BY <1>1, <1>7, GotoClean DEF AfterTeardown, Returned, Account, Lost
<1>8. CASE WrapUp
  BY <1>1, <1>8, EnterClean, GotoClean DEF WrapUp, Returned, Lost
<1>9. CASE AfterGroupTeardown
  BY <1>1, <1>9, GotoClean DEF AfterGroupTeardown, Returned, Lost
<1>10. CASE Finish
  BY <1>10 DEF Finish, ExitTest, FrameInv, FrameDiscipline, CleanInv, StartsClean, Lost,
               flags
<1> QED
  BY <1>2, <1>3, <1>4, <1>5, <1>6, <1>7, <1>8, <1>9, <1>10 DEF GroupStep

LEMMA CleanInvHolds ==
  ASSUME SafeScripts
  PROVE  Spec => []CleanInv
<1>1. Init => CleanInv
  BY CleanInit
<1>2. TypeOK /\ FrameInv /\ CleanInv /\ [Next]_vars => CleanInv'
  <2> SUFFICES ASSUME TypeOK, FrameInv, CleanInv, [Next]_vars
               PROVE  CleanInv'
    OBVIOUS
  <2>1. CASE Next
    BY <2>1, UserStepClean, FrameStepClean, GroupStepClean DEF Next
  <2>2. CASE UNCHANGED vars
    BY <2>2 DEF vars, group, flags, expectations, CleanInv, StartsClean, Lost
  <2> QED
    BY <2>1, <2>2
<1> QED
  BY <1>1, <1>2, TypeCorrect, FrameInvHolds, PTL DEF Spec

\* When only tests skip, and nothing but an assertion can leave
\* expect_assert_failure(), every user function starts from empty stores and
\* lowered flags (initialize_testing, teardown_testing, cmocka_run_one_tests).
THEOREM StartsCleanHolds ==
  ASSUME SafeScripts
  PROVE  Spec => []StartsClean
<1>1. CleanInv => StartsClean
  BY DEF CleanInv
<1> QED
  BY <1>1, CleanInvHolds, PTL

\* By the same rules a false assertion never sends control to an
\* expect_assert_failure() that is over (mock_assert).
THEOREM AssertsFailTheTestHolds ==
  ASSUME SafeScripts
  PROVE  Spec => []AssertsFailTheTest
<1>1. CleanInv => AssertsFailTheTest
  BY DEF CleanInv, AssertsFailTheTest
<1> QED
  BY <1>1, CleanInvHolds, PTL
-----------------------------------------------------------------------------
\* The inductive invariant behind RunsEveryTest: how many tests have been executed, by
\* the place of the runner.
InTest == {"setup", "test", "teardown"}

Counted ==
  /\ pc = "next" => totals["executed"] = current
  /\ pc \in InFrame \cup {"return"} =>
       /\ frame = "groupSetup" =>
            current = 0 /\ totals["executed"] = 0
       /\ frame \in InTest =>
            current \in Tests /\ totals["executed"] = current - 1

\* Steps of a frame do not leave it but through its return.
LEMMA StaysInFrame ==
  ASSUME TypeOK, FrameInv, UserStep \/ FrameStep
  PROVE  /\ pc \in InFrame
         /\ pc' \in InFrame \cup {"return"} \cup Lost
         /\ UNCHANGED <<frame, group, report>>
<1> USE DEF control, report, group, points, ExitTest, InFrame, Lost
<1>1. CASE UserStep
  BY <1>1 DEF UserStep, MakesCall, Finishes, ReturnFromBody, UseMock, UseOrderedCall,
              UseMalloc, UseFree, UseRealloc, OverrunBlock, Fail, Skip, Stop,
              ExpectAssertFailure, AssertMissing, MockAssert
<1>2. CASE FrameStep
  BY <1>2 DEF FrameStep, LeakCheck, FailIfLeftoverValues, Landed, Leave
<1> QED
  BY <1>1, <1>2

\* The phase of the group at each place.
PhaseOfPlace ==
  /\ pc \in {"group", "returned"} => Phase = "none"
  /\ pc \in Lost => Phase = "gone"
  /\ pc \in {"wrapUp", "finish"} => Phase = "end"
  /\ pc = "next" => Phase = IF totals["executed"] = NumTests THEN "end" ELSE "tests"
  /\ pc \in InFrame \cup {"return"} =>
       /\ frame = "groupSetup" => Phase = "setup"
       /\ frame = "groupTeardown" => Phase = "end"
       /\ frame \in InTest => Phase = "tests"

LEMMA PhaseValues == PhaseOfPlace /\ PhaseOfPlace'
<1>1. PhaseOfPlace
  BY DEF PhaseOfPlace, Phase, InFrame, Lost, InTest
<1>2. PhaseOfPlace'
  BY DEF PhaseOfPlace, Phase, InFrame, Lost, InTest
<1> QED
  BY <1>1, <1>2

LEMMA CountedInit == Init => Counted
BY DEF Init, Counted, InFrame

LEMMA EnterCounted ==
  ASSUME NEW kind \in Frames, NEW point, Enter(kind, point),
         kind = "groupSetup" => current' = 0 /\ totals'["executed"] = 0,
         kind \in InTest => current' \in Tests /\ totals'["executed"] = current' - 1
  PROVE  Counted'
BY DEF Enter, Counted, InFrame

LEMMA AccountCounted ==
  ASSUME TypeOK, NEW s, Account(s), current' = current,
         totals["executed"] = current - 1
  PROVE  Counted'
BY DEF Account, Goto, Count, Counted, InFrame, Counters, CounterOf, TypeOK

LEMMA CountedStep == TypeOK /\ FrameInv /\ Counted /\ [Next]_vars => Counted'
<1> SUFFICES ASSUME TypeOK, FrameInv, Counted, [Next]_vars
             PROVE  Counted'
  OBVIOUS
<1>1. CASE UserStep \/ FrameStep
  BY <1>1, StaysInFrame DEF Counted, InFrame, Lost, group, report
<1>2. CASE BeginGroup \/ OutOfMemory
  <2>1. current' = 0 /\ totals'["executed"] = 0
    BY <1>2 DEF BeginGroup, OutOfMemory, StartGroup, ClearTotals, Counters
  <2>2. CASE BeginGroup
    BY <2>1, <2>2, EnterCounted DEF BeginGroup, Frames, InTest, Goto, Counted, InFrame
  <2>3. CASE OutOfMemory
    BY <2>3 DEF OutOfMemory, Goto, Counted, InFrame
  <2> QED
    BY <1>2, <2>2, <2>3
<1>3. CASE AfterGroupSetup
  <2>1. totals["executed"] = 0 /\ current' = 0
    BY <1>3 DEF AfterGroupSetup, Returned, Counted, InFrame, group
  <2> QED
    BY <1>3, <2>1 DEF AfterGroupSetup, Goto, Counted, InFrame
<1>4. CASE StartTest
  <2>1. current' \in Tests /\ totals'["executed"] = current' - 1
    BY <1>4, RunnerAssumption DEF StartTest, report, Counted, Tests, TypeOK
  <2> QED
    BY <1>4, <2>1, EnterCounted DEF StartTest, Frames, InTest
<1>5. CASE AfterSetup \/ AfterTest \/ AfterTeardown
  <2>1. current \in Tests /\ totals["executed"] = current - 1 /\ current' = current
    BY <1>5 DEF AfterSetup, AfterTest, AfterTeardown, Returned, Counted, InTest, group
  <2>2. CASE AfterSetup
    BY <2>1, <2>2, EnterCounted, AccountCounted DEF AfterSetup, Frames, InTest
  <2>3. CASE AfterTest
    BY <2>1, <2>3, EnterCounted, AccountCounted DEF AfterTest, Frames, InTest
  <2>4. CASE AfterTeardown
    BY <2>1, <2>4, AccountCounted DEF AfterTeardown
  <2> QED
    BY <1>5, <2>2, <2>3, <2>4
<1>6. CASE WrapUp
  BY <1>6, EnterCounted DEF WrapUp, Frames, InTest, Goto, Counted, InFrame
<1>7. CASE AfterGroupTeardown
  BY <1>7 DEF AfterGroupTeardown, Goto, Counted, InFrame
<1>8. CASE Finish
  BY <1>8 DEF Finish, ExitTest, FrameInv, FrameDiscipline, Counted, InFrame, Lost
<1>9. CASE UNCHANGED vars
  BY <1>9 DEF vars, Counted, group, report
<1> QED
  BY <1>1, <1>2, <1>3, <1>4, <1>5, <1>6, <1>7, <1>8, <1>9 DEF Next, GroupStep

\* Every step of the runner is one of TestGroup or changes nothing there.
LEMMA AbstractInit == Init => Abstract!Init
<1> SUFFICES ASSUME Init
             PROVE  Abstract!Init
  OBVIOUS
<1>1. pc = "group" /\ verdict = 0 /\ totals = [c \in Counters |-> 0]
  BY DEF Init
<1>2. Phase = "none"
  BY <1>1, PhaseValues DEF PhaseOfPlace
<1> QED
  BY <1>1, <1>2, RunnerAssumption DEF Abstract!Init, Counters

LEMMA AbstractStays ==
  ASSUME UNCHANGED <<Phase, totals>>, pc # "returned", pc' # "returned"
  PROVE  UNCHANGED Abstract!vars
BY DEF Abstract!vars

LEMMA FrameSimulated ==
  ASSUME TypeOK, FrameInv, UserStep \/ FrameStep
  PROVE  [Abstract!Next]_Abstract!vars
<1>1. /\ pc \in InFrame
      /\ pc' \in InFrame \cup {"return"} \cup Lost
      /\ UNCHANGED <<frame, totals>>
  BY StaysInFrame DEF report
<1>2. pc # "returned" /\ pc' # "returned" /\ frame \in Frames
  BY <1>1 DEF InFrame, Lost, TypeOK
<1>3. Phase # "none"
  BY <1>1, <1>2, PhaseValues DEF PhaseOfPlace, Frames, InTest
<1>4. CASE pc' \in Lost
  <2>1. Phase' = "gone"
    BY <1>4, PhaseValues DEF PhaseOfPlace
  <2> QED
    BY <1>1, <1>2, <1>3, <2>1 DEF Abstract!Next, Abstract!Die
<1>5. CASE pc' \notin Lost
  <2>1. Phase' = Phase
    BY <1>1, <1>2, <1>5, PhaseValues DEF PhaseOfPlace, Frames, InTest
  <2> QED
    BY <1>1, <1>2, <2>1, AbstractStays
<1> QED
  BY <1>4, <1>5

LEMMA BeginSimulated ==
  ASSUME TypeOK, BeginGroup \/ OutOfMemory
  PROVE  [Abstract!Next]_Abstract!vars
<1>1. /\ pc \in {"group", "returned"}
      /\ totals' = [c \in Counters |-> 0]
  BY DEF BeginGroup, OutOfMemory, StartGroup, ClearTotals
<1>2. Phase = "none"
  BY <1>1, PhaseValues DEF PhaseOfPlace
<1>3. /\ totals'["executed"] = 0
      /\ totals'["failed"] + totals'["errors"] = 0
      /\ NumTests - totals'["executed"] = NumTests
  BY <1>1, RunnerAssumption DEF Counters
<1>4. CASE BeginGroup
  <2>1. \/ pc' = "body" /\ frame' = "groupSetup"
        \/ pc' = "next"
    BY <1>4 DEF BeginGroup, Enter, Goto
  <2>2. Phase' \in {"setup", IF NumTests = 0 THEN "end" ELSE "tests"}
    BY <1>3, <2>1, PhaseValues DEF PhaseOfPlace, InFrame
  <2>3. pc' # "returned"
    BY <2>1
  <2> QED
    BY <1>2, <1>3, <2>2, <2>3, RunnerAssumption
    DEF Abstract!Next, Abstract!Begin, Abstract!Upcoming
<1>5. CASE OutOfMemory
  <2>1. pc' = "returned" /\ verdict' = -1
    BY <1>5 DEF OutOfMemory, Goto
  <2>2. Phase' = "none"
    BY <2>1, PhaseValues DEF PhaseOfPlace
  <2> QED
    BY <1>2, <1>3, <2>1, <2>2, RunnerAssumption DEF Abstract!Next, Abstract!Begin
<1> QED
  BY <1>4, <1>5

LEMMA SetupSimulated ==
  ASSUME TypeOK, Counted, AfterGroupSetup
  PROVE  [Abstract!Next]_Abstract!vars
<1>1. pc = "return" /\ frame = "groupSetup" /\ totals["executed"] = 0
  BY DEF AfterGroupSetup, Returned, Counted
<1>2. Phase = "setup"
  BY <1>1, PhaseValues DEF PhaseOfPlace
<1>3. CASE rc = 0
  <2>1. pc' = "next" /\ totals' = totals
    BY <1>3 DEF AfterGroupSetup, Goto
  <2>2. Phase' = IF NumTests = 0 THEN "end" ELSE "tests"
    BY <1>1, <2>1, PhaseValues DEF PhaseOfPlace
  <2> QED
    BY <1>1, <1>2, <2>1, <2>2, RunnerAssumption
    DEF Abstract!Next, Abstract!Setup, Abstract!Upcoming
<1>4. CASE rc # 0
  <2>1. pc' = "wrapUp" /\ Count({"errors"})
    BY <1>4 DEF AfterGroupSetup, Goto
  <2>2. Phase' = "end"
    BY <2>1, PhaseValues DEF PhaseOfPlace
  <2>3. /\ totals'["executed"] = totals["executed"]
        /\ totals'["failed"] + totals'["errors"] = totals["failed"] + totals["errors"] + 1
    BY <2>1 DEF Count, Counters, TypeOK
  <2> QED
    BY <1>1, <1>2, <2>1, <2>2, <2>3 DEF Abstract!Next, Abstract!Setup
<1> QED
  BY <1>3, <1>4

\* A test that is accounted for is executed, and may be an error.
LEMMA AccountSimulated ==
  ASSUME TypeOK, Counted, NEW s \in Statuses, Account(s),
         pc = "return", frame \in InTest
  PROVE  [Abstract!Next]_Abstract!vars
<1>1. current \in Tests /\ totals["executed"] = current - 1
  BY DEF Counted
<1>2. Phase = "tests"
  BY PhaseValues DEF PhaseOfPlace
<1>3. /\ totals'["executed"] = totals["executed"] + 1
      /\ totals'["failed"] + totals'["errors"] \in
           {totals["failed"] + totals["errors"], totals["failed"] + totals["errors"] + 1}
  BY DEF Account, Count, CounterOf, Counters, TypeOK
<1>4. pc' = "next"
  BY DEF Account, Goto
<1>5. Phase' = IF totals'["executed"] = NumTests THEN "end" ELSE "tests"
  BY <1>4, PhaseValues DEF PhaseOfPlace
<1>6. NumTests - totals'["executed"] = (NumTests - totals["executed"]) - 1
  BY <1>1, <1>3, RunnerAssumption DEF Tests
<1>7. NumTests - totals'["executed"] = 0 <=> totals'["executed"] = NumTests
  BY <1>1, <1>3, RunnerAssumption DEF Tests
<1> QED
  BY <1>2, <1>3, <1>4, <1>5, <1>6, <1>7
  DEF Abstract!Next, Abstract!Execute, Abstract!Upcoming

\* The other steps between frames change nothing that TestGroup has, but for the result
\* at the end.
LEMMA BetweenFramesSimulated ==
  ASSUME TypeOK, Counted,
         StartTest \/ WrapUp \/ AfterGroupTeardown
           \/ ((AfterSetup \/ AfterTest) /\ pc' = "body")
  PROVE  UNCHANGED Abstract!vars
<1>1. pc # "returned" /\ pc' # "returned"
  BY DEF StartTest, WrapUp, AfterGroupTeardown, AfterSetup, AfterTest, Returned, Enter, Goto
<1>2. CASE StartTest
  <2>1. /\ pc = "next" /\ pc' = "body" /\ frame' \in InTest
        /\ totals' = totals /\ totals["executed"] # NumTests
    BY <1>2, RunnerAssumption DEF StartTest, Enter, InTest, report, Counted, TypeOK
  <2>2. Phase = "tests" /\ Phase' = "tests"
    BY <2>1, PhaseValues DEF PhaseOfPlace, InFrame
  <2> QED
    BY <1>1, <2>1, <2>2, AbstractStays
<1>3. CASE WrapUp
  <2>1. /\ pc = "wrapUp" \/ (pc = "next" /\ totals["executed"] = NumTests)
        /\ (pc' = "body" /\ frame' = "groupTeardown") \/ pc' = "finish"
        /\ totals' = totals
    BY <1>3 DEF WrapUp, Enter, Goto, report, Counted
  <2>2. Phase = "end" /\ Phase' = "end"
    BY <2>1, PhaseValues DEF PhaseOfPlace, InFrame
  <2> QED
    BY <1>1, <2>1, <2>2, AbstractStays
<1>4. CASE AfterGroupTeardown
  <2>1. /\ pc = "return" /\ frame = "groupTeardown" /\ pc' = "finish"
        /\ totals' = totals
    BY <1>4 DEF AfterGroupTeardown, Returned, Goto, report
  <2>2. Phase = "end" /\ Phase' = "end"
    BY <2>1, PhaseValues DEF PhaseOfPlace, InFrame
  <2> QED
    BY <1>1, <2>1, <2>2, AbstractStays
<1>5. CASE (AfterSetup \/ AfterTest) /\ pc' = "body"
  <2>1. /\ pc = "return" /\ frame \in InTest /\ pc' = "body" /\ frame' \in InTest
        /\ totals' = totals
    BY <1>5 DEF AfterSetup, AfterTest, Returned, Enter, Account, Goto, InTest
  <2>2. Phase = "tests" /\ Phase' = "tests"
    BY <2>1, PhaseValues DEF PhaseOfPlace, InFrame
  <2> QED
    BY <1>1, <2>1, <2>2, AbstractStays
<1> QED
  BY <1>2, <1>3, <1>4, <1>5

LEMMA FinishSimulated ==
  ASSUME TypeOK, FrameInv, Finish
  PROVE  [Abstract!Next]_Abstract!vars
<1>1. pc = "finish" /\ totals' = totals /\ Phase = "end"
  BY PhaseValues DEF Finish, PhaseOfPlace
<1>2. CASE pc' = "returned"
  <2>1. verdict' = totals["failed"] + totals["errors"]
    BY <1>1, <1>2 DEF Finish, ExitTest
  <2>2. Phase' = "none"
    BY <1>2, PhaseValues DEF PhaseOfPlace
  <2> QED
    BY <1>1, <1>2, <2>1, <2>2 DEF Abstract!Next, Abstract!End
<1>3. CASE pc' # "returned"
  <2>1. pc' \in Lost
    BY <1>1, <1>3 DEF Finish, ExitTest, FrameInv, FrameDiscipline, Lost
  <2>2. Phase' = "gone"
    BY <2>1, PhaseValues DEF PhaseOfPlace
  <2> QED
    BY <1>1, <1>3, <2>2 DEF Abstract!Next, Abstract!Die
<1> QED
  BY <1>2, <1>3

LEMMA StepSimulated ==
  ASSUME TypeOK, FrameInv, Counted, [Next]_vars
  PROVE  [Abstract!Next]_Abstract!vars
<1>1. CASE UserStep \/ FrameStep
  BY <1>1, FrameSimulated
<1>2. CASE BeginGroup \/ OutOfMemory
  BY <1>2, BeginSimulated
<1>3. CASE AfterGroupSetup
  BY <1>3, SetupSimulated
<1>4. CASE StartTest \/ WrapUp \/ AfterGroupTeardown
  BY <1>4, BetweenFramesSimulated
<1>5. CASE AfterSetup
  <2>1. CASE rc = 0
    BY <1>5, <2>1, BetweenFramesSimulated DEF AfterSetup, Enter
  <2>2. CASE rc # 0
    BY <1>5, <2>2, AccountSimulated DEF AfterSetup, Returned, InTest, Statuses
  <2> QED
    BY <2>1, <2>2
<1>6. CASE AfterTest
  <2>1. CASE RunsTeardown
    BY <1>6, <2>1, BetweenFramesSimulated DEF AfterTest, Enter
  <2>2. CASE ~RunsTeardown
    BY <1>6, <2>2, AccountSimulated, HelperTypes DEF AfterTest, Returned, InTest
  <2> QED
    BY <2>1, <2>2
<1>7. CASE AfterTeardown
  <2>1. current \in Tests
    BY <1>7 DEF AfterTeardown, Returned, Counted, InTest
  <2>2. StatusAfterTeardown \in Statuses
    BY <2>1 DEF StatusAfterTeardown, Statuses, TypeOK
  <2> QED
    BY <1>7, <2>2, AccountSimulated DEF AfterTeardown, Returned, InTest
<1>8. CASE Finish
  BY <1>8, FinishSimulated
<1>9. CASE UNCHANGED vars
  <2>1. UNCHANGED <<pc, frame, totals, verdict>>
    BY <1>9 DEF vars, report
  <2>2. Phase' = Phase
    BY <2>1 DEF Phase
  <2> QED
    BY <2>1, <2>2 DEF Abstract!vars
<1> QED
  BY <1>1, <1>2, <1>3, <1>4, <1>5, <1>6, <1>7, <1>8, <1>9 DEF Next, GroupStep

LEMMA CountedHolds == Spec => []Counted
<1>1. Init => Counted
  BY CountedInit
<1>2. TypeOK /\ FrameInv /\ Counted /\ [Next]_vars => Counted'
  BY CountedStep
<1> QED
  BY <1>1, <1>2, TypeCorrect, FrameInvHolds, PTL DEF Spec

\* The runner implements TestGroup: whatever its fixtures and tests do, a group executes
\* each of its tests once, or none when its setup fails, and returns the number of errors
\* (_cmocka_run_group_tests).
THEOREM RunsEveryTestHolds == Spec => RunsEveryTest
<1>1. Init => Abstract!Init
  BY AbstractInit
<1>2. TypeOK /\ FrameInv /\ Counted /\ [Next]_vars => [Abstract!Next]_Abstract!vars
  BY StepSimulated
<1> QED
  BY <1>1, <1>2, TypeCorrect, FrameInvHolds, CountedHolds, PTL
  DEF Spec, RunsEveryTest, Abstract!Spec
-----------------------------------------------------------------------------
\* With CMOCKA_TEST_ABORT=1 a test function comes to its checks, or back to its frame,
\* only when it has not failed.
AbortInv ==
  /\ pc = "aborted" => cause \in {"failed", "stopped"}
  /\ suite.testAbort /\ frame = "test" /\ pc \in (InFrame \ {"body"}) \cup {"return"} =>
       cause # "failed" /\ ~stopTest

LEMMA UserStepAbort ==
  ASSUME TypeOK, FrameInv, CleanInv, AbortInv, UserStep
  PROVE  AbortInv'
<1>1. pc = "body"
  BY DEF UserStep, ReturnFromBody, UseMock, UseOrderedCall, UseMalloc, UseFree,
         UseRealloc, OverrunBlock, Fail, Skip, Stop, ExpectAssertFailure,
         AssertMissing, MockAssert, MakesCall
<1>2. ~stopTest /\ ~skipTest
  BY <1>1 DEF FrameInv, FrameDiscipline, CleanInv, Lost
<1> USE DEF AbortInv, InFrame, control, group, flags, MakesCall, Finishes, ExitTest
<1>3. CASE ReturnFromBody
  BY <1>1, <1>2, <1>3 DEF ReturnFromBody
<1>4. CASE UseMock \/ UseOrderedCall
  BY <1>1, <1>2, <1>4 DEF UseMock, UseOrderedCall
<1>5. CASE UseMalloc \/ OverrunBlock
  BY <1>1, <1>5 DEF UseMalloc, OverrunBlock
<1>6. CASE UseFree \/ UseRealloc
  BY <1>1, <1>2, <1>6 DEF UseFree, UseRealloc
<1>7. CASE Fail
  BY <1>1, <1>2, <1>7 DEF Fail
<1>8. CASE Skip
  BY <1>1, <1>2, <1>8 DEF Skip
<1>9. CASE Stop
  BY <1>1, <1>2, <1>9 DEF Stop
<1>10. CASE ExpectAssertFailure \/ AssertMissing
  BY <1>1, <1>2, <1>10 DEF ExpectAssertFailure, AssertMissing
<1>11. CASE MockAssert
  BY <1>1, <1>2, <1>11 DEF MockAssert
<1> QED
  BY <1>3, <1>4, <1>5, <1>6, <1>7, <1>8, <1>9, <1>10, <1>11 DEF UserStep

LEMMA FrameStepAbort ==
  ASSUME TypeOK, FrameInv, CleanInv, AbortInv, FrameStep
  PROVE  AbortInv'
<1> USE DEF AbortInv, InFrame, group, flags, ExitTest, FrameInv, FrameDiscipline, CleanInv, Lost
<1>1. CASE LeakCheck
  BY <1>1 DEF LeakCheck
<1>2. CASE FailIfLeftoverValues
  BY <1>2 DEF FailIfLeftoverValues
<1>3. CASE Landed
  BY <1>3 DEF Landed
<1>4. CASE Leave
  BY <1>4 DEF Leave
<1> QED
  BY <1>1, <1>2, <1>3, <1>4 DEF FrameStep

LEMMA GroupStepAbort ==
  ASSUME TypeOK, FrameInv, AbortInv, GroupStep
  PROVE  AbortInv'
<1> USE DEF AbortInv, InFrame, Lost
<1>1. CASE BeginGroup \/ OutOfMemory
  BY <1>1 DEF BeginGroup, OutOfMemory, StartGroup, Enter, Goto
<1>2. CASE StartTest \/ WrapUp
  BY <1>2 DEF StartTest, WrapUp, Enter, Goto
<1>3. CASE AfterGroupSetup \/ AfterGroupTeardown
  BY <1>3 DEF AfterGroupSetup, AfterGroupTeardown, Goto
<1>4. CASE AfterSetup \/ AfterTest \/ AfterTeardown
  BY <1>4 DEF AfterSetup, AfterTest, AfterTeardown, Account, Enter, Goto
<1>5. CASE Finish
  BY <1>5 DEF Finish, ExitTest, FrameInv, FrameDiscipline
<1> QED
  BY <1>1, <1>2, <1>3, <1>4, <1>5 DEF GroupStep

\* When only tests skip, and nothing but an assertion can leave expect_assert_failure(),
\* the process aborts for nothing but a failure or a stop(), and with
\* CMOCKA_TEST_ABORT=1 no test function that failed is ever reported (exit_test).
THEOREM AbortMeansFailedHolds ==
  ASSUME SafeScripts
  PROVE  Spec => []AbortMeansFailed
<1>1. Init => AbortInv
  BY DEF Init, AbortInv, InFrame
<1>2. TypeOK /\ FrameInv /\ CleanInv /\ AbortInv /\ [Next]_vars => AbortInv'
  <2> SUFFICES ASSUME TypeOK, FrameInv, CleanInv, AbortInv, [Next]_vars
               PROVE  AbortInv'
    OBVIOUS
  <2>1. CASE Next
    BY <2>1, UserStepAbort, FrameStepAbort, GroupStepAbort DEF Next
  <2>2. CASE UNCHANGED vars
    BY <2>2 DEF vars, group, flags, history, AbortInv
  <2> QED
    BY <2>1, <2>2
<1>3. AbortInv => AbortMeansFailed
  BY DEF AbortInv, AbortMeansFailed, Returned, InFrame
<1> QED
  BY <1>1, <1>2, <1>3, TypeCorrect, FrameInvHolds, CleanInvHolds, PTL DEF Spec
-----------------------------------------------------------------------------
\* How a test function ended, by what its frame returns and whether it skipped.
EndedAs(how, returned, skipped) ==
  IF returned = 0 THEN how \in {"returned", "stopped"}
  ELSE IF skipped THEN how = "skipped" ELSE how = "failed"

\* A status that says how the test function ended.
Says(s, how) ==
  \/ s = "passed" /\ how \in {"returned", "stopped"}
  \/ s = "skipped" /\ how = "skipped"
  \/ s = "failed" /\ how = "failed"

\* What is known of the test function that runs, from its checks to its return.
TestInv ==
  frame = "test" =>
    /\ pc \in {"checks", "leftovers"} => rc = 0 /\ cause = "returned"
    /\ pc = "jumped" => IF stopTest THEN cause = "stopped" /\ ~skipTest
                        ELSE EndedAs(cause, -1, skipTest)
    /\ pc \in {"leave", "return"} => EndedAs(cause, rc, skipTest)

LEMMA UserStepTest ==
  ASSUME TypeOK, FrameInv, CleanInv, UserStep
  PROVE  TestInv'
<1>1. pc = "body"
  BY DEF UserStep, ReturnFromBody, UseMock, UseOrderedCall, UseMalloc, UseFree,
         UseRealloc, OverrunBlock, Fail, Skip, Stop, ExpectAssertFailure,
         AssertMissing, MockAssert, MakesCall
<1>2. ~stopTest /\ ~skipTest
  BY <1>1 DEF FrameInv, FrameDiscipline, CleanInv, Lost
<1> USE DEF TestInv, EndedAs, control, flags, MakesCall, Finishes, ExitTest
<1>3. CASE ReturnFromBody
  BY <1>1, <1>2, <1>3 DEF ReturnFromBody
<1>4. CASE UseMock \/ UseOrderedCall
  BY <1>1, <1>2, <1>4 DEF UseMock, UseOrderedCall
<1>5. CASE UseMalloc \/ OverrunBlock
  BY <1>1, <1>5 DEF UseMalloc, OverrunBlock
<1>6. CASE UseFree \/ UseRealloc
  BY <1>1, <1>2, <1>6 DEF UseFree, UseRealloc
<1>7. CASE Fail
  BY <1>1, <1>2, <1>7 DEF Fail
<1>8. CASE Skip
  BY <1>1, <1>2, <1>8 DEF Skip
<1>9. CASE Stop
  BY <1>1, <1>2, <1>9 DEF Stop
<1>10. CASE ExpectAssertFailure \/ AssertMissing
  BY <1>1, <1>2, <1>10 DEF ExpectAssertFailure, AssertMissing
<1>11. CASE MockAssert
  <2>1. frame' = frame /\ skipTest' = skipTest /\ stopTest' = stopTest
    BY <1>11 DEF MockAssert
  <2>2. expecting => pc' \in {"body", "undefined"}
    BY <1>1, <1>11 DEF MockAssert
  <2>3. ~expecting => pc' \in {"aborted", "jumped", "exited"} /\ cause' = "failed"
    BY <1>11 DEF MockAssert
  <2> QED
    BY <1>2, <2>1, <2>2, <2>3
<1> HIDE DEF TestInv, EndedAs, control, flags, MakesCall, Finishes, ExitTest
<1> QED
  BY <1>3, <1>4, <1>5, <1>6, <1>7, <1>8, <1>9, <1>10, <1>11 DEF UserStep

LEMMA FrameStepTest ==
  ASSUME TypeOK, FrameInv, CleanInv, TestInv, FrameStep
  PROVE  TestInv'
<1>1. /\ pc \in InFrame /\ (stopTest => pc = "jumped")
      /\ pc \in {"checks", "leftovers"} => ~skipTest
  BY DEF FrameStep, LeakCheck, FailIfLeftoverValues, Landed, Leave, FrameInv,
         FrameDiscipline, InFrame, Lost, CleanInv
<1> USE DEF TestInv, EndedAs, flags, ExitTest
<1>2. CASE LeakCheck
  BY <1>1, <1>2 DEF LeakCheck
<1>3. CASE FailIfLeftoverValues
  BY <1>1, <1>3 DEF FailIfLeftoverValues
<1>4. CASE Landed
  BY <1>4 DEF Landed, ReturnOfJump
<1>5. CASE Leave
  BY <1>5 DEF Leave
<1> QED
  BY <1>2, <1>3, <1>4, <1>5 DEF FrameStep

LEMMA GroupStepTest ==
  ASSUME TypeOK, FrameInv, GroupStep
  PROVE  TestInv'
<1> USE DEF TestInv
<1>1. CASE BeginGroup \/ OutOfMemory
  BY <1>1 DEF BeginGroup, OutOfMemory, StartGroup, Enter, Goto
<1>2. CASE StartTest \/ WrapUp
  BY <1>2 DEF StartTest, WrapUp, Enter, Goto
<1>3. CASE AfterGroupSetup \/ AfterGroupTeardown
  BY <1>3 DEF AfterGroupSetup, AfterGroupTeardown, Goto
<1>4. CASE AfterSetup \/ AfterTest \/ AfterTeardown
  BY <1>4 DEF AfterSetup, AfterTest, AfterTeardown, Account, Enter, Goto
<1>5. CASE Finish
  BY <1>5 DEF Finish, ExitTest, FrameInv, FrameDiscipline, Lost
<1> QED
  BY <1>1, <1>2, <1>3, <1>4, <1>5 DEF GroupStep

\* The fixtures of a test that have failed.
BadFixture(t) == FailedIn({"setup", "teardown"}, t)

Failing == rc # 0 /\ pc = "return" /\ frame \in {"setup", "teardown"}

\* Test t is over: not the one whose functions run, nor the one that ended the process.
Over(t) ==
  \/ t < current
  \/ /\ t = current
     /\ pc \notin Lost
     /\ pc \in InFrame \cup {"return"} => frame \notin InTest

\* The status of each test that is over, of the one that is at its teardown, and the
\* failures of fixtures.
StatusInv ==
  /\ \A t \in Tests : Over(t) =>
       IF BadFixture(t) THEN status[t] = "error" ELSE Says(status[t], ended[t])
  /\ \A t \in Tests : t > current => ~BadFixture(t)
  /\ pc \in InFrame \cup {"return"} /\ frame \in InTest => (BadFixture(current) <=> Failing)
  /\ pc \in InFrame \cup {"return"} /\ frame = "teardown" =>
       Says(status[current], ended[current])

LEMMA InFrameStatus ==
  ASSUME TypeOK, FrameInv, StatusInv, UserStep \/ FrameStep
  PROVE  StatusInv'
<1>1. /\ pc \in InFrame
      /\ pc' \in InFrame \cup {"return"} \cup Lost
      /\ UNCHANGED <<frame, current, status>>
  BY StaysInFrame DEF group, report
<1>2. ended' = ended
  BY DEF UserStep, ReturnFromBody, UseMock, UseOrderedCall, UseMalloc, UseFree,
         UseRealloc, OverrunBlock, Fail, Skip, Stop, ExpectAssertFailure,
         AssertMissing, MockAssert, control, FrameStep, LeakCheck, FailIfLeftoverValues,
         Landed, Leave
<1>3. \A t \in Tests : Over(t)' => Over(t) /\ (frame \in InTest => t < current)
  BY <1>1 DEF Over, InFrame, Lost
<1>4. frame \in Frames /\ current \in 0 .. NumTests
  BY DEF TypeOK
<1>5. \/ failures' = failures /\ pc' # "return"
      \/ Leave
  BY <1>1 DEF UserStep, ReturnFromBody, UseMock, UseOrderedCall, UseMalloc, UseFree,
         UseRealloc, OverrunBlock, Fail, Skip, Stop, ExpectAssertFailure,
         AssertMissing, MockAssert, control, MakesCall, Finishes, ExitTest, FrameStep,
         LeakCheck, FailIfLeftoverValues, Landed, InFrame
<1>6. CASE failures' = failures /\ pc' # "return"
  <2>1. \A t : BadFixture(t)' <=> BadFixture(t)
    BY <1>6 DEF BadFixture, FailedIn
  <2>2. ~Failing /\ ~Failing'
    BY <1>1, <1>6 DEF Failing, InFrame
  <2>3. BadFixture(current)' <=> BadFixture(current)
    BY <1>1, <1>6 DEF BadFixture, FailedIn
  <2> QED
    BY <1>1, <1>2, <1>3, <2>1, <2>2, <2>3 DEF StatusInv, Says
<1>7. CASE Leave
  <2>1. /\ pc = "leave" /\ pc' = "return" /\ rc' = rc
        /\ \A t : BadFixture(t)' <=>
             BadFixture(t) \/ (t = current /\ rc # 0 /\ frame \in {"setup", "teardown"})
    BY <1>1, <1>7 DEF Leave, BadFixture, FailedIn
  <2>2. frame \in InTest => ~BadFixture(current)
    BY <2>1 DEF StatusInv, Failing, InFrame
  <2>3. \A t \in Tests : t < current \/ t > current => t # current
    BY <1>4 DEF Tests
  <2>4. \A t \in Tests : Over(t)' =>
          IF BadFixture(t)' THEN status'[t] = "error" ELSE Says(status'[t], ended'[t])
    BY <1>1, <1>2, <1>3, <2>1, <2>3 DEF StatusInv, InTest
  <2>5. \A t \in Tests : t > current' => ~BadFixture(t)'
    BY <1>1, <2>1, <2>3 DEF StatusInv
  <2>6. frame' \in InTest => (BadFixture(current)' <=> Failing')
    <3> HAVE frame' \in InTest
    <3>1. ~BadFixture(current) /\ pc' = "return"
      BY <1>1, <2>1, <2>2
    <3>2. <<frame, current>>' = <<frame, current>>
      BY <1>1
    <3>3. BadFixture(current)' <=> rc # 0 /\ frame \in {"setup", "teardown"}
      BY <3>1, <3>2, <1>7 DEF Leave, BadFixture, FailedIn
    <3> QED
      BY <3>1, <3>2, <3>3, <2>1 DEF Failing
  <2>7. frame' = "teardown" => Says(status'[current'], ended'[current'])
    BY <1>1, <1>2, <2>1 DEF StatusInv, InFrame
  <2> QED
    BY <1>1, <2>4, <2>5, <2>6, <2>7 DEF StatusInv, Says
<1> QED
  BY <1>5, <1>6, <1>7

LEMMA GroupStepStatus ==
  ASSUME TypeOK, FrameInv, Counted, TestInv, StatusInv, GroupStep
  PROVE  StatusInv'
<1>1. /\ frame \in Frames /\ current \in 0 .. NumTests /\ rc \in {-1, 0}
      /\ status \in [Tests -> Statuses] /\ ended \in [Tests -> Endings]
      /\ \A t \in Tests : t \in Int /\ t > 0
  BY DEF TypeOK, Tests
<1>2. ASSUME failures' = failures
      PROVE  \A t : BadFixture(t)' <=> BadFixture(t)
  BY <1>2 DEF BadFixture, FailedIn
<1>3. CASE BeginGroup \/ OutOfMemory
  <2>1. /\ current' = 0 /\ failures' = {}
        /\ pc' = "body" => frame' = "groupSetup"
        /\ pc' \in {"body", "next", "returned"}
    BY <1>3 DEF BeginGroup, OutOfMemory, StartGroup, Enter, Goto
  <2>2. \A t : ~BadFixture(t)'
    BY <2>1 DEF BadFixture, FailedIn
  <2> QED
    BY <1>1, <2>1, <2>2 DEF StatusInv, Over, InFrame, InTest
<1>4. CASE AfterGroupSetup
  <2>1. /\ UNCHANGED <<current, failures, status, ended>>
        /\ pc' \in {"next", "wrapUp"} /\ current = 0
    BY <1>4 DEF AfterGroupSetup, Goto, Returned, Counted, InFrame, group, history
  <2> QED
    BY <1>1, <1>2, <2>1 DEF StatusInv, Over, InFrame
<1>5. CASE StartTest
  <2>1. /\ pc = "next" /\ current < NumTests /\ current' = current + 1 /\ pc' = "body"
        /\ frame' \in {"setup", "test"}
        /\ UNCHANGED <<failures, status, ended>>
    BY <1>5 DEF StartTest, Enter, report, history
  <2>2. \A t \in Tests : Over(t)' => Over(t)
    BY <1>1, <2>1 DEF Over, InFrame, InTest, Lost
  <2>3. current' \in Tests /\ current' > current
    BY <1>1, <2>1, RunnerAssumption DEF Tests
  <2>4. ~BadFixture(current)'
    BY <2>1, <2>3 DEF StatusInv, BadFixture, FailedIn
  <2> QED
    BY <1>1, <1>2, <2>1, <2>2, <2>3, <2>4 DEF StatusInv, Failing, Says
<1>6. CASE AfterSetup
  <2>1. pc = "return" /\ frame = "setup"
    BY <1>6 DEF AfterSetup, Returned
  <2>2. UNCHANGED <<current, failures, ended>>
    BY <1>6 DEF AfterSetup, group, history
  <2>3. (BadFixture(current) <=> rc # 0) /\ (BadFixture(current)' <=> rc # 0)
    BY <2>1, <2>2 DEF StatusInv, Failing, InTest, BadFixture, FailedIn
  <2>4. CASE rc = 0
    <3>1. pc' = "body" /\ frame' = "test" /\ status' = status
      BY <1>6, <2>4 DEF AfterSetup, Enter
    <3>2. \A t \in Tests : Over(t)' => Over(t)
      BY <1>1, <2>2, <3>1 DEF Over, InFrame, InTest
    <3>3. ~BadFixture(current)' /\ ~Failing'
      BY <2>3, <2>4, <3>1 DEF Failing
    <3> QED
      BY <1>1, <1>2, <2>2, <3>1, <3>2, <3>3 DEF StatusInv, Says
  <2>5. CASE rc # 0
    <3>1. /\ pc' = "next" /\ frame' = frame
          /\ status' = [status EXCEPT ![current] = "error"]
      BY <1>6, <2>5 DEF AfterSetup, Account, Goto
    <3>2. \A t \in Tests : Over(t)' => t < current \/ t = current
      BY <1>1, <2>2 DEF Over
    <3>3. \A t \in Tests : t < current => Over(t) /\ status'[t] = status[t]
      BY <1>1, <3>1 DEF Over
    <3>4. current \in Tests => status'[current] = "error"
      BY <1>1, <3>1
    <3> QED
      BY <1>1, <1>2, <2>2, <2>3, <2>5, <3>1, <3>2, <3>3, <3>4 DEF StatusInv, Says, InFrame
  <2> QED
    BY <2>4, <2>5
<1>7. CASE AfterTest
  <2>1. pc = "return" /\ frame = "test"
    BY <1>7 DEF AfterTest, Returned
  <2>2. /\ UNCHANGED <<current, failures>>
        /\ ended' = [ended EXCEPT ![current] = cause]
        /\ status' = [status EXCEPT ![current] = StatusOfTest]
        /\ \/ pc' = "body" /\ frame' = "teardown"
           \/ pc' = "next" /\ frame' = frame
    BY <1>7 DEF AfterTest, group, Account, Goto, Enter
  <2>3. ~BadFixture(current) /\ ~BadFixture(current)'
    BY <2>1, <2>2 DEF StatusInv, Failing, InTest, BadFixture, FailedIn
  <2>4. Says(StatusOfTest, cause)
    BY <1>1, <2>1 DEF TestInv, EndedAs, Says, StatusOfTest
  <2>5. current \in Tests => Says(status'[current], ended'[current])
    BY <1>1, <2>2, <2>4
  <2>6. \A t \in Tests : Over(t)' => t < current \/ t = current
    BY <1>1, <2>2 DEF Over
  <2>7. \A t \in Tests : t < current =>
          Over(t) /\ status'[t] = status[t] /\ ended'[t] = ended[t]
    BY <1>1, <2>2 DEF Over
  <2>8. current \in Tests
    BY <1>1, <2>1 DEF Counted, Tests, InFrame, InTest
  <2>9. ~Failing'
    BY <2>2 DEF Failing
  <2> QED
    BY <1>1, <1>2, <2>2, <2>3, <2>5, <2>6, <2>7, <2>8, <2>9 DEF StatusInv, Says
<1>8. CASE AfterTeardown
  <2>1. pc = "return" /\ frame = "teardown"
    BY <1>8 DEF AfterTeardown, Returned
  <2>2. /\ UNCHANGED <<current, failures, ended>>
        /\ status' = [status EXCEPT ![current] = StatusAfterTeardown]
        /\ pc' = "next"
    BY <1>8 DEF AfterTeardown, group, history, Account, Goto
  <2>3. (BadFixture(current) <=> rc # 0) /\ (BadFixture(current)' <=> rc # 0)
    BY <2>1, <2>2 DEF StatusInv, Failing, InTest, BadFixture, FailedIn
  <2>4. Says(status[current], ended[current])
    BY <2>1 DEF StatusInv
  <2>5. current \in Tests =>
          IF BadFixture(current) THEN status'[current] = "error"
          ELSE Says(status'[current], ended'[current])
    BY <1>1, <2>2, <2>3, <2>4 DEF StatusAfterTeardown
  <2>6. \A t \in Tests : Over(t)' => t < current \/ t = current
    BY <1>1, <2>2 DEF Over
  <2>7. \A t \in Tests : t < current => Over(t) /\ status'[t] = status[t]
    BY <1>1, <2>2 DEF Over
  <2> QED
    BY <1>1, <1>2, <2>2, <2>5, <2>6, <2>7 DEF StatusInv, Says, InFrame
<1>9. CASE WrapUp \/ AfterGroupTeardown \/ Finish
  <2>1. /\ UNCHANGED <<current, failures, status, ended>>
        /\ pc \notin Lost /\ (pc \in InFrame \cup {"return"} => frame \notin InTest)
        /\ pc' \in InFrame \cup {"return"} => frame' = "groupTeardown"
    BY <1>9 DEF WrapUp, AfterGroupTeardown, Finish, Returned, Enter, Goto, group,
                report, history, ExitTest, InFrame, InTest, Lost, FrameInv,
                FrameDiscipline
  <2>2. \A t \in Tests : Over(t)' => Over(t)
    BY <2>1 DEF Over
  <2> QED
    BY <1>2, <2>1, <2>2 DEF StatusInv, InTest, Says
<1> QED
  BY <1>3, <1>4, <1>5, <1>6, <1>7, <1>8, <1>9 DEF GroupStep

LEMMA StatusInit == Init => TestInv /\ StatusInv
BY DEF Init, TestInv, StatusInv, Over, BadFixture, FailedIn, Tests, InFrame

LEMMA StatusStep ==
  ASSUME TypeOK, FrameInv, CleanInv, Counted, TestInv, StatusInv, [Next]_vars
  PROVE  TestInv' /\ StatusInv'
<1>1. CASE UserStep
  BY <1>1, UserStepTest, InFrameStatus
<1>2. CASE FrameStep
  BY <1>2, FrameStepTest, InFrameStatus
<1>3. CASE GroupStep
  BY <1>3, GroupStepTest, GroupStepStatus
<1>4. CASE UNCHANGED vars
  <2>1. UNCHANGED <<pc, frame, rc, skipTest, stopTest, current, status, history>>
    BY <1>4 DEF vars, group, flags, report
  <2> QED
    BY <2>1 DEF TestInv, EndedAs, StatusInv, Over, BadFixture, FailedIn, Failing, Says,
                history
<1> QED
  BY <1>1, <1>2, <1>3, <1>4 DEF Next

\* The inductive invariants together, for scripts that keep the two rules.
LEMMA StatusInvHolds ==
  ASSUME SafeScripts
  PROVE  Spec => [](TypeOK /\ StatusInv)
<1>1. Init => TestInv /\ StatusInv
  BY StatusInit
<1>2. /\ TypeOK /\ FrameInv /\ CleanInv /\ Counted /\ TestInv /\ StatusInv
      /\ [Next]_vars
      => TestInv' /\ StatusInv'
  BY StatusStep
<1> QED
  BY <1>1, <1>2, TypeCorrect, FrameInvHolds, CleanInvHolds, CountedHolds, PTL DEF Spec

\* For scripts in which only test functions call skip() and nothing leaves an
\* expect_assert_failure() but an assertion, a test is reported by what happened in its
\* own functions, for any number of tests, fixtures and operations
\* (cmocka_run_one_tests).
THEOREM StatusIsOwnHolds ==
  ASSUME SafeScripts
  PROVE  Spec => []StatusIsOwn
<1>1. TypeOK /\ StatusInv => StatusIsOwn
  <2> SUFFICES ASSUME TypeOK, StatusInv, NEW t \in Tests, Accounted(t)
               PROVE  /\ status[t] = "error" <=> BadFixture(t)
                      /\ CASE status[t] = "passed"  -> ended[t] \in {"returned", "stopped"}
                           [] status[t] = "skipped" -> ended[t] = "skipped"
                           [] status[t] = "failed"  -> ended[t] = "failed"
                           [] OTHER -> status[t] = "error" \/ FailedIn({"groupSetup"}, 0)
    BY DEF StatusIsOwn, BadFixture
  <2>1. Over(t)
    BY DEF Accounted, Over, InFrame, Lost
  <2>2. IF BadFixture(t) THEN status[t] = "error" ELSE Says(status[t], ended[t])
    BY <2>1 DEF StatusInv
  <2> QED
    BY <2>2 DEF Says
<1> QED
  BY <1>1, StatusInvHolds, PTL
-----------------------------------------------------------------------------
\* The tests that are counted with a status.
Marked(s) == {t \in 1 .. totals["executed"] : status[t] = s}

SetupFailed == FailedIn({"groupSetup"}, 0)

Between == ~(pc \in InFrame \cup {"return"})

AtSetup == ~Between /\ frame = "groupSetup"

TestStatuses == {"passed", "failed", "skipped"}

Tallied ==
  /\ \A s \in TestStatuses : totals[s] = Cardinality(Marked(s))
  /\ totals["errors"] =
       Cardinality(Marked("error")) + IF SetupFailed /\ ~AtSetup THEN 1 ELSE 0

\* The inductive invariant behind TotalsAgree: what is counted at each place.
TallyInv ==
  /\ Tallied
  /\ SetupFailed => /\ current = 0 /\ pc # "next"
                    /\ Between \/ frame \notin InTest
  /\ AtSetup => (SetupFailed <=> pc = "return" /\ rc # 0)
  /\ pc \notin Lost /\ (Between \/ frame \notin InTest) => totals["executed"] = current
  /\ ~Between /\ frame = "teardown" => status[current] \in TestStatuses
  /\ pc = "returned" /\ verdict # -1 => verdict = totals["failed"] + totals["errors"]

LEMMA MarkedFinite ==
  ASSUME TypeOK, NEW s
  PROVE  IsFiniteSet(Marked(s)) /\ Cardinality(Marked(s)) \in Nat
<1>1. totals["executed"] \in Nat
  BY DEF TypeOK, Counters
<1>2. IsFiniteSet(1 .. totals["executed"])
  BY <1>1, FS_Interval
<1>3. Marked(s) \subseteq 1 .. totals["executed"]
  BY DEF Marked
<1>4. IsFiniteSet(Marked(s))
  BY <1>2, <1>3, FS_Subset
<1> QED
  BY <1>4, FS_CardinalityType

LEMMA DisjointUnion ==
  ASSUME NEW S, NEW T, IsFiniteSet(S), IsFiniteSet(T), S \cap T = {}
  PROVE  Cardinality(S \cup T) = Cardinality(S) + Cardinality(T)
<1>1. Cardinality(S \cup T) = Cardinality(S) + Cardinality(T) - Cardinality(S \cap T)
  BY FS_Union
<1>2. Cardinality(S \cap T) = 0
  BY FS_EmptySet
<1>3. Cardinality(S) \in Nat /\ Cardinality(T) \in Nat
  BY FS_CardinalityType
<1> QED
  BY <1>1, <1>2, <1>3

LEMMA TallyInit == Init => TallyInv
<1> SUFFICES ASSUME Init
             PROVE  TallyInv
  OBVIOUS
<1>1. ~SetupFailed
  BY DEF Init, SetupFailed, FailedIn
<1>2. \A s : Marked(s) = {}
  BY DEF Init, Marked, Counters
<1>3. Cardinality({}) = 0
  BY FS_EmptySet
<1>4. \A s \in Counters : totals[s] = 0
  BY DEF Init
<1> QED
  BY <1>1, <1>2, <1>3, <1>4
  DEF Init, TallyInv, Tallied, TestStatuses, Counters, Between, AtSetup, InFrame

LEMMA InFrameTally ==
  ASSUME TypeOK, FrameInv, Counted, TallyInv, UserStep \/ FrameStep
  PROVE  TallyInv'
<1>1. /\ pc \in InFrame
      /\ pc' \in InFrame \cup {"return"} \cup Lost
      /\ UNCHANGED <<frame, current, status, totals, verdict>>
  BY StaysInFrame DEF group, report
<1>2. \A s : Marked(s)' = Marked(s)
  BY <1>1 DEF Marked
<1>3. \/ failures' = failures /\ pc' # "return"
      \/ Leave
  BY <1>1 DEF UserStep, ReturnFromBody, UseMock, UseOrderedCall, UseMalloc, UseFree,
         UseRealloc, OverrunBlock, Fail, Skip, Stop, ExpectAssertFailure,
         AssertMissing, MockAssert, control, MakesCall, Finishes, ExitTest, FrameStep,
         LeakCheck, FailIfLeftoverValues, Landed, InFrame
<1>4. ~Between /\ pc # "return"
  BY <1>1 DEF Between, InFrame
<1>5. frame = "groupSetup" => ~SetupFailed /\ current = 0
  BY <1>1, <1>4 DEF TallyInv, AtSetup, Counted
<1>6. CASE failures' = failures /\ pc' # "return"
  <2>1. SetupFailed' <=> SetupFailed
    BY <1>6 DEF SetupFailed, FailedIn
  <2>2. AtSetup' => AtSetup
    BY <1>1, <1>4 DEF AtSetup
  <2>3. AtSetup => ~SetupFailed
    BY <1>5 DEF AtSetup
  <2>4. Tallied'
    BY <1>1, <1>2, <2>1, <2>2, <2>3 DEF Tallied, TallyInv
  <2> QED
    BY <1>1, <1>4, <1>6, <2>1, <2>2, <2>3, <2>4
    DEF TallyInv, Between, InFrame, Lost
<1>7. CASE Leave
  <2>1. /\ pc' = "return" /\ rc' = rc
        /\ SetupFailed' <=> SetupFailed \/ (frame = "groupSetup" /\ rc # 0)
    BY <1>1, <1>5, <1>7 DEF Leave, SetupFailed, FailedIn
  <2>2. AtSetup' <=> AtSetup
    BY <1>1, <1>4, <2>1 DEF AtSetup, Between
  <2>3. SetupFailed' /\ ~AtSetup' <=> SetupFailed /\ ~AtSetup
    BY <1>4, <1>5, <2>1, <2>2 DEF AtSetup
  <2>4. Tallied'
    BY <1>1, <1>2, <2>3 DEF Tallied, TallyInv
  <2>5. AtSetup' => (SetupFailed' <=> rc # 0)
    BY <1>1, <1>5, <2>1 DEF AtSetup
  <2>6. frame = "groupSetup" => frame \notin InTest
    BY DEF InTest
  <2> QED
    BY <1>1, <1>4, <1>5, <2>1, <2>2, <2>3, <2>4, <2>5, <2>6
    DEF TallyInv, Between, InFrame, Lost
<1> QED
  BY <1>3, <1>6, <1>7

\* A test that is accounted for is counted with its status.
LEMMA AccountTally ==
  ASSUME TypeOK, Counted, TallyInv, NEW s \in TestStatuses \cup {"error"}, Account(s),
         pc = "return", frame \in InTest, failures' = failures, current' = current
  PROVE  TallyInv'
<1>1. /\ current \in Tests /\ totals["executed"] = current - 1
      /\ current \in Int /\ totals["executed"] \in Nat
  BY DEF Counted, TypeOK, Counters, Tests
<1>2. /\ totals'["executed"] = current
      /\ \A x \in TestStatuses : totals'[x] = IF x = s THEN totals[x] + 1 ELSE totals[x]
      /\ totals'["errors"] = IF s = "error" THEN totals["errors"] + 1 ELSE totals["errors"]
      /\ pc' = "next"
    BY <1>1 DEF Account, Count, CounterOf, Counters, Goto, TestStatuses, TypeOK
<1>3. /\ status'[current] = s
      /\ \A t \in Tests : t # current => status'[t] = status[t]
  BY <1>1 DEF Account, TypeOK
<1>4. \A x : Marked(x)' = IF x = s THEN Marked(x) \cup {current} ELSE Marked(x)
  <2>1. 1 .. totals'["executed"] = (1 .. totals["executed"]) \cup {current}
    BY <1>1, <1>2 DEF Tests
  <2>2. \A t \in 1 .. totals["executed"] : t \in Tests /\ t # current
    BY <1>1, RunnerAssumption DEF Tests
  <2> QED
    BY <1>3, <2>1, <2>2 DEF Marked
<1>5. ASSUME NEW x
      PROVE  IsFiniteSet(Marked(x)) /\ current \notin Marked(x)
  <2>1. current \notin 1 .. totals["executed"]
    BY <1>1
  <2> QED
    BY <2>1, MarkedFinite DEF Marked
<1>6. ASSUME NEW x
      PROVE  Cardinality(Marked(x))' =
               IF x = s THEN Cardinality(Marked(x)) + 1 ELSE Cardinality(Marked(x))
  <2>1. Cardinality(Marked(x) \cup {current}) = Cardinality(Marked(x)) + 1
    BY <1>5, FS_AddElement
  <2> QED
    BY <1>4, <2>1
<1>7. ~SetupFailed /\ ~SetupFailed'
  BY <1>1 DEF TallyInv, Between, SetupFailed, FailedIn
<1>8. Tallied'
  <2>1. Tallied
    BY DEF TallyInv
  <2>2. \A x \in TestStatuses : totals'[x] = Cardinality(Marked(x))'
    BY <1>2, <1>6, <2>1 DEF Tallied
  <2>3. totals["errors"] = Cardinality(Marked("error"))
    BY <1>7, <2>1, MarkedFinite DEF Tallied
  <2>4. totals'["errors"] = Cardinality(Marked("error"))'
    BY <1>2, <1>6, <2>3
  <2>5. Cardinality(Marked("error"))' \in Nat
    BY <1>6, MarkedFinite
  <2> QED
    BY <1>7, <2>2, <2>4, <2>5 DEF Tallied
<1> QED
  BY <1>2, <1>7, <1>8 DEF TallyInv, Between, AtSetup, InFrame

LEMMA GroupStepTally ==
  ASSUME TypeOK, FrameInv, Counted, TallyInv, GroupStep
  PROVE  TallyInv'
<1>1. ASSUME failures' = failures
      PROVE  SetupFailed' <=> SetupFailed
  BY <1>1 DEF SetupFailed, FailedIn
<1>2. ASSUME totals' = totals, status' = status
      PROVE  \A s : Marked(s)' = Marked(s)
  BY <1>2 DEF Marked
<1>3. CASE BeginGroup \/ OutOfMemory
  <2>1. /\ current' = 0 /\ failures' = {} /\ totals' = [c \in Counters |-> 0]
        /\ \/ pc' = "body" /\ frame' = "groupSetup"
           \/ pc' = "next"
           \/ pc' = "returned" /\ verdict' = -1
    BY <1>3 DEF BeginGroup, OutOfMemory, StartGroup, ClearTotals, Enter, Goto
  <2>2. ~SetupFailed'
    BY <2>1 DEF SetupFailed, FailedIn
  <2>3. \A s : Marked(s)' = {}
    BY <2>1 DEF Marked, Counters
  <2>4. Tallied'
    BY <2>1, <2>2, <2>3, FS_EmptySet DEF Tallied, TestStatuses, Counters
  <2>5. totals'["executed"] = 0
    BY <2>1 DEF Counters
  <2> QED
    BY <2>1, <2>2, <2>4, <2>5 DEF TallyInv, Between, AtSetup, InFrame, InTest
<1>4. CASE AfterGroupSetup
  <2>1. /\ pc = "return" /\ frame = "groupSetup"
        /\ UNCHANGED <<current, failures, status, verdict>>
        /\ pc' = IF rc = 0 THEN "next" ELSE "wrapUp"
    BY <1>4 DEF AfterGroupSetup, Returned, Goto, group, history
  <2>2. AtSetup /\ ~AtSetup' /\ Between'
    BY <2>1 DEF AtSetup, Between, InFrame
  <2>3. (SetupFailed <=> rc # 0) /\ (SetupFailed' <=> rc # 0)
    BY <1>1, <2>1, <2>2 DEF TallyInv
  <2>4. /\ totals'["executed"] = totals["executed"]
        /\ \A s \in TestStatuses : totals'[s] = totals[s]
        /\ totals'["errors"] = IF rc = 0 THEN totals["errors"] ELSE totals["errors"] + 1
    BY <1>4 DEF AfterGroupSetup, Count, Counters, TestStatuses, TypeOK
  <2>5. \A s : Marked(s)' = Marked(s)
    BY <2>1, <2>4 DEF Marked
  <2>6. Tallied'
    <3>1. /\ \A s \in TestStatuses : totals[s] = Cardinality(Marked(s))
          /\ totals["errors"] = Cardinality(Marked("error")) + 0
          /\ totals["errors"] \in Nat
      BY <2>2 DEF TallyInv, Tallied, TypeOK, Counters
    <3>2. \A s \in TestStatuses : totals'[s] = Cardinality(Marked(s))'
      BY <2>4, <2>5, <3>1
    <3>3. /\ Cardinality(Marked("error"))' = Cardinality(Marked("error"))
          /\ Cardinality(Marked("error")) \in Nat
      BY <2>5, MarkedFinite
    <3> QED
      BY <2>2, <2>3, <2>4, <3>1, <3>2, <3>3 DEF Tallied
  <2>7. current = 0 /\ totals["executed"] = 0
    BY <2>1 DEF Counted
  <2> QED
    BY <2>1, <2>2, <2>3, <2>4, <2>6, <2>7 DEF TallyInv
<1>5. CASE StartTest
  <2>1. /\ pc = "next" /\ pc' = "body" /\ frame' \in {"setup", "test"}
        /\ UNCHANGED <<failures, totals, status, verdict>>
    BY <1>5 DEF StartTest, Enter, report, history
  <2>2. ~SetupFailed /\ ~SetupFailed'
    BY <1>1, <2>1 DEF TallyInv
  <2>3. Tallied'
    BY <1>2, <2>1, <2>2 DEF TallyInv, Tallied
  <2> QED
    BY <2>1, <2>2, <2>3 DEF TallyInv, Between, AtSetup, InFrame, InTest
<1>6. CASE AfterSetup
  <2>1. pc = "return" /\ frame = "setup" /\ UNCHANGED <<current, failures, verdict>>
    BY <1>6 DEF AfterSetup, Returned, group, history
  <2>2. CASE rc = 0
    <3>1. pc' = "body" /\ frame' = "test" /\ UNCHANGED <<status, totals>>
      BY <1>6, <2>2 DEF AfterSetup, Enter
    <3>2. ~SetupFailed /\ ~SetupFailed'
      BY <1>1, <2>1 DEF TallyInv, Between, InTest
    <3>3. Tallied'
      BY <1>2, <3>1, <3>2 DEF TallyInv, Tallied
    <3> QED
      BY <3>1, <3>2, <3>3 DEF TallyInv, Between, AtSetup, InFrame, InTest
  <2>3. CASE rc # 0
    <3>1. Account("error")
      BY <1>6, <2>3 DEF AfterSetup
    <3> QED
      BY <2>1, <3>1, AccountTally DEF InTest
  <2> QED
    BY <2>2, <2>3
<1>7. CASE AfterTest
  <2>1. /\ pc = "return" /\ frame = "test" /\ UNCHANGED <<current, failures, verdict>>
        /\ StatusOfTest \in TestStatuses
    BY <1>7 DEF AfterTest, Returned, group, StatusOfTest, TestStatuses
  <2>2. CASE RunsTeardown
    <3>1. /\ pc' = "body" /\ frame' = "teardown" /\ totals' = totals
          /\ status' = [status EXCEPT ![current] = StatusOfTest]
      BY <1>7, <2>2 DEF AfterTest, Enter
    <3>2. ~SetupFailed /\ ~SetupFailed'
      BY <1>1, <2>1 DEF TallyInv, Between, InTest
    <3>3. /\ current \in Tests /\ totals["executed"] = current - 1
          /\ status \in [Tests -> Statuses]
      BY <2>1 DEF Counted, InTest, TypeOK
    <3>4. \A s : Marked(s)' = Marked(s)
      <4>1. \A t \in 1 .. totals["executed"] : status'[t] = status[t]
        BY <3>1, <3>3, RunnerAssumption DEF Tests
      <4> QED
        BY <3>1, <4>1 DEF Marked
    <3>5. Tallied'
      BY <3>1, <3>2, <3>4 DEF TallyInv, Tallied
    <3>6. status'[current'] \in TestStatuses
      BY <2>1, <3>1, <3>3
    <3> QED
      BY <3>1, <3>2, <3>5, <3>6 DEF TallyInv, Between, AtSetup, InFrame, InTest
  <2>3. CASE ~RunsTeardown
    <3>1. Account(StatusOfTest)
      BY <1>7, <2>3 DEF AfterTest
    <3> QED
      BY <2>1, <3>1, AccountTally DEF InTest
  <2> QED
    BY <2>2, <2>3
<1>8. CASE AfterTeardown
  <2>1. /\ pc = "return" /\ frame = "teardown" /\ UNCHANGED <<current, failures>>
        /\ Account(StatusAfterTeardown)
    BY <1>8 DEF AfterTeardown, Returned, group, history
  <2>2. StatusAfterTeardown \in TestStatuses \cup {"error"}
    BY <2>1 DEF StatusAfterTeardown, TallyInv, Between
  <2> QED
    BY <2>1, <2>2, AccountTally DEF InTest
<1>9. CASE WrapUp \/ AfterGroupTeardown \/ Finish
  <2>1. /\ UNCHANGED <<current, failures, status, totals>>
        /\ pc \notin Lost /\ (Between \/ frame \notin InTest) /\ ~AtSetup
        /\ \/ pc' = "body" /\ frame' = "groupTeardown"
           \/ pc' \in Lost \cup {"finish"}
           \/ pc' = "returned" /\ verdict' = totals["failed"] + totals["errors"]
    BY <1>9 DEF WrapUp, AfterGroupTeardown, Finish, Returned, Enter, Goto, group,
                report, history, ExitTest, InFrame, InTest, Lost, Between, AtSetup,
                FrameInv, FrameDiscipline
  <2>2. ~AtSetup'
    BY <2>1 DEF AtSetup, Between, InFrame, Lost
  <2>3. SetupFailed' <=> SetupFailed
    BY <1>1, <2>1
  <2>4. Tallied'
    BY <1>2, <2>1, <2>2, <2>3 DEF TallyInv, Tallied
  <2> QED
    BY <2>1, <2>2, <2>3, <2>4 DEF TallyInv, Between, InFrame, InTest, Lost
<1> QED
  BY <1>3, <1>4, <1>5, <1>6, <1>7, <1>8, <1>9 DEF GroupStep

LEMMA TallyInvHolds == Spec => []TallyInv
<1>1. Init => TallyInv
  BY TallyInit
<1>2. TypeOK /\ FrameInv /\ Counted /\ TallyInv /\ [Next]_vars => TallyInv'
  <2> SUFFICES ASSUME TypeOK, FrameInv, Counted, TallyInv, [Next]_vars
               PROVE  TallyInv'
    OBVIOUS
  <2>1. CASE UNCHANGED vars
    <3>1. UNCHANGED <<pc, frame, rc, current, status, totals, verdict, failures>>
      BY <2>1 DEF vars, group, report, history
    <3>2. UNCHANGED <<Tallied, SetupFailed, AtSetup, Between>>
      BY <3>1 DEF Tallied, Marked, SetupFailed, FailedIn, AtSetup, Between
    <3> QED
      BY <3>1, <3>2 DEF TallyInv
  <2> QED
    BY <2>1, InFrameTally, GroupStepTally DEF Next
<1> QED
  BY <1>1, <1>2, TypeCorrect, FrameInvHolds, CountedHolds, PTL DEF Spec

\* For every number of tests, and whatever the user functions do, every test is counted
\* once, with its status, and the result of a group is the number of tests that are
\* reported as failed or erroneous, and of failed group setups
\* (_cmocka_run_group_tests).
THEOREM TotalsAgreeHolds == Spec => []TotalsAgree
<1>1. TypeOK /\ TallyInv => TotalsAgree
  <2> SUFFICES ASSUME TypeOK, TallyInv, pc \in {"next", "wrapUp", "finish", "returned"}
               PROVE  TotalsAgree
    BY DEF TotalsAgree
  <2>1. /\ current \in 0 .. NumTests /\ totals["executed"] = current
        /\ totals["failed"] \in Nat /\ totals["errors"] \in Nat
    BY DEF TypeOK, TallyInv, Between, InFrame, Lost, Counters
  <2>2. ASSUME NEW s
        PROVE  InStatus(s) = Marked(s)
    <3>1. \A t \in Tests : Accounted(t) <=> t \in 1 .. totals["executed"]
      BY <2>1, RunnerAssumption DEF Accounted, Tests
    <3>2. 1 .. totals["executed"] \subseteq Tests
      BY <2>1, RunnerAssumption DEF Tests
    <3> QED
      BY <3>1, <3>2 DEF InStatus, Marked
  <2>3. Tallied /\ ~AtSetup
    BY DEF TallyInv, AtSetup, Between, InFrame
  <2>4. Cardinality(Marked("failed") \cup Marked("error")) =
          Cardinality(Marked("failed")) + Cardinality(Marked("error"))
    <3>1. Marked("failed") \cap Marked("error") = {}
      BY DEF Marked
    <3>2. IsFiniteSet(Marked("failed")) /\ IsFiniteSet(Marked("error"))
      BY MarkedFinite
    <3> QED
      BY <3>1, <3>2, DisjointUnion
  <2>5. /\ totals["failed"] = Cardinality(InStatus("failed"))
        /\ \A s \in {"passed", "failed", "skipped"} : totals[s] = Cardinality(InStatus(s))
        /\ totals["errors"] =
             Cardinality(InStatus("error")) + IF SetupFailed THEN 1 ELSE 0
    BY <2>2, <2>3 DEF Tallied, TestStatuses
  <2>6. totals["executed"] = IF SetupFailed THEN 0 ELSE current
    BY <2>1 DEF TallyInv
  <2>7. pc = "returned" /\ verdict # -1 =>
          verdict = Cardinality(InStatus("failed") \cup InStatus("error"))
                      + IF SetupFailed THEN 1 ELSE 0
    <3> SUFFICES ASSUME pc = "returned", verdict # -1
                 PROVE  verdict = Cardinality(InStatus("failed") \cup InStatus("error"))
                                    + IF SetupFailed THEN 1 ELSE 0
      OBVIOUS
    <3>1. verdict = totals["failed"] + totals["errors"]
      BY DEF TallyInv
    <3>2. /\ Cardinality(Marked("failed")) \in Nat
          /\ Cardinality(Marked("error")) \in Nat
      BY MarkedFinite
    <3>3. /\ totals["failed"] = Cardinality(Marked("failed"))
          /\ totals["errors"] =
               Cardinality(Marked("error")) + IF SetupFailed THEN 1 ELSE 0
      BY <2>3 DEF Tallied, TestStatuses
    <3>4. InStatus("failed") \cup InStatus("error") = Marked("failed") \cup Marked("error")
      BY <2>2
    <3>5. Cardinality(InStatus("failed") \cup InStatus("error")) =
            Cardinality(Marked("failed")) + Cardinality(Marked("error"))
      BY <2>4, <3>4
    <3> QED
      BY <3>1, <3>2, <3>3, <3>5
  <2> QED
    BY <2>5, <2>6, <2>7 DEF TotalsAgree, SetupFailed
<1> QED
  BY <1>1, TypeCorrect, TallyInvHolds, PTL
-----------------------------------------------------------------------------
(* What a result of 0 tells.                                               *)

\* The theorems about TestGroup, for the group as this module sees it.
Promised == INSTANCE TestGroup_proofs WITH
  phase    <- Phase,
  left     <- NumTests - totals["executed"],
  executed <- totals["executed"],
  errors   <- totals["failed"] + totals["errors"],
  result   <- IF pc = "returned" THEN verdict ELSE 0

\* In the code no group comes to its end before all of its tests were executed, or its
\* setup failed and none was (_cmocka_run_group_tests).
THEOREM AccountableHolds == Spec => []Abstract!Accountable
<1>1. Promised!Spec => []Promised!Accountable
  BY Promised!AccountableHolds
<1>2. Promised!Accountable => Abstract!Accountable
  BY DEF Promised!Accountable, Abstract!Accountable
<1>3. Abstract!Init => Promised!Init
  BY DEF Abstract!Init, Promised!Init
<1>4. [Abstract!Next]_(Abstract!vars) => [Promised!Next]_(Promised!vars)
  BY DEF Abstract!Next, Promised!Next, Abstract!vars, Promised!vars,
         Abstract!Begin, Promised!Begin, Abstract!Setup, Promised!Setup,
         Abstract!Execute, Promised!Execute, Abstract!End, Promised!End,
         Abstract!Die, Promised!Die, Abstract!Upcoming, Promised!Upcoming
<1> QED
  BY <1>1, <1>2, <1>3, <1>4, RunsEveryTestHolds, PTL
  DEF RunsEveryTest, Abstract!Spec, Promised!Spec

\* A test that was executed has a status, and a group that has returned had all of its
\* tests executed, or its setup failed.
ResultInv ==
  /\ \A t \in 1 .. totals["executed"] : status[t] # "notStarted"
  /\ pc = "returned" /\ verdict # -1 =>
       totals["executed"] = NumTests \/ totals["failed"] + totals["errors"] = 1

LEMMA ResultStays ==
  ASSUME ResultInv, UNCHANGED <<totals, status, verdict>>, pc' = "returned" => pc = "returned"
  PROVE  ResultInv'
BY DEF ResultInv

\* A test is given its status before it is counted.
LEMMA AccountResult ==
  ASSUME TypeOK, Counted, ResultInv, NEW s \in Statuses \ {"notStarted"}, Account(s),
         pc = "return", frame \in InTest
  PROVE  ResultInv'
<1>1. current \in Tests /\ totals["executed"] = current - 1
  BY DEF Counted
<1>2. totals'["executed"] = current /\ current \in Nat
  BY <1>1, RunnerAssumption DEF Account, Count, Counters, TypeOK, Tests
<1>3. pc' # "returned"
  BY DEF Account, Goto
<1>4. \A t \in 1 .. current : t \in Tests /\ (t = current \/ t \in 1 .. totals["executed"])
  BY <1>1, RunnerAssumption DEF Tests
<1>5. status' = [status EXCEPT ![current] = s] /\ status \in [Tests -> Statuses]
  BY DEF Account, TypeOK
<1> QED
  BY <1>2, <1>3, <1>4, <1>5 DEF ResultInv

LEMMA ResultStep ==
  ASSUME TypeOK, FrameInv, Counted, TallyInv, Abstract!Accountable, ResultInv, [Next]_vars
  PROVE  ResultInv'
<1>1. CASE UserStep \/ FrameStep
  BY <1>1, StaysInFrame, ResultStays DEF report, InFrame, Lost
<1>2. CASE BeginGroup \/ OutOfMemory
  <2>1. totals'["executed"] = 0
    BY <1>2 DEF BeginGroup, OutOfMemory, StartGroup, ClearTotals, Counters
  <2>2. pc' # "returned" \/ verdict' = -1
    BY <1>2 DEF BeginGroup, OutOfMemory, Enter, Goto
  <2> QED
    BY <2>1, <2>2 DEF ResultInv
<1>3. CASE AfterGroupSetup
  <2>1. totals'["executed"] = totals["executed"] /\ status' = status
    BY <1>3 DEF AfterGroupSetup, Count, Counters, TypeOK
  <2>2. pc' # "returned"
    BY <1>3 DEF AfterGroupSetup, Goto
  <2> QED
    BY <2>1, <2>2 DEF ResultInv
<1>4. CASE StartTest \/ WrapUp \/ AfterGroupTeardown
  BY <1>4, ResultStays DEF StartTest, WrapUp, AfterGroupTeardown, Enter, Goto, report
<1>5. CASE AfterSetup
  <2>1. CASE rc = 0
    BY <1>5, <2>1, ResultStays DEF AfterSetup, Enter
  <2>2. CASE rc # 0
    BY <1>5, <2>2, AccountResult DEF AfterSetup, Returned, InTest, Statuses
  <2> QED
    BY <2>1, <2>2
<1>6. CASE AfterTest
  <2>1. CASE RunsTeardown
    <3>1. current \in Tests /\ totals["executed"] = current - 1
      BY <1>6 DEF AfterTest, Returned, Counted, InTest
    <3>2. totals' = totals /\ status' = [status EXCEPT ![current] = StatusOfTest]
      BY <1>6, <2>1 DEF AfterTest
    <3>3. pc' # "returned"
      BY <1>6, <2>1 DEF AfterTest, Enter
    <3>4. \A t \in 1 .. totals["executed"] : t \in Tests /\ t # current
      BY <3>1, RunnerAssumption DEF Tests
    <3> QED
      BY <3>2, <3>3, <3>4 DEF ResultInv, TypeOK
  <2>2. CASE ~RunsTeardown
    <3>1. StatusOfTest \in Statuses \ {"notStarted"}
      BY DEF StatusOfTest, Statuses
    <3> QED
      BY <1>6, <2>2, <3>1, AccountResult DEF AfterTest, Returned, InTest
  <2> QED
    BY <2>1, <2>2
<1>7. CASE AfterTeardown
  <2>1. ~Between /\ frame = "teardown"
    BY <1>7 DEF AfterTeardown, Returned, Between
  <2>2. StatusAfterTeardown \in Statuses \ {"notStarted"}
    BY <2>1 DEF StatusAfterTeardown, Statuses, TallyInv, TestStatuses
  <2> QED
    BY <1>7, <2>2, AccountResult DEF AfterTeardown, Returned, InTest
<1>8. CASE Finish
  <2>1. Phase = "end" /\ totals' = totals /\ status' = status
    BY <1>8, PhaseValues DEF Finish, PhaseOfPlace
  <2>2. NumTests - totals["executed"] = 0 \/ totals["failed"] + totals["errors"] = 1
    BY <2>1 DEF Abstract!Accountable
  <2>3. totals["executed"] = NumTests \/ totals["failed"] + totals["errors"] = 1
    BY <2>2, RunnerAssumption DEF TypeOK, Counters
  <2> QED
    BY <2>1, <2>3 DEF ResultInv
<1>9. CASE UNCHANGED vars
  BY <1>9, ResultStays DEF vars, report
<1> QED
  BY <1>1, <1>2, <1>3, <1>4, <1>5, <1>6, <1>7, <1>8, <1>9 DEF Next, GroupStep

LEMMA ResultInvHolds == Spec => []ResultInv
<1>1. Init => ResultInv
  BY DEF Init, ResultInv, Counters
<1>2. /\ TypeOK /\ FrameInv /\ Counted /\ TallyInv /\ Abstract!Accountable /\ ResultInv
      /\ [Next]_vars
      => ResultInv'
  BY ResultStep
<1> QED
  BY <1>1, <1>2, TypeCorrect, FrameInvHolds, CountedHolds, TallyInvHolds,
     AccountableHolds, PTL DEF Spec

\* When a group returns 0, nothing was counted as failed or in error, and all was executed.
LEMMA ZeroTotals ==
  ASSUME TypeOK, TallyInv, ResultInv, pc = "returned", verdict = 0
  PROVE  totals["failed"] = 0 /\ totals["errors"] = 0 /\ totals["executed"] = NumTests
BY DEF TallyInv, ResultInv, TypeOK, Counters

\* Whatever the user functions do, a group that returns 0 has executed all of its tests,
\* and reports each of them as passed or skipped, for any number of tests
\* (_cmocka_run_group_tests).
THEOREM ZeroMeansAllPassedHolds == Spec => []ZeroMeansAllPassed
<1>1. TypeOK /\ TallyInv /\ ResultInv => ZeroMeansAllPassed
  <2> SUFFICES ASSUME TypeOK, TallyInv, ResultInv, pc = "returned", verdict = 0,
                      NEW t \in Tests
               PROVE  status[t] \in {"passed", "skipped"}
    BY DEF ZeroMeansAllPassed
  <2>1. totals["failed"] = 0 /\ totals["errors"] = 0 /\ totals["executed"] = NumTests
    BY ZeroTotals
  <2>2. t \in 1 .. totals["executed"] /\ status[t] \in Statuses \ {"notStarted"}
    BY <2>1 DEF ResultInv, Tests, TypeOK
  <2>3. /\ Cardinality(Marked("failed")) \in Nat /\ Cardinality(Marked("error")) \in Nat
        /\ IsFiniteSet(Marked("failed")) /\ IsFiniteSet(Marked("error"))
    BY MarkedFinite
  <2>4. Cardinality(Marked("failed")) = 0 /\ Cardinality(Marked("error")) = 0
    BY <2>1, <2>3 DEF TallyInv, Tallied, TestStatuses
  <2>5. Marked("failed") = {} /\ Marked("error") = {}
    BY <2>3, <2>4, FS_EmptySet
  <2> QED
    BY <2>2, <2>5 DEF Marked, Statuses
<1> QED
  BY <1>1, TypeCorrect, TallyInvHolds, ResultInvHolds, PTL

\* When only tests skip and nothing leaves an expect_assert_failure() but an assertion, a
\* result of 0 also tells that nothing failed in any test, in any fixture of a test or in
\* the group setup (_cmocka_run_group_tests, cmocka_run_one_tests).
THEOREM ZeroMeansNothingFailedHolds ==
  ASSUME SafeScripts
  PROVE  Spec => []ZeroMeansNothingFailed
<1>1. TypeOK /\ TallyInv /\ ResultInv /\ StatusInv /\ ZeroMeansAllPassed
      => ZeroMeansNothingFailed
  <2> SUFFICES ASSUME TypeOK, TallyInv, ResultInv, StatusInv, ZeroMeansAllPassed,
                      pc = "returned", verdict = 0
               PROVE  ZeroMeansNothingFailed
    BY DEF ZeroMeansNothingFailed
  <2>1. totals["errors"] = 0 /\ ~AtSetup /\ current = NumTests
    BY ZeroTotals DEF TallyInv, AtSetup, Between, InFrame, Lost
  <2>2. ~SetupFailed
    <3>1. Cardinality(Marked("error")) \in Nat
      BY MarkedFinite
    <3> QED
      BY <2>1, <3>1 DEF TallyInv, Tallied
  <2>3. ASSUME NEW t \in Tests
        PROVE  /\ ended[t] \in {"returned", "stopped", "skipped"}
               /\ ~FailedIn({"setup", "teardown"}, t)
    <3>1. status[t] \in {"passed", "skipped"}
      BY DEF ZeroMeansAllPassed
    <3>2. Over(t)
      BY <2>1, RunnerAssumption DEF Over, Tests, InFrame, Lost
    <3>3. IF BadFixture(t) THEN status[t] = "error" ELSE Says(status[t], ended[t])
      BY <3>2 DEF StatusInv
    <3> QED
      BY <3>1, <3>3 DEF Says, BadFixture
  <2> QED
    BY <2>2, <2>3 DEF ZeroMeansNothingFailed, SetupFailed
<1> QED
  BY <1>1, TypeCorrect, TallyInvHolds, ResultInvHolds, StatusInvHolds,
     ZeroMeansAllPassedHolds, PTL
-----------------------------------------------------------------------------
(* Every group comes nearer to its end.                                    *)

\* The stages and places that are left, by place.
LeftByPlace ==
  /\ pc \in Lost \cup {"group", "returned"} => StagesLeft = 0
  /\ pc = "finish" => StagesLeft = 1
  /\ pc = "wrapUp" => StagesLeft = 3
  /\ pc = "next"   => StagesLeft = 4
  /\ pc \in InFrame \cup {"return"} =>
       /\ frame = "groupSetup"    => StagesLeft = 8
       /\ frame = "setup"         => StagesLeft = 7
       /\ frame = "test"          => StagesLeft = 6
       /\ frame = "teardown"      => StagesLeft = 5
       /\ frame = "groupTeardown" => StagesLeft = 2

LEMMA LeftValues == LeftByPlace /\ LeftByPlace'
<1>1. LeftByPlace
  BY DEF LeftByPlace, StagesLeft, InFrame, Lost
<1>2. LeftByPlace'
  BY DEF LeftByPlace, StagesLeft, InFrame, Lost
<1> QED
  BY <1>1, <1>2

\* A step of a user function is one of its calls, or leaves it.
LEMMA UserStepPlace ==
  ASSUME UserStep
  PROVE  /\ pc = "body"
         /\ pc' \in {"checks", "jumped"} \cup Lost \/ (pc' = "body" /\ ops' = ops + 1)
<1> USE DEF MakesCall, Finishes, ExitTest, Lost
<1>1. CASE ReturnFromBody \/ UseMock \/ UseOrderedCall \/ UseMalloc \/ UseFree
  BY <1>1 DEF ReturnFromBody, UseMock, UseOrderedCall, UseMalloc, UseFree
<1>2. CASE UseRealloc \/ OverrunBlock \/ Fail \/ Skip \/ Stop
  BY <1>2 DEF UseRealloc, OverrunBlock, Fail, Skip, Stop
<1>3. CASE ExpectAssertFailure \/ AssertMissing \/ MockAssert
  BY <1>3 DEF ExpectAssertFailure, AssertMissing, MockAssert
<1> QED
  BY <1>1, <1>2, <1>3 DEF UserStep

\* A user function makes one of its calls, or goes to a later place of its frame.
LEMMA FrameAdvances ==
  ASSUME TypeOK, FrameInv, RunnerAssumption, UserStep \/ FrameStep
  PROVE  Nearer
<1>1. /\ pc \in InFrame
      /\ pc' \in InFrame \cup {"return"} \cup Lost
      /\ frame' = frame /\ current' = current
  BY StaysInFrame DEF group
<1>2. frame \in {"groupSetup", "setup", "test", "teardown", "groupTeardown"} /\ ops \in Nat
  BY DEF TypeOK, Frames
<1>3. CASE pc' \in Lost
  <2>1. StagesLeft' = 0 /\ StagesLeft > 0
    BY <1>1, <1>2, <1>3, LeftValues DEF LeftByPlace
  <2> QED
    BY <1>1, <2>1 DEF Nearer
<1>4. CASE pc' \notin Lost
  <2>1. StagesLeft' = StagesLeft
    BY <1>1, <1>2, <1>4, LeftValues DEF LeftByPlace
  <2>2. PlacesLeft' < PlacesLeft \/ (pc = "body" /\ pc' = "body" /\ ops' = ops + 1)
    <3>1. CASE UserStep
      <4>1. pc = "body"
        BY <3>1, UserStepPlace
      <4>2. pc' \in {"checks", "jumped"} \/ (pc' = "body" /\ ops' = ops + 1)
        BY <1>4, <3>1, UserStepPlace
      <4> QED
        BY <4>1, <4>2 DEF PlacesLeft
    <3>2. CASE LeakCheck
      BY <1>4, <3>2 DEF LeakCheck, ExitTest, Lost, PlacesLeft
    <3>3. CASE FailIfLeftoverValues
      BY <1>4, <3>3 DEF FailIfLeftoverValues, ExitTest, Lost, PlacesLeft
    <3>4. CASE Landed
      BY <3>4 DEF Landed, PlacesLeft
    <3>5. CASE Leave
      BY <3>5 DEF Leave, PlacesLeft
    <3> QED
      BY <3>1, <3>2, <3>3, <3>4, <3>5 DEF FrameStep
  <2> QED
    <3>1. CASE PlacesLeft' < PlacesLeft
      BY <1>1, <2>1, <3>1 DEF Nearer
    <3>2. CASE pc = "body" /\ pc' = "body" /\ ops' = ops + 1
      <4>1. PlacesLeft' = PlacesLeft
        BY <3>2 DEF PlacesLeft
      <4>2. MaxOps - ops' < MaxOps - ops
        BY <1>2, <3>2, RunnerAssumption
      <4> QED
        BY <1>1, <2>1, <4>1, <4>2 DEF Nearer
    <3> QED
      BY <2>2, <3>1, <3>2
<1> QED
  BY <1>3, <1>4

\* Whatever the user functions do and however they end, each step of a group is one
\* nearer to its end, so a group with any number of tests takes a bounded number of steps
\* (_cmocka_run_group_tests, cmocka_run_one_tests, cmocka_run_one_test_or_fixture).
THEOREM GroupAdvancesHolds == Spec => GroupAdvances
<1>1. ASSUME TypeOK, FrameInv, Counted, [Next]_vars, groups' = groups, ~UNCHANGED vars
      PROVE  Nearer
  <2>1. CASE UserStep \/ FrameStep
    BY <1>1, <2>1, FrameAdvances, RunnerAssumption
  <2>2. CASE BeginGroup \/ OutOfMemory
    <3>1. groups' = groups + 1 /\ groups \in Nat
      BY <1>1, <2>2 DEF BeginGroup, OutOfMemory, StartGroup, TypeOK
    <3> QED
      BY <1>1, <3>1
  <2>3. CASE StartTest
    <3>1. current' = current + 1 /\ current \in Nat
      BY <1>1, <2>3 DEF StartTest, TypeOK
    <3> QED
      BY <3>1, RunnerAssumption DEF Nearer
  <2>4. CASE AfterGroupSetup \/ AfterSetup \/ AfterTest \/ AfterTeardown \/ WrapUp
               \/ AfterGroupTeardown \/ Finish
    <3>1. current' = current
      BY <2>4 DEF AfterGroupSetup, AfterSetup, AfterTest, AfterTeardown, WrapUp,
                  AfterGroupTeardown, Finish, group
    <3>2. StagesLeft' < StagesLeft
      <4>1. CASE AfterGroupSetup
        BY <4>1, LeftValues DEF AfterGroupSetup, Returned, Goto, LeftByPlace, InFrame
      <4>2. CASE AfterSetup
        BY <4>2, LeftValues DEF AfterSetup, Returned, Enter, Account, Goto, LeftByPlace, InFrame
      <4>3. CASE AfterTest
        BY <4>3, LeftValues DEF AfterTest, Returned, Enter, Account, Goto, LeftByPlace, InFrame
      <4>4. CASE AfterTeardown
        BY <4>4, LeftValues DEF AfterTeardown, Returned, Account, Goto, LeftByPlace, InFrame
      <4>5. CASE WrapUp
        BY <4>5, LeftValues DEF WrapUp, Enter, Goto, LeftByPlace, InFrame
      <4>6. CASE AfterGroupTeardown
        BY <4>6, LeftValues DEF AfterGroupTeardown, Returned, Goto, LeftByPlace, InFrame
      <4>7. CASE Finish
        BY <1>1, <4>7, LeftValues
        DEF Finish, ExitTest, FrameInv, FrameDiscipline, LeftByPlace, Lost
      <4> QED
        BY <2>4, <4>1, <4>2, <4>3, <4>4, <4>5, <4>6, <4>7
    <3> QED
      BY <3>1, <3>2 DEF Nearer
  <2> QED
    BY <1>1, <2>1, <2>2, <2>3, <2>4 DEF Next, GroupStep
<1>2. TypeOK /\ FrameInv /\ Counted /\ [Next]_vars => [groups' = groups => Nearer]_vars
  BY <1>1
<1> QED
  BY <1>2, TypeCorrect, FrameInvHolds, CountedHolds, PTL DEF Spec, GroupAdvances
-----------------------------------------------------------------------------
(* The order of the blocks in the list.                                    *)

\* No block is in the list twice.
Distinct(s) == \A i, j \in DOMAIN s : s[i] = s[j] => i = j

\* What follows a node of a list.
Behind(s, p) == {s[j] : j \in {k \in DOMAIN s : p = Root \/ \E i \in 1 .. k - 1 : s[i] = p}}

\* The node is the head of the list, or in it.
InList(s, p) == p = Root \/ p \in ToSet(s)

LEMMA BehindIsAfter ==
  ASSUME NEW S, NEW s \in Seq(S), Distinct(s), NEW p, InList(s, p)
  PROVE  {s[i] : i \in (IF p = Root THEN 1
                        ELSE (CHOOSE i \in DOMAIN s : s[i] = p) + 1) .. Len(s)} = Behind(s, p)
<1> DEFINE place == CHOOSE i \in DOMAIN s : s[i] = p
           after == (IF p = Root THEN 1 ELSE place + 1) .. Len(s)
           follow == {k \in DOMAIN s : p = Root \/ \E i \in 1 .. k - 1 : s[i] = p}
<1>1. Len(s) \in Nat /\ DOMAIN s = 1 .. Len(s)
  BY LenProperties
<1>2. after = follow
  <2>1. CASE p = Root
    BY <1>1, <2>1
  <2>2. CASE p # Root
    <3>1. \E i \in DOMAIN s : s[i] = p
      BY <2>2 DEF ToSet, InList
    <3>2. place \in DOMAIN s /\ s[place] = p
      BY <3>1
    <3>3. \A i \in DOMAIN s : s[i] = p <=> i = place
      BY <3>2 DEF Distinct
    <3> HIDE DEF place
    <3>4. \A k \in DOMAIN s : (\E i \in 1 .. k - 1 : s[i] = p) <=> place < k
      BY <1>1, <3>2, <3>3
    <3> QED
      BY <1>1, <2>2, <3>2, <3>4
  <2> QED
    BY <2>1, <2>2
<1> QED
  BY <1>2 DEF Behind

\* The blocks that a check point finds are those behind it.
LEMMA AfterIsBehind ==
  ASSUME HeapTypeOK, Distinct(blocks), NEW p, Follows(p)
  PROVE  BlocksAfter(p) = Behind(blocks, p)
BY BehindIsAfter DEF InList, HeapTypeOK, Follows, Allocated, BlocksAfter, FirstAfter, Place

\* A new block comes behind all others.
LEMMA AppendOrder ==
  ASSUME NEW S, NEW s \in Seq(S), Distinct(s), NEW b \in S, b \notin ToSet(s)
  PROVE  /\ Distinct(Append(s, b))
         /\ ToSet(Append(s, b)) = ToSet(s) \cup {b}
         /\ \A p : InList(s, p) => Behind(Append(s, b), p) = Behind(s, p) \cup {b}
<1> DEFINE t == Append(s, b)
<1>1. Len(s) \in Nat /\ DOMAIN s = 1 .. Len(s)
  BY LenProperties
<1>2. /\ t \in Seq(S) /\ Len(t) = Len(s) + 1 /\ DOMAIN t = 1 .. Len(s) + 1
      /\ \A i \in 1 .. Len(s) : t[i] = s[i]
      /\ t[Len(s) + 1] = b
  BY <1>1, AppendProperties, LenProperties
<1>3. \A i \in 1 .. Len(s) : s[i] # b
  BY <1>1 DEF ToSet
<1> HIDE DEF t
<1>4. Distinct(t)
  BY <1>1, <1>2, <1>3 DEF Distinct
<1>5. ToSet(t) = ToSet(s) \cup {b}
  BY <1>1, <1>2 DEF ToSet
<1>6. ASSUME NEW p, InList(s, p)
      PROVE  Behind(t, p) = Behind(s, p) \cup {b}
  <2>1. b \in Behind(t, p)
    <3>1. p = Root \/ \E i \in 1 .. Len(s) + 1 - 1 : t[i] = p
      BY <1>1, <1>2, <1>6 DEF ToSet, InList
    <3> QED
      BY <1>1, <1>2, <3>1 DEF Behind
  <2>2. \A k \in 1 .. Len(s) :
          (\E i \in 1 .. k - 1 : t[i] = p) <=> (\E i \in 1 .. k - 1 : s[i] = p)
    BY <1>1, <1>2
  <2> DEFINE after(u, k) == p = Root \/ \E i \in 1 .. k - 1 : u[i] = p
  <2>3. /\ \A k \in 1 .. Len(s) : after(t, k) <=> after(s, k)
        /\ DOMAIN s = 1 .. Len(s) /\ DOMAIN t = 1 .. Len(s) \cup {Len(s) + 1}
    BY <1>1, <1>2, <2>2
  <2>4. Behind(s, p) = {s[j] : j \in {k \in DOMAIN s : after(s, k)}}
    BY DEF Behind
  <2>5. Behind(t, p) = {t[j] : j \in {k \in DOMAIN t : after(t, k)}}
    BY DEF Behind
  <2> HIDE DEF after
  <2> QED
    BY <1>2, <2>1, <2>3, <2>4, <2>5
<1> QED
  BY <1>4, <1>5, <1>6 DEF t

\* The elements of a sequence from which one was removed.
LEMMA RemoveElements ==
  ASSUME NEW S, NEW s \in Seq(S), NEW k \in 1 .. Len(s)
  PROVE  /\ Len(RemoveAt(s, k)) = Len(s) - 1
         /\ \A i \in 1 .. Len(s) - 1 :
              RemoveAt(s, k)[i] = IF i < k THEN s[i] ELSE s[i + 1]
<1>1. Len(s) \in Nat /\ k \in Nat
  BY LenProperties
<1>2. /\ SubSeq(s, 1, k - 1) \in Seq(S) /\ Len(SubSeq(s, 1, k - 1)) = k - 1
      /\ \A i \in 1 .. k - 1 : SubSeq(s, 1, k - 1)[i] = s[i]
  <2>1. \A i \in 1 .. k - 1 : s[i] \in S
    BY <1>1, ElementOfSeq
  <2> QED
    BY <1>1, <2>1, SubSeqProperties
<1>3. /\ SubSeq(s, k + 1, Len(s)) \in Seq(S) /\ Len(SubSeq(s, k + 1, Len(s))) = Len(s) - k
      /\ \A i \in 1 .. Len(s) - k : SubSeq(s, k + 1, Len(s))[i] = s[k + i]
  <2>1. \A i \in k + 1 .. Len(s) : s[i] \in S
    BY <1>1, ElementOfSeq
  <2>2. \A i \in 1 .. Len(s) - k : (k + 1) + i - 1 = k + i
    BY <1>1
  <2> QED
    BY <1>1, <2>1, <2>2, SubSeqProperties
<1> DEFINE a == SubSeq(s, 1, k - 1)
           b == SubSeq(s, k + 1, Len(s))
<1>4. RemoveAt(s, k) = a \o b
  BY DEF RemoveAt
<1> HIDE DEF a, b
<1>5. /\ a \in Seq(S) /\ Len(a) = k - 1 /\ \A i \in 1 .. k - 1 : a[i] = s[i]
      /\ b \in Seq(S) /\ Len(b) = Len(s) - k /\ \A i \in 1 .. Len(s) - k : b[i] = s[k + i]
  BY <1>2, <1>3 DEF a, b
<1>6. /\ Len(a \o b) = Len(a) + Len(b)
      /\ \A i \in 1 .. Len(a) + Len(b) : (a \o b)[i] =
           IF i <= Len(a) THEN a[i] ELSE b[i - Len(a)]
  BY <1>5, ConcatProperties
<1>7. ASSUME NEW i \in 1 .. Len(s) - 1, ~(i < k)
      PROVE  b[i - (k - 1)] = s[i + 1]
  <2>1. i - (k - 1) \in 1 .. Len(s) - k /\ k + (i - (k - 1)) = i + 1
    BY <1>1, <1>7
  <2> QED
    BY <1>5, <2>1
<1> QED
  BY <1>1, <1>4, <1>5, <1>6, <1>7

\* Without one of its blocks the list keeps the order of the others.
LEMMA RemoveOrder ==
  ASSUME NEW S, NEW s \in Seq(S), Distinct(s), NEW k \in 1 .. Len(s)
  PROVE  /\ Distinct(RemoveAt(s, k))
         /\ ToSet(RemoveAt(s, k)) = ToSet(s) \ {s[k]}
         /\ \A p : p # s[k] => Behind(RemoveAt(s, k), p) = Behind(s, p) \ {s[k]}
<1> DEFINE t == RemoveAt(s, k)
<1>1. Len(s) \in Nat /\ DOMAIN s = 1 .. Len(s) /\ k \in Nat
  BY LenProperties
<1>2. /\ t \in Seq(S) /\ DOMAIN t = 1 .. Len(s) - 1
      /\ \A i \in 1 .. Len(s) - 1 : t[i] = IF i < k THEN s[i] ELSE s[i + 1]
  BY <1>1, RemoveElements, RemoveAtType, LenProperties
<1> HIDE DEF t
<1>3. Distinct(t)
  <2> DEFINE old(i) == IF i < k THEN i ELSE i + 1
  <2>1. \A i \in DOMAIN t : old(i) \in DOMAIN s /\ t[i] = s[old(i)]
    BY <1>1, <1>2
  <2>2. \A i, j \in DOMAIN t : old(i) = old(j) => i = j
    BY <1>1, <1>2
  <2> HIDE DEF old
  <2> QED
    BY <2>1, <2>2 DEF Distinct
<1> DEFINE new(i) == IF i < k THEN i ELSE i - 1
<1>4. \A i \in DOMAIN s \ {k} : new(i) \in DOMAIN t /\ t[new(i)] = s[i]
  <2> SUFFICES ASSUME NEW i \in DOMAIN s \ {k}
               PROVE  new(i) \in DOMAIN t /\ t[new(i)] = s[i]
    OBVIOUS
  <2>1. CASE i < k
    BY <1>1, <1>2, <2>1
  <2>2. CASE ~(i < k)
    <3>1. i - 1 \in 1 .. Len(s) - 1 /\ ~(i - 1 < k) /\ (i - 1) + 1 = i
      BY <1>1, <2>2
    <3> QED
      BY <1>2, <2>2, <3>1
  <2> QED
    BY <2>1, <2>2
<1>5. \A i \in DOMAIN t : \E j \in DOMAIN s \ {k} : new(j) = i /\ t[i] = s[j]
  <2> SUFFICES ASSUME NEW i \in DOMAIN t
               PROVE  \E j \in DOMAIN s \ {k} : new(j) = i /\ t[i] = s[j]
    OBVIOUS
  <2>1. CASE i < k
    BY <1>1, <1>2, <2>1
  <2>2. CASE ~(i < k)
    <3>1. i + 1 \in DOMAIN s \ {k} /\ new(i + 1) = i /\ t[i] = s[i + 1]
      BY <1>1, <1>2, <2>2
    <3> QED
      BY <3>1
  <2> QED
    BY <2>1, <2>2
<1>6. \A i, j \in DOMAIN s \ {k} : i < j <=> new(i) < new(j)
  BY <1>1
<1>7. \A i \in DOMAIN s : s[i] = s[k] <=> i = k
  BY <1>1 DEF Distinct
<1> HIDE DEF new
<1>8. ToSet(t) = ToSet(s) \ {s[k]}
  BY <1>4, <1>5, <1>7 DEF ToSet
<1>9. ASSUME NEW p, p # s[k]
      PROVE  Behind(t, p) = Behind(s, p) \ {s[k]}
  <2>1. ASSUME NEW j \in DOMAIN s \ {k}
        PROVE  (\E i \in 1 .. new(j) - 1 : t[i] = p) <=> (\E i \in 1 .. j - 1 : s[i] = p)
    <3>1. ASSUME NEW i \in 1 .. j - 1, s[i] = p
          PROVE  \E h \in 1 .. new(j) - 1 : t[h] = p
      <4>1. i \in DOMAIN s \ {k} /\ i < j /\ new(j) \in DOMAIN t
        BY <1>1, <1>4, <1>9, <2>1, <3>1
      <4>2. new(i) \in DOMAIN t /\ t[new(i)] = p /\ new(i) < new(j)
        BY <1>4, <1>6, <2>1, <3>1, <4>1
      <4>3. new(i) \in 1 .. new(j) - 1
        BY <1>1, <1>2, <4>1, <4>2
      <4> QED
        BY <4>2, <4>3
    <3>2. ASSUME NEW h \in 1 .. new(j) - 1, t[h] = p
          PROVE  \E i \in 1 .. j - 1 : s[i] = p
      <4>1. h \in DOMAIN t /\ h < new(j)
        BY <1>1, <1>2, <1>4, <2>1, <3>2
      <4>2. PICK i \in DOMAIN s \ {k} : new(i) = h /\ t[h] = s[i]
        BY <1>5, <4>1
      <4>3. i < j
        BY <1>6, <4>1, <4>2, <2>1
      <4>4. i \in 1 .. j - 1
        BY <1>1, <4>2, <4>3, <2>1
      <4> QED
        BY <3>2, <4>2, <4>4
    <3> QED
      BY <3>1, <3>2
  <2>2. ASSUME NEW x
        PROVE  x \in Behind(t, p) <=> x \in Behind(s, p) \ {s[k]}
    <3>1. x \in Behind(t, p) <=>
            \E j \in DOMAIN s \ {k} : s[j] = x /\ (p = Root \/ \E i \in 1 .. j - 1 : s[i] = p)
      BY <1>4, <1>5, <2>1 DEF Behind
    <3>2. x \in Behind(s, p) <=>
            \E j \in DOMAIN s : s[j] = x /\ (p = Root \/ \E i \in 1 .. j - 1 : s[i] = p)
      BY DEF Behind
    <3> QED
      BY <1>7, <3>1, <3>2
  <2> QED
    BY <2>2
<1> QED
  BY <1>3, <1>8, <1>9 DEF t

LEMMA MallocOrder ==
  ASSUME HeapTypeOK, Distinct(blocks), NEW b \in Blocks, Malloc(b)
  PROVE  /\ Distinct(blocks')
         /\ \A p : InList(blocks, p) =>
              InList(blocks', p) /\ Behind(blocks', p) = Behind(blocks, p) \cup {b}
<1>1. blocks' = Append(blocks, b) /\ b \notin ToSet(blocks) /\ blocks \in Seq(Blocks)
  BY DEF Malloc, HeapTypeOK, Allocated
<1> QED
  BY <1>1, AppendOrder DEF InList

\* What is left behind a node when a block is freed.
Freed(b, s) == IF FreeFails(b) THEN s ELSE s \ {b}

LEMMA UnlinkOrder ==
  ASSUME HeapTypeOK, Distinct(blocks), NEW b \in Allocated
  PROVE  /\ Distinct(Unlink(b))
         /\ Unlink(b) \in Seq(Blocks)
         /\ ToSet(Unlink(b)) = ToSet(blocks) \ {b}
         /\ \A p : p # b => Behind(Unlink(b), p) = Behind(blocks, p) \ {b}
<1>1. Place(b) \in 1 .. Len(blocks) /\ blocks[Place(b)] = b /\ blocks \in Seq(Blocks)
  BY PlaceType DEF HeapTypeOK
<1> QED
  BY <1>1, UnlinkType, RemoveOrder DEF Unlink

LEMMA FreeOrder ==
  ASSUME HeapTypeOK, Distinct(blocks), NEW b \in Allocated, Free(b)
  PROVE  /\ Distinct(blocks')
         /\ \A p : InList(blocks, p) /\ p # b =>
              InList(blocks', p) /\ Behind(blocks', p) = Freed(b, Behind(blocks, p))
BY UnlinkOrder DEF Free, Freed, InList

LEMMA ReallocOrder ==
  ASSUME HeapTypeOK, Distinct(blocks), NEW b \in Allocated, NEW new \in Blocks, Realloc(b, new)
  PROVE  /\ Distinct(blocks')
         /\ \A p : InList(blocks, p) /\ p # b =>
              InList(blocks', p) /\ Behind(blocks', p) = Freed(b, Behind(blocks, p)) \cup {new}
<1> DEFINE rest == IF FreeFails(b) THEN blocks ELSE Unlink(b)
<1>1. blocks' = Append(rest, new) /\ new \notin ToSet(blocks)
  BY DEF Realloc, Allocated
<1>2. /\ rest \in Seq(Blocks) /\ Distinct(rest) /\ new \notin ToSet(rest)
      /\ \A p : InList(blocks, p) /\ p # b =>
           InList(rest, p) /\ Behind(rest, p) = Freed(b, Behind(blocks, p))
  BY <1>1, UnlinkOrder DEF Freed, HeapTypeOK, InList
<1> HIDE DEF rest
<1>3. /\ Distinct(blocks') /\ ToSet(blocks') = ToSet(rest) \cup {new}
      /\ \A p : InList(rest, p) => Behind(blocks', p) = Behind(rest, p) \cup {new}
  BY <1>1, <1>2, AppendOrder
<1> QED
  BY <1>2, <1>3 DEF InList

\* What is freed by free_allocated_blocks lies behind its beginning, and a block that
\* cannot be freed stays where it was.
LEMMA FreeFromOrder ==
  ASSUME HeapTypeOK, Distinct(blocks), NEW first \in 1 .. Len(blocks) + 1, FreeFrom(first)
  PROVE  /\ Distinct(blocks')
         /\ \A i \in 1 .. first - 1 : blocks[i] \in Allocated'
<1> DEFINE a == SubSeq(blocks, 1, first - 1)
           b == Unfreed(first)
           stop == {i \in first .. Len(blocks) : FreeFails(blocks[i])}
           least == CHOOSE i \in stop : \A j \in stop : i <= j
<1>1. /\ Len(blocks) \in Nat /\ first \in 1 .. Len(blocks) + 1 /\ blocks \in Seq(Blocks)
      /\ DOMAIN blocks = 1 .. Len(blocks) /\ \A i \in 1 .. Len(blocks) : blocks[i] \in Blocks
  BY LenProperties, ElementOfSeq DEF HeapTypeOK
<1>2. a \in Seq(Blocks) /\ Len(a) = first - 1 /\ \A i \in 1 .. first - 1 : a[i] = blocks[i]
  BY <1>1, SubSeqProperties
<1>3. \E m \in first .. Len(blocks) + 1 :
        /\ b \in Seq(Blocks) /\ Len(b) = Len(blocks) + 1 - m
        /\ \A i \in 1 .. Len(blocks) + 1 - m : b[i] = blocks[m + i - 1]
  <2>1. CASE stop = {}
    <3>1. b = <<>> /\ b \in Seq(Blocks) /\ Len(b) = 0
      BY <2>1, EmptySeq DEF Unfreed
    <3>2. Len(blocks) + 1 \in first .. Len(blocks) + 1 /\ Len(blocks) + 1 - (Len(blocks) + 1) = 0
      BY <1>1
    <3> HIDE DEF b, stop
    <3> QED
      BY <3>1, <3>2
  <2>2. CASE stop # {}
    <3>1. stop \in SUBSET Nat
      BY <1>1
    <3>2. b = SubSeq(blocks, least, Len(blocks))
      BY <2>2 DEF Unfreed
    <3>3. least \in stop
      <4> HIDE DEF stop
      <4>1. \E i \in stop : \A j \in stop : i <= j
        BY <2>2, <3>1, SmallestExists
      <4> QED
        BY <4>1
    <3>4. least \in first .. Len(blocks)
      BY <3>3
    <3> HIDE DEF b, stop, least
    <3>5. /\ least \in Nat \ {0} /\ least \in first .. Len(blocks) + 1
          /\ \A i \in least .. Len(blocks) : blocks[i] \in Blocks
      BY <1>1, <3>4
    <3>6. /\ b \in Seq(Blocks) /\ Len(b) = Len(blocks) - least + 1
          /\ \A i \in 1 .. Len(blocks) - least + 1 : b[i] = blocks[least + i - 1]
      BY <1>1, <3>2, <3>4, <3>5, SubSeqProperties
    <3> QED
      BY <1>1, <3>5, <3>6
  <2> QED
    BY <2>1, <2>2
<1>4. blocks' = a \o b
  BY DEF FreeFrom
<1> HIDE DEF a, b
<1>5. PICK m \in first .. Len(blocks) + 1 :
        /\ b \in Seq(Blocks) /\ Len(b) = Len(blocks) + 1 - m
        /\ \A i \in 1 .. Len(blocks) + 1 - m : b[i] = blocks[m + i - 1]
  BY <1>3
<1> DEFINE n == first - 1 + (Len(blocks) + 1 - m)
           old(i) == IF i <= first - 1 THEN i ELSE m + (i - (first - 1)) - 1
<1>6. /\ blocks' \in Seq(Blocks) /\ Len(blocks') = n
      /\ \A i \in 1 .. n : blocks'[i] = IF i <= first - 1 THEN a[i] ELSE b[i - (first - 1)]
  <2>1. /\ a \o b \in Seq(Blocks) /\ Len(a \o b) = Len(a) + Len(b)
        /\ \A i \in 1 .. Len(a) + Len(b) : (a \o b)[i] =
             IF i <= Len(a) THEN a[i] ELSE b[i - Len(a)]
    BY <1>2, <1>5, ConcatProperties
  <2> QED
    BY <1>2, <1>4, <1>5, <2>1
<1>7. DOMAIN blocks' = 1 .. n
  BY <1>6, LenProperties
<1>8. \A i \in 1 .. n : old(i) \in 1 .. Len(blocks) /\ blocks'[i] = blocks[old(i)]
  <2> SUFFICES ASSUME NEW i \in 1 .. n
               PROVE  old(i) \in 1 .. Len(blocks) /\ blocks'[i] = blocks[old(i)]
    OBVIOUS
  <2>1. CASE i <= first - 1
    BY <1>1, <1>2, <1>6, <2>1
  <2>2. CASE ~(i <= first - 1)
    <3>1. i - (first - 1) \in 1 .. Len(blocks) + 1 - m /\ old(i) \in 1 .. Len(blocks)
      BY <1>1, <2>2
    <3> QED
      BY <1>5, <1>6, <2>2, <3>1
  <2> QED
    BY <2>1, <2>2
<1>9. \A i, j \in 1 .. n : old(i) = old(j) => i = j
  BY <1>1, <1>5
<1>10. Distinct(blocks')
  <2> HIDE DEF old, n
  <2> QED
    BY <1>1, <1>7, <1>8, <1>9 DEF Distinct
<1>11. ASSUME NEW i \in 1 .. first - 1 PROVE blocks[i] \in Allocated'
  <2>1. i \in 1 .. n /\ blocks'[i] = blocks[i]
    BY <1>1, <1>2, <1>5, <1>6
  <2> QED
    BY <1>7, <2>1 DEF Allocated, ToSet
<1> QED
  BY <1>10, <1>11

\* Nodes that are not behind a check point stay when the blocks behind it are freed.
LEMMA FreeAllocatedBlocksOrder ==
  ASSUME HeapTypeOK, Distinct(blocks), NEW point, Follows(point), FreeAllocatedBlocks(point)
  PROVE  /\ Distinct(blocks')
         /\ \A p : InList(blocks, p) /\ p \notin Behind(blocks, point) => InList(blocks', p)
<1>1. FirstAfter(point) \in 1 .. Len(blocks) + 1 /\ FreeFrom(FirstAfter(point))
  BY FirstAfterType DEF FreeAllocatedBlocks
<1>2. Len(blocks) \in Nat /\ Behind(blocks, point) = BlocksAfter(point)
  BY LenProperties, AfterIsBehind DEF HeapTypeOK
<1>3. ASSUME NEW p, InList(blocks, p), p \notin BlocksAfter(point), p # Root
      PROVE  p \in ToSet(blocks')
  <2>1. Place(p) \in 1 .. Len(blocks) /\ blocks[Place(p)] = p
    BY <1>3, PlaceType DEF InList, Allocated
  <2>2. ~(Place(p) \in FirstAfter(point) .. Len(blocks))
    BY <1>3, <2>1 DEF BlocksAfter
  <2>3. Place(p) \in 1 .. FirstAfter(point) - 1
    BY <1>1, <1>2, <2>1, <2>2
  <2> QED
    BY <1>1, <2>1, <2>3, FreeFromOrder DEF Allocated
<1> QED
  BY <1>1, <1>2, <1>3, FreeFromOrder DEF InList

\* The head of the list is no block, what is behind a node is in the list, and no node is
\* behind itself.
LEMMA BehindIsInList ==
  ASSUME HeapTypeOK, Distinct(blocks)
  PROVE  /\ Root \notin Allocated
         /\ \A p : Behind(blocks, p) \subseteq Allocated /\ p \notin Behind(blocks, p)
<1>1. Len(blocks) \in Nat /\ DOMAIN blocks = 1 .. Len(blocks)
  BY LenProperties DEF HeapTypeOK
<1>2. Root \notin Allocated
  BY AllocatedBlocks, RootAssumption
<1>3. ASSUME NEW p
      PROVE  Behind(blocks, p) \subseteq Allocated /\ p \notin Behind(blocks, p)
  <2>1. Behind(blocks, p) \subseteq Allocated
    BY <1>1 DEF Behind, Allocated, ToSet
  <2>2. ASSUME p # Root, NEW j \in DOMAIN blocks, NEW i \in 1 .. j - 1,
               blocks[i] = p, blocks[j] = p
        PROVE  FALSE
    <3>1. i \in DOMAIN blocks /\ i # j
      BY <1>1, <2>2
    <3> QED
      BY <2>2, <3>1 DEF Distinct
  <2>3. p \notin Behind(blocks, p)
    BY <1>1, <1>2, <2>1, <2>2 DEF Behind
  <2> QED
    BY <2>1, <2>3
<1> QED
  BY <1>2, <1>3

\* Nothing is behind the newest check point.
LEMMA CheckPointOrder ==
  ASSUME HeapTypeOK, Distinct(blocks)
  PROVE  InList(blocks, CheckPoint) /\ Behind(blocks, CheckPoint) = {}
<1>1. /\ Len(blocks) \in Nat /\ DOMAIN blocks = 1 .. Len(blocks)
  BY LenProperties DEF HeapTypeOK
<1>2. CASE blocks = <<>>
  <2>1. DOMAIN blocks = {}
    BY <1>2
  <2> QED
    BY <1>2, <2>1 DEF CheckPoint, InList, Behind
<1>3. CASE blocks # <<>>
  <2>1. Len(blocks) \in 1 .. Len(blocks) /\ CheckPoint = blocks[Len(blocks)]
    BY <1>1, <1>3, EmptySeq DEF CheckPoint, Last, HeapTypeOK
  <2>2. CheckPoint \in Allocated /\ CheckPoint # Root
    BY <1>1, <2>1, BehindIsInList DEF Allocated, ToSet
  <2>3. ASSUME NEW k \in DOMAIN blocks, NEW i \in 1 .. k - 1, blocks[i] = CheckPoint
        PROVE  FALSE
    <3>1. i \in DOMAIN blocks /\ i < Len(blocks)
      BY <1>1, <2>3
    <3>2. i = Len(blocks)
      BY <1>1, <2>1, <2>3, <3>1 DEF Distinct
    <3> QED
      BY <1>1, <3>1, <3>2
  <2> QED
    BY <2>2, <2>3 DEF InList, Behind, Allocated
<1> QED
  BY <1>2, <1>3
-----------------------------------------------------------------------------
(* Check points and leaks, under two rules for the heap.                   *)

\* A user function runs, or has run and has not been dealt with.
InFunction == running \/ pc \in {"leave", "return"}

\* The inductive invariant behind CheckPointsFollow and LeaksAreFailures: check points in
\* use are in the list, and while a test runs its blocks are behind its check point, and
\* that of its setup is not.
PointsInv ==
  /\ Distinct(blocks)
  /\ InFunction =>
       /\ "freeAny" \notin suite.mayDo[frame] => InList(blocks, checkPoint)
       /\ frame = "setup" => testPoint = checkPoint
       /\ frame = "test" /\ testPoint # Null => InList(blocks, testPoint)
  /\ frame = "test" /\ pc \in {"body", "checks"} =>
       testPoint \notin Behind(blocks, checkPoint) /\ own \subseteq Behind(blocks, checkPoint)

\* The inductive invariant behind LeaksAreFailures: a test with blocks of its own does not
\* stop, and does not come past the leak check but by exit_test.
LeakInv ==
  frame = "test" /\ own # {} =>
    /\ InFunction => "stop" \notin suite.mayDo[frame]
    /\ pc # "leftovers"
    /\ pc = "jumped" => ~stopTest
    /\ pc \in {"leave", "return"} => rc # 0

LEMMA FrameInFunction == FrameInv /\ pc \in InFrame => InFunction
BY DEF FrameInv, FrameDiscipline, InFunction, InFrame, Lost

LEMMA PointsStay ==
  ASSUME PointsInv, UNCHANGED <<frame, suite, points, heap, own>>,
         InFunction' => InFunction,
         pc' \in {"body", "checks"} => pc \in {"body", "checks"}
  PROVE  PointsInv'
BY DEF PointsInv, points, heap

LEMMA MallocPoints ==
  ASSUME FreesOwn, TypeOK, FrameInv, PointsInv, UseMalloc
  PROVE  PointsInv'
<1>1. PICK b \in Blocks : Malloc(b) /\ own' = own \cup {b}
  BY DEF UseMalloc
<1>2. /\ pc = "body" /\ pc' = pc /\ UNCHANGED <<frame, suite, checkPoint, testPoint>>
      /\ HeapTypeOK /\ Distinct(blocks) /\ b \notin Allocated /\ suite.mayDo \in Scripts
  BY <1>1 DEF UseMalloc, MakesCall, control, group, points, TypeOK, PointsInv, Malloc, Suites
<1>3. /\ Distinct(blocks')
      /\ \A p : InList(blocks, p) =>
           InList(blocks', p) /\ Behind(blocks', p) = Behind(blocks, p) \cup {b}
  BY <1>1, <1>2, MallocOrder
<1>4. InFunction
  BY <1>2, FrameInFunction DEF InFrame
<1>5. frame = "test" => InList(blocks, checkPoint) /\ testPoint # b
  BY <1>1, <1>2, <1>4, RunnerAssumption, RootAssumption
  DEF FreesOwn, PointsInv, InList, CheckPoints, Allocated
<1> QED
  BY <1>1, <1>2, <1>3, <1>4, <1>5 DEF PointsInv

\* Who frees blocks behind its check point, or any block, keeps the list without repetition,
\* and in the first case the check points, too.
LEMMA FreePoints ==
  ASSUME FreesOwn, TypeOK, FrameInv, PointsInv, UseFree \/ UseRealloc
  PROVE  PointsInv'
<1>1. HeapTypeOK /\ Distinct(blocks) /\ suite.mayDo \in Scripts
  BY DEF TypeOK, PointsInv, Suites
<1>2. /\ pc = "body" /\ InFunction /\ pc' \in {"body", "jumped", "aborted", "exited"}
      /\ UNCHANGED <<frame, suite, checkPoint, testPoint>>
  BY FrameInFunction
  DEF UseFree, UseRealloc, MakesCall, Finishes, ExitTest, control, group, points, InFrame
<1>3. frame \in {"setup", "test"} => "freeAny" \notin suite.mayDo[frame]
  BY <1>1 DEF FreesOwn
<1> DEFINE Result(b, add) ==
             /\ add \subseteq Blocks \ Allocated
             /\ Distinct(blocks')
             /\ \A p : InList(blocks, p) /\ p # b =>
                  InList(blocks', p) /\ Behind(blocks', p) = Freed(b, Behind(blocks, p)) \cup add
             /\ own' = Freed(b, own) \cup add
<1>4. PICK b \in Freeable : \E add : Result(b, add)
  <2>1. CASE UseFree
    <3>1. PICK b \in Freeable : Free(b) /\ own' = Freed(b, own)
      BY <2>1 DEF UseFree, Freed
    <3>2. b \in Allocated
      BY <3>1 DEF Free
    <3>3. Result(b, {})
      BY <1>1, <3>1, <3>2, FreeOrder
    <3> HIDE DEF Result
    <3> QED
      BY <3>3
  <2>2. CASE UseRealloc
    <3>1. PICK b \in Freeable, new \in Blocks : Realloc(b, new) /\ own' = Freed(b, own) \cup {new}
      BY <2>2 DEF UseRealloc, Freed
    <3>2. b \in Allocated /\ new \in Blocks \ Allocated
      BY <3>1 DEF Realloc
    <3>3. Result(b, {new})
      BY <1>1, <3>1, <3>2, ReallocOrder
    <3> HIDE DEF Result
    <3> QED
      BY <3>3
  <2> QED
    BY <2>1, <2>2
<1>5. PICK add : Result(b, add)
  BY <1>4
<1>6. CASE "freeAny" \in suite.mayDo[frame]
  BY <1>2, <1>3, <1>5, <1>6 DEF PointsInv
<1>7. CASE "freeAny" \notin suite.mayDo[frame]
  <2>1. InList(blocks, checkPoint)
    BY <1>2, <1>7 DEF PointsInv
  <2>2. b \in Behind(blocks, checkPoint) /\ b # checkPoint
    BY <1>1, <1>7, <2>1, AfterIsBehind, BehindIsInList DEF Freeable, InList, Follows, Allocated
  <2>3. ASSUME frame = "test" PROVE testPoint # b /\ testPoint \notin add
    <3>1. testPoint \notin Behind(blocks, checkPoint)
      BY <1>2, <2>3 DEF PointsInv
    <3>2. testPoint # Null => testPoint = Root \/ testPoint \in Allocated
      BY <1>2, <2>3 DEF PointsInv, InList, Allocated
    <3>3. Null \notin Blocks /\ Root \notin Blocks
      BY RunnerAssumption, RootAssumption DEF CheckPoints
    <3>4. add \cap Allocated = {} /\ add \subseteq Blocks
      BY <1>5
    <3> QED
      BY <2>2, <3>1, <3>2, <3>3, <3>4
  <2> QED
    BY <1>2, <1>5, <2>1, <2>2, <2>3 DEF PointsInv, Freed
<1> QED
  BY <1>6, <1>7

LEMMA UserStepPoints ==
  ASSUME FreesOwn, TypeOK, FrameInv, PointsInv, UserStep
  PROVE  PointsInv'
<1>1. CASE UseMalloc
  BY <1>1, MallocPoints
<1>2. CASE UseFree \/ UseRealloc
  BY <1>2, FreePoints
<1>3. CASE OverrunBlock
  BY <1>3, FrameInFunction
  DEF OverrunBlock, Overrun, MakesCall, control, group, points, PointsInv, InFrame
<1>4. CASE ~(UseMalloc \/ UseFree \/ UseRealloc \/ OverrunBlock)
  <2>1. pc = "body" /\ UNCHANGED <<frame, suite, points, heap, own>>
    BY <1>4 DEF UserStep, ReturnFromBody, UseMock, UseOrderedCall, Fail, Skip, Stop,
                ExpectAssertFailure, AssertMissing, MockAssert, MakesCall, control, group
  <2> QED
    BY <2>1, PointsStay, FrameInFunction DEF InFrame
<1> QED
  BY <1>1, <1>2, <1>3, <1>4

LEMMA LeakCheckPoints ==
  ASSUME FreesOwn, TypeOK, FrameInv, PointsInv, LeakCheck
  PROVE  PointsInv'
<1>1. HeapTypeOK /\ Distinct(blocks) /\ suite.mayDo \in Scripts
  BY DEF TypeOK, PointsInv, Suites
<1>2. /\ pc = "checks" /\ pc' \in {"leftovers", "jumped", "aborted", "exited"}
      /\ UNCHANGED <<frame, suite, checkPoint, testPoint, own>>
      /\ InFunction
  BY FrameInFunction DEF LeakCheck, ExitTest, group, points, InFrame
<1>3. CASE UNCHANGED heap
  BY <1>2, <1>3, PointsStay DEF LeakCheck
<1>4. CASE Follows(checkPoint) /\ FreeAllocatedBlocks(checkPoint)
                /\ frame \notin {"groupSetup", "setup"}
  <2>1. /\ Distinct(blocks')
        /\ \A p : InList(blocks, p) /\ p \notin Behind(blocks, checkPoint) => InList(blocks', p)
    BY <1>1, <1>4, FreeAllocatedBlocksOrder
  <2>2. checkPoint \notin Behind(blocks, checkPoint)
    BY <1>1, BehindIsInList
  <2> QED
    BY <1>2, <1>4, <2>1, <2>2 DEF PointsInv, Follows, InList, Allocated
<1>5. ASSUME ~Follows(checkPoint), frame \notin {"groupSetup", "setup"},
             NEW first \in DOMAIN blocks, FreeFrom(first)
      PROVE  PointsInv'
  <2>1. frame # "test" /\ "freeAny" \in suite.mayDo[frame]
    BY <1>1, <1>2, <1>5 DEF FreesOwn, PointsInv, Follows, InList, Allocated
  <2>2. first \in 1 .. Len(blocks) + 1
    BY LenProperties DEF TypeOK, HeapTypeOK
  <2>3. Distinct(blocks')
    BY <1>1, <1>5, <2>2, FreeFromOrder
  <2> QED
    BY <1>2, <1>5, <2>1, <2>3 DEF PointsInv
<1> QED
  BY <1>3, <1>4, <1>5 DEF LeakCheck

LEMMA FrameStepPoints ==
  ASSUME FreesOwn, TypeOK, FrameInv, PointsInv, FrameStep
  PROVE  PointsInv'
<1>1. CASE LeakCheck
  BY <1>1, LeakCheckPoints
<1>2. CASE FailIfLeftoverValues \/ Landed \/ Leave
  <2>1. /\ InFunction /\ pc' \notin {"body", "checks"}
        /\ UNCHANGED <<frame, suite, points, heap, own>>
    BY <1>2, FrameInFunction
    DEF FailIfLeftoverValues, Landed, Leave, ExitTest, group, InFrame
  <2> QED
    BY <2>1, PointsStay
<1> QED
  BY <1>1, <1>2 DEF FrameStep

\* A frame starts with a check point in the list.
LEMMA EnterPoints ==
  ASSUME HeapTypeOK, Distinct(blocks), NEW kind, NEW point, Enter(kind, point),
         point # Null => InList(blocks, point),
         kind = "setup" => point # Null /\ testPoint' = point,
         kind = "test" => point = Null /\ (testPoint' # Null => InList(blocks, testPoint'))
  PROVE  PointsInv'
<1>1. /\ frame' = kind /\ blocks' = blocks /\ own' = {}
      /\ checkPoint' = IF point = Null THEN CheckPoint ELSE point
  BY DEF Enter, heap, FrameCheckPoint
<1>2. InList(blocks, CheckPoint) /\ Behind(blocks, CheckPoint) = {}
  BY CheckPointOrder
<1> QED
  BY <1>1, <1>2 DEF PointsInv

LEMMA GotoPoints ==
  ASSUME FrameInv, PointsInv, NEW place \in {"next", "wrapUp", "finish", "returned"},
         pc \in {"group", "return", "next", "wrapUp", "returned"}, Goto(place)
  PROVE  PointsInv'
BY DEF FrameInv, FrameDiscipline, Lost, PointsInv, Goto, heap, InFunction

LEMMA GroupStepPoints ==
  ASSUME FreesOwn, TypeOK, FrameInv, GroupsStartEmpty, PointsInv, GroupStep
  PROVE  PointsInv'
<1>1. HeapTypeOK /\ Distinct(blocks) /\ CheckPoint \in CheckPoints /\ Null \notin CheckPoints
  BY HelperTypes, RunnerAssumption DEF TypeOK, PointsInv
<1>2. InList(blocks, CheckPoint)
  BY <1>1, CheckPointOrder
<1>3. CASE BeginGroup \/ OutOfMemory
  BY <1>1, <1>2, <1>3, EnterPoints, GotoPoints DEF BeginGroup, OutOfMemory, StartGroup
<1>4. CASE AfterGroupSetup \/ AfterTeardown \/ AfterGroupTeardown
  BY <1>4, GotoPoints
  DEF AfterGroupSetup, AfterTeardown, AfterGroupTeardown, Account, Returned
<1>5. CASE StartTest
  <2>1. CASE current' \in suite.setup
    <3>1. testPoint' = CheckPoint /\ Enter("setup", CheckPoint)
      BY <1>5, <2>1 DEF StartTest, Enter, FrameCheckPoint
    <3> QED
      BY <1>1, <1>2, <3>1, EnterPoints
  <2>2. CASE current' \notin suite.setup
    <3>1. testPoint' = Null /\ Enter("test", Null)
      BY <1>5, <2>2 DEF StartTest
    <3> QED
      BY <1>1, <3>1, EnterPoints
  <2> QED
    BY <2>1, <2>2
<1>6. CASE AfterSetup
  <2>1. CASE rc = 0
    <3>1. Enter("test", Null) /\ testPoint' = testPoint
      BY <1>6, <2>1 DEF AfterSetup
    <3>2. "freeAny" \notin suite.mayDo["setup"]
      BY DEF FreesOwn, TypeOK, Suites
    <3>3. InList(blocks, testPoint)
      BY <1>6, <3>2 DEF AfterSetup, Returned, PointsInv, InFunction
    <3> QED
      BY <1>1, <3>1, <3>3, EnterPoints
  <2>2. CASE rc # 0
    BY <1>6, <2>2, GotoPoints DEF AfterSetup, Account, Returned
  <2> QED
    BY <2>1, <2>2
<1>7. CASE AfterTest
  <2>1. testPoint # Null => InList(blocks, testPoint)
    BY <1>7 DEF AfterTest, Returned, PointsInv, InFunction
  <2>2. CASE RunsTeardown
    <3>1. Enter("teardown", testPoint)
      BY <1>7, <2>2 DEF AfterTest
    <3>2. PICK point : point = testPoint
      OBVIOUS
    <3>3. Enter("teardown", point)
      BY <3>1, <3>2
    <3> QED
      BY <1>1, <2>1, <3>2, <3>3, EnterPoints
  <2>3. CASE ~RunsTeardown
    BY <1>7, <2>3, GotoPoints DEF AfterTest, Account, Returned
  <2> QED
    BY <2>2, <2>3
<1>8. CASE WrapUp
  BY <1>1, <1>8, EnterPoints, GotoPoints DEF WrapUp, GroupsStartEmpty, InList
<1>9. CASE Finish
  <2>1. ~running' /\ pc' \in {"returned", "aborted", "exited"} /\ UNCHANGED <<frame, suite>>
    BY <1>9 DEF Finish, ExitTest, FrameInv, FrameDiscipline, Lost, group, flags
  <2>2. Distinct(blocks')
    BY <1>1, <1>9, FreeAllocatedBlocksOrder DEF Finish, heap
  <2> QED
    BY <2>1, <2>2 DEF PointsInv, InFunction, InFrame
<1> QED
  BY <1>3, <1>4, <1>5, <1>6, <1>7, <1>8, <1>9 DEF GroupStep

LEMMA PointsInvHolds ==
  ASSUME FreesOwn
  PROVE  Spec => []PointsInv
<1>1. Init => PointsInv
  BY DEF Init, InitHeap, PointsInv, Distinct, InFunction
<1>2. TypeOK /\ FrameInv /\ GroupsStartEmpty /\ PointsInv /\ [Next]_vars => PointsInv'
  <2> SUFFICES ASSUME TypeOK, FrameInv, GroupsStartEmpty, PointsInv, [Next]_vars
               PROVE  PointsInv'
    OBVIOUS
  <2>1. CASE Next
    BY <2>1, UserStepPoints, FrameStepPoints, GroupStepPoints DEF Next
  <2>2. CASE UNCHANGED vars
    BY <2>2, PointsStay DEF vars, group, flags, InFunction
  <2> QED
    BY <2>1, <2>2
<1> QED
  BY <1>1, <1>2, TypeCorrect, FrameInvHolds, GroupsStartEmptyHolds, PTL DEF Spec

\* The check points that are still to be used point to nodes of the list, as long as setups
\* and tests free only what was allocated in them (check_point_allocated_blocks).
THEOREM CheckPointsFollowHolds ==
  ASSUME FreesOwn
  PROVE  Spec => []CheckPointsFollow
<1>1. TypeOK /\ GroupsStartEmpty /\ PointsInv => CheckPointsFollow
  <2>1. \A p : Follows(p) <=> InList(blocks, p)
    BY DEF Follows, InList, Allocated
  <2>2. ASSUME PointsInv, running, "freeAny" \notin suite.mayDo[frame]
        PROVE  InList(blocks, checkPoint)
    BY <2>2 DEF PointsInv, InFunction
  <2>3. ASSUME TypeOK, PointsInv, running, frame \in {"setup", "test"}, testPoint # Null
        PROVE  InList(blocks, testPoint)
    <3>1. "freeAny" \notin suite.mayDo["setup"]
      BY <2>3 DEF FreesOwn, TypeOK, Suites
    <3> QED
      BY <2>3, <3>1 DEF PointsInv, InFunction
  <2> QED
    BY <2>1, <2>2, <2>3 DEF CheckPointsFollow
<1> QED
  BY <1>1, TypeCorrect, PointsInvHolds, GroupsStartEmptyHolds, PTL

LEMMA EnterLeak == \A kind, point : Enter(kind, point) => LeakInv'
BY DEF Enter, LeakInv

\* Only a function that may allocate or reallocate comes to blocks of its own.
LEMMA CallLeak ==
  ASSUME StopsWithoutBlocks, TypeOK, FrameInv, LeakInv, UserStep
  PROVE  LeakInv'
<1>1. suite.mayDo \in Scripts
  BY DEF TypeOK, Suites
<1>2. pc = "body" /\ InFunction /\ ~stopTest /\ UNCHANGED <<frame, suite>>
  BY FrameInFunction
  DEF UserStep, ReturnFromBody, UseMock, UseOrderedCall, UseMalloc, UseFree, UseRealloc,
      OverrunBlock, Fail, Skip, Stop, ExpectAssertFailure, AssertMissing, MockAssert,
      MakesCall, control, group, FrameInv, FrameDiscipline, InFrame, Lost
<1>3. pc' \in {"body", "checks", "jumped", "aborted", "exited", "undefined"}
  BY <1>2
  DEF UserStep, ReturnFromBody, UseMock, UseOrderedCall, UseMalloc, UseFree, UseRealloc,
      OverrunBlock, Fail, Skip, Stop, ExpectAssertFailure, AssertMissing, MockAssert,
      MakesCall, Finishes, ExitTest
<1>4. frame = "test" /\ own' # {} => "stop" \notin suite.mayDo[frame]
  <2>1. CASE UseMalloc \/ UseRealloc
    BY <1>1, <2>1 DEF UseMalloc, UseRealloc, MakesCall, StopsWithoutBlocks
  <2>2. CASE ~(UseMalloc \/ UseRealloc)
    <3>1. own' \subseteq own
      BY <2>2
      DEF UserStep, ReturnFromBody, UseMock, UseOrderedCall, UseFree, OverrunBlock, Fail, Skip,
          Stop, ExpectAssertFailure, AssertMissing, MockAssert
    <3> QED
      BY <1>2, <3>1 DEF LeakInv
  <2> QED
    BY <2>1, <2>2
<1>5. "stop" \notin suite.mayDo[frame] => ~stopTest'
  BY <1>2
  DEF UserStep, ReturnFromBody, UseMock, UseOrderedCall, UseMalloc, UseFree, UseRealloc,
      OverrunBlock, Fail, Skip, Stop, ExpectAssertFailure, AssertMissing, MockAssert,
      MakesCall, flags
<1> QED
  BY <1>2, <1>3, <1>4, <1>5 DEF LeakInv

\* A test with blocks of its own does not pass the leak check.
LEMMA FrameStepLeak ==
  ASSUME FreesOwn, TypeOK, FrameInv, PointsInv, LeakInv, FrameStep
  PROVE  LeakInv'
<1>1. /\ InFunction
      /\ UNCHANGED <<frame, suite, own>>
      /\ "freeAny" \notin suite.mayDo["test"]
  BY FrameInFunction
  DEF FrameStep, LeakCheck, FailIfLeftoverValues, Landed, Leave, group, InFrame,
      FreesOwn, TypeOK, Suites
<1> SUFFICES ASSUME frame = "test", own # {}
             PROVE  LeakInv'
  BY <1>1 DEF LeakInv
<1>2. CASE LeakCheck
  <2>1. ~stopTest' /\ pc' \in {"leftovers", "jumped", "aborted", "exited"}
    BY <1>2 DEF LeakCheck, ExitTest, flags, FrameInv, FrameDiscipline, Lost
  <2>2. own \subseteq Behind(blocks, checkPoint) /\ InList(blocks, checkPoint)
    BY <1>1, <1>2 DEF LeakCheck, PointsInv
  <2>3. Follows(checkPoint) /\ BlocksAfter(checkPoint) # {}
    BY <2>2, AfterIsBehind DEF PointsInv, TypeOK, Follows, InList, Allocated
  <2>4. pc' # "leftovers"
    BY <1>2, <2>3 DEF LeakCheck, ExitTest
  <2> QED
    BY <1>1, <2>1, <2>4 DEF LeakInv
<1>3. CASE Landed
  BY <1>1, <1>3 DEF Landed, ReturnOfJump, LeakInv
<1>4. CASE Leave
  BY <1>1, <1>4 DEF Leave, LeakInv
<1>5. ~FailIfLeftoverValues
  BY DEF FailIfLeftoverValues, LeakInv
<1> QED
  BY <1>2, <1>3, <1>4, <1>5 DEF FrameStep

LEMMA GroupStepLeak ==
  ASSUME FrameInv, LeakInv, GroupStep
  PROVE  LeakInv'
<1>1. CASE \E kind, point : Enter(kind, point)
  BY <1>1, EnterLeak
<1>2. CASE \E place \in {"next", "wrapUp", "finish", "returned"} :
             Goto(place) /\ ~running
  BY <1>2 DEF Goto, LeakInv, InFunction
<1>3. CASE Finish
  BY <1>3 DEF Finish, ExitTest, LeakInv, InFunction, FrameInv, FrameDiscipline, Lost, flags
<1>4. ~running
  BY DEF GroupStep, BeginGroup, OutOfMemory, StartGroup, AfterGroupSetup, StartTest, AfterSetup,
         AfterTest, AfterTeardown, WrapUp, AfterGroupTeardown, Finish, Returned, FrameInv,
         FrameDiscipline, Lost
<1>5. \/ \E kind, point : Enter(kind, point)
      \/ \E place \in {"next", "wrapUp", "finish", "returned"} : Goto(place)
      \/ Finish
  BY DEF GroupStep, BeginGroup, OutOfMemory, AfterGroupSetup, StartTest, AfterSetup, AfterTest,
         AfterTeardown, WrapUp, AfterGroupTeardown, Account
<1> QED
  BY <1>1, <1>2, <1>3, <1>4, <1>5

LEMMA LeakInvHolds ==
  ASSUME FreesOwn, StopsWithoutBlocks
  PROVE  Spec => []LeakInv
<1>1. Init => LeakInv
  BY DEF Init, LeakInv
<1>2. TypeOK /\ FrameInv /\ PointsInv /\ LeakInv /\ [Next]_vars => LeakInv'
  <2> SUFFICES ASSUME TypeOK, FrameInv, PointsInv, LeakInv, [Next]_vars
               PROVE  LeakInv'
    OBVIOUS
  <2>1. CASE Next
    BY <2>1, CallLeak, FrameStepLeak, GroupStepLeak DEF Next
  <2>2. CASE UNCHANGED vars
    BY <2>2 DEF vars, group, flags, InFunction, LeakInv
  <2> QED
    BY <2>1, <2>2
<1> QED
  BY <1>1, <1>2, TypeCorrect, FrameInvHolds, PointsInvHolds, PTL DEF Spec

\* A test that leaves blocks allocated fails, as long as setups and tests free only what
\* was allocated in them and tests that call stop() allocate nothing
\* (fail_if_blocks_allocated).
THEOREM LeaksAreFailuresHolds ==
  ASSUME FreesOwn, StopsWithoutBlocks
  PROVE  Spec => []LeaksAreFailures
<1>1. LeakInv => LeaksAreFailures
  BY DEF LeakInv, LeaksAreFailures, Returned
<1> QED
  BY <1>1, LeakInvHolds, PTL
=============================================================================
