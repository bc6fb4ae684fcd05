--------------------------- MODULE TestAllocator ---------------------------
(***************************************************************************)
(* The checking heap of cmocka.c: _test_malloc, _test_calloc,              *)
(* _test_realloc, _test_free, and the check points by which the runner     *)
(* finds blocks that a test forgot.                                        *)
(*                                                                         *)
(* A block is its address.  The list of allocated blocks is threaded       *)
(* through the blocks themselves, and a check point is the address of the  *)
(* list's last node when it was taken: Root when there was no block.  An   *)
(* address can be allocated again once it was freed.                       *)
(***************************************************************************)
EXTENDS Naturals, Sequences, SequencesExt

CONSTANTS Blocks,     (* addresses the C library hands out                  *)
          Root        (* the node that heads the list                       *)

ASSUME RootAssumption == Root \notin Blocks

VARIABLES blocks,     (* global_allocated_blocks, oldest first              *)
          corrupt     (* blocks with an overwritten guard                   *)

heap == <<blocks, corrupt>>
-----------------------------------------------------------------------------
Allocated == ToSet(blocks)

CheckPoints == Blocks \cup {Root}

HeapTypeOK ==
  /\ blocks \in Seq(Blocks)
  /\ corrupt \subseteq Blocks

InitHeap ==
  /\ blocks = <<>>
  /\ corrupt = {}

Place(b) == CHOOSE i \in DOMAIN blocks : blocks[i] = b

Unlink(b) == RemoveAt(blocks, Place(b))
-----------------------------------------------------------------------------
\* The guards are written anew whenever a block is handed out.
Malloc(b) ==
  /\ b \in Blocks \ Allocated
  /\ blocks' = Append(blocks, b)
  /\ corrupt' = corrupt \ {b}

\* The guards are checked before the block leaves the list.
FreeFails(b) == b \in corrupt

Free(b) ==
  /\ b \in Allocated
  /\ blocks' = IF FreeFails(b) THEN blocks ELSE Unlink(b)
  /\ UNCHANGED corrupt

\* The new block joins the list before the old one is freed, which fails when
\* the old guards are corrupt.
Realloc(b, new) ==
  /\ b \in Allocated
  /\ new \in Blocks \ Allocated
  /\ blocks' = Append(IF FreeFails(b) THEN blocks ELSE Unlink(b), new)
  /\ corrupt' = corrupt \ {new}

\* The code under test writes past the end of a block.
Overrun(b) ==
  /\ b \in Allocated
  /\ corrupt' = corrupt \cup {b}
  /\ UNCHANGED blocks
-----------------------------------------------------------------------------
CheckPoint == IF blocks = <<>> THEN Root ELSE Last(blocks)

\* Only while its node is in the list can a check point be followed.
Follows(checkPoint) == checkPoint = Root \/ checkPoint \in Allocated

\* (mutant of FirstAfter: the first block after the check point is missed)
FirstAfterButOne(checkPoint) == IF checkPoint = Root THEN 1 ELSE Place(checkPoint) + 2

FirstAfter(checkPoint) == IF checkPoint = Root THEN 1 ELSE Place(checkPoint) + 1

BlocksAfter(checkPoint) ==
  {blocks[i] : i \in FirstAfter(checkPoint) .. Len(blocks)}

\* free_allocated_blocks calls _test_free on one block after the other, which
\* never returns from the first corrupt one.
Unfreed(first) ==
  LET stop == {i \in first .. Len(blocks) : FreeFails(blocks[i])}
  IN  IF stop = {} THEN <<>>
      ELSE SubSeq(blocks, CHOOSE i \in stop : \A j \in stop : i <= j, Len(blocks))

FreeFrom(first) ==
  /\ blocks' = SubSeq(blocks, 1, first - 1) \o Unfreed(first)
  /\ UNCHANGED corrupt

\* (mutant of FreeAllocatedBlocks: the block of the check point goes as well)
FreeFromCheckPoint(checkPoint) ==
  FreeFrom(IF checkPoint = Root THEN 1 ELSE Place(checkPoint))

FreeAllocatedBlocks(checkPoint) == FreeFrom(FirstAfter(checkPoint))
=============================================================================
