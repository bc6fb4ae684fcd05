------------------------------ MODULE HeapTests ------------------------------
(* UnitTest_trcHeap: what a heap of the application has in use                *)
(* (trcHeap.h, external).                                                     *)
EXTENDS EntryTable

\* A heap is an entry whose states are its current use, high water mark and maximum.
Current       == 0
HighWaterMark == 1
Most          == 2

HeapGlobals == EntryGlobals

\* The current use of a heap, and a high water mark that is no lower.
Uses(heap, use, s) ==
  LET entry == Of(heap, s)
      mark  == IF entry = {} THEN 0 ELSE s.entries[s.handles[heap]].states[HighWaterMark]
      t     == SetState(entry, Current, use, s).s
  IN If(entry # {}, IF use > mark THEN SetState(entry, HighWaterMark, use, t).s ELSE t, s)

\* Nothing is counted for the null address.
Counts(heap, address, size, s) ==
  IF address = 0 \/ Of(heap, s) = {} THEN If(Of(heap, s) # {}, s, s)
  ELSE Uses(heap, s.entries[s.handles[heap]].states[Current] + size, s)

HeapOutcome(step, s) ==
  LET a == step.args IN
  CASE step.call = "HeapCreate" ->
         LET new == Create("heap", LAMBDA slot : slot, s)
             set(i, t) == SetState(Of("heap", t), i, a[i + 1], t).s
         IN IF new.result[1] = "FAIL" THEN new
            ELSE Succeeds(set(Most, set(HighWaterMark, set(Current, new.s))))
    [] step.call = "HeapAlloc" -> Counts("heap", a[1], a[2], s)
    [] step.call = "HeapFree"  -> Counts("heap", a[1], -a[2], s)
    [] step.call = "HeapGet"   -> Look(Of("heap", s), s, LAMBDA e : e.states[a[1]])
    [] step.call = "HeapSet"   -> SetState(Of("heap", s), a[1], a[2], s)
    [] OTHER -> EntryOutcome(step, s)
-----------------------------------------------------------------------------
group_setup_Heap    == <<>>
group_teardown_Heap == <<>>

CreatesHeap(current, mark, most) == <<Ok("HeapCreate", <<current, mark, most>>)>>

setup_Heap == InitializesTables \o CreatesHeap(0, 0, 100)

\* The handle of the heap is 0 again.
teardown_Heap == <<Set("handles", <<>>)>>

Has(what, value)  == <<Gives("HeapGet", <<what>>, value)>>
SetTo(what, value) == <<Ok("HeapSet", <<what, value>>)>>
Allocs(address, size) == <<Ok("HeapAlloc", <<address, size>>)>>
Frees(address, size)  == <<Ok("HeapFree", <<address, size>>)>>

pvAddress == 12345678

\* A heap may be without a name.
test_xTraceHeapCreate ==
  CreatesHeap(0, 0, 0) \o NullTest("HeapCreate") \o CreatesHeap(10, 50, 90)
    \o Has(Current, 10) \o Has(HighWaterMark, 50) \o Has(Most, 90)

test_xTraceHeapAlloc ==
  NullTest("HeapAlloc")
    \o Allocs(pvAddress, 10) \o Has(Current, 10) \o Allocs(pvAddress, 10) \o Has(Current, 20)
    \o Allocs(0, 10) \o Has(Current, 20)

test_xTraceHeapFree ==
  NullTest("HeapFree") \o Allocs(pvAddress, 50)
    \o Frees(pvAddress, 10) \o Has(Current, 40) \o Frees(pvAddress, 10) \o Has(Current, 30)
    \o Frees(0, 10) \o Has(Current, 30) \o Frees(pvAddress, 30) \o Has(Current, 0)

GetsAndSetsNull == NullTests("HeapGet", 2) \o NullTest("HeapSet")

test_xTraceHeapGetSetCurrent ==
  GetsAndSetsNull \o Has(Current, 0) \o Allocs(pvAddress, 50) \o Has(Current, 50)
    \o SetTo(Current, 200) \o Has(Current, 200)

\* Neither an allocation that failed nor a block that is freed moves the mark.
test_xTraceHeapGetSetHighWaterMark ==
  GetsAndSetsNull \o Has(HighWaterMark, 0) \o Allocs(pvAddress, 50) \o Has(HighWaterMark, 50)
    \o Allocs(0, 50) \o Has(HighWaterMark, 50) \o Frees(pvAddress, 30) \o Has(HighWaterMark, 50)
    \o SetTo(HighWaterMark, 9000) \o Has(HighWaterMark, 9000)

test_xTraceHeapGetSetMax ==
  GetsAndSetsNull \o Has(Most, 100) \o SetTo(Most, 1234) \o Has(Most, 1234)

runHeapTests ==
  LET unit_test(name, body) == Test(name, setup_Heap, body, teardown_Heap) IN
  <<unit_test("Create", test_xTraceHeapCreate), unit_test("Alloc", test_xTraceHeapAlloc),
    unit_test("Free", test_xTraceHeapFree), unit_test("GetSetCurrent", test_xTraceHeapGetSetCurrent),
    unit_test("GetSetHighWaterMark", test_xTraceHeapGetSetHighWaterMark),
    unit_test("GetSetMax", test_xTraceHeapGetSetMax)>>
=============================================================================
