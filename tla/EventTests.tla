----------------------------- MODULE EventTests -----------------------------
(* UnitTest_trcEvent: events with up to six values and data, written to the   *)
(* buffer of the stream port, MOCK_streamPortBuffer (trcEvent.h, external).   *)
EXTENDS TestScript

Base == 8                 \* sizeof(BaseEvent)
Word == 8                 \* sizeof(TraceUnsignedBaseType_t), in a build for 64 bits
TRC_MAX_BLOB_SIZE == 16 * Word

\* written is the event in MOCK_streamPortBuffer: its code, number, timestamp, values
\* and the number of bytes of its data that are there.
EventGlobals ==
  [timestamp |-> 0,       \* MOCK_uiTestTimestampCounter
   number    |-> 0,       \* events created so far
   written   |-> <<0, 0, 0, <<>>, 0>>,
   size      |-> 0]

WholeWords(bytes) == ((bytes + Word - 1) \div Word) * Word

\* The size of an event, which covers whole words of its data; it is cut at
\* TRC_MAX_BLOB_SIZE.
Size(values, bytes) ==
  LET size == Base + Len(values) * Word + WholeWords(bytes) IN
  IF size > TRC_MAX_BLOB_SIZE THEN TRC_MAX_BLOB_SIZE ELSE size

Room(values) == TRC_MAX_BLOB_SIZE - Base - Len(values) * Word

\* The bytes of data that are written.
Written(values, bytes) == IF bytes < Room(values) THEN bytes ELSE Room(values)

EventOutcome(step, s) ==
  LET a == step.args IN
  CASE step.call = "DiagnosticsInitialize" -> Succeeds(s)
    [] step.call = "EventInitialize" -> Succeeds([s EXCEPT !.number = 0])
    [] step.call = "EventCreate" ->
         Succeeds([s EXCEPT !.number = @ + 1, !.size = Size(a[2], a[3]),
                            !.written = <<a[1], s.number + 1, s.timestamp, a[2], Written(a[2], a[3])>>])
    [] step.call = "EventGetSize" -> Returns(s.size, s)
-----------------------------------------------------------------------------
group_setup_Event    == <<>>
group_teardown_Event == <<>>

setup_Event ==
  <<Ok("DiagnosticsInitialize", <<>>), Ok("EventInitialize", <<>>),
    Set("written", EventGlobals.written)>>

teardown_Event == <<>>

test_xTraceEventInitialize == NullTest("EventInitialize") \o <<Ok("EventInitialize", <<>>)>>

\* The tests make the critical sections balanced again, after their setup has asserted
\* that they are.
ResetsCriticalSections == <<Set("critical", 0), Set("critical_expected", 0)>>

\* The number-th event of a test: its values follow from its code, code + 1 and so on.
Values(code, n) == [i \in 1 .. n |-> code + i]

CreatesEvent(number, timestamp, code, n, bytes) ==
  <<Set("timestamp", timestamp), Ok("EventCreate", <<code, Values(code, n), bytes>>),
    Gives("EventGetSize", <<>>, Size(Values(code, n), bytes)),
    See("written", <<code, number, timestamp, Values(code, n), Written(Values(code, n), bytes)>>)>>

TestEventCreate(n, code) ==
  ResetsCriticalSections \o CreatesEvent(1, 12345678, code, n, 0)
    \o CreatesEvent(2, 87654321, code + 100, n, 0)

\* sizeof(aBuffer), sizeof(bBuffer) and a buffer that is larger than an event.
TestEventCreateData(n, code) ==
  ResetsCriticalSections \o CreatesEvent(1, 12345678, code, n, 11)
    \o CreatesEvent(2, 87654321, code + 100, n, 14)
    \o CreatesEvent(3, 12341234, code + 200, n, 2 * TRC_MAX_BLOB_SIZE)

test_xTraceEventCreate0 == TestEventCreate(0, 100)
test_xTraceEventCreate1 == TestEventCreate(1, 101)
test_xTraceEventCreate2 == TestEventCreate(2, 103)
test_xTraceEventCreate3 == TestEventCreate(3, 106)
test_xTraceEventCreate4 == TestEventCreate(4, 110)
test_xTraceEventCreate5 == TestEventCreate(5, 115)
test_xTraceEventCreate6 == TestEventCreate(6, 121)

test_xTraceEventCreateData0 == TestEventCreateData(0, 100)
test_xTraceEventCreateData1 == TestEventCreateData(1, 101)
test_xTraceEventCreateData2 == TestEventCreateData(2, 103)
test_xTraceEventCreateData3 == TestEventCreateData(3, 106)
test_xTraceEventCreateData4 == TestEventCreateData(4, 110)
test_xTraceEventCreateData5 == TestEventCreateData(5, 115)
test_xTraceEventCreateData6 == TestEventCreateData(6, 121)

\* An event with n values and words of data, and its size.
HasSize(n, bytes, words) ==
  <<Ok("EventCreate", <<1, Values(1, n), bytes>>),
    Gives("EventGetSize", <<>>, Base + (n + words) * Word)>>

\* The two global counters are not set together: refused calls come between.
test_xTraceEventGetSize ==
  LET data == <<2, Word, 2 * Word, 2 * Word, 1, Word, 2 * Word>>
      words == <<1, 1, 2, 2, 1, 1, 2>>
  IN <<Set("critical", 0)>> \o NullTests("EventGetSize", 2) \o <<Set("critical_expected", 0)>>
       \o Repeat(7, LAMBDA i : HasSize(i - 1, 0, 0))
       \o Repeat(7, LAMBDA i : HasSize(i - 1, data[i], words[i]))

runEventTests ==
  LET unit_test(name, body) == Test(name, setup_Event, body, teardown_Event) IN
  <<Test("Initialize", <<>>, test_xTraceEventInitialize, <<>>),
    unit_test("Create0", test_xTraceEventCreate0), unit_test("Create1", test_xTraceEventCreate1),
    unit_test("Create2", test_xTraceEventCreate2), unit_test("Create3", test_xTraceEventCreate3),
    unit_test("Create4", test_xTraceEventCreate4), unit_test("Create5", test_xTraceEventCreate5),
    unit_test("Create6", test_xTraceEventCreate6),
    unit_test("CreateData0", test_xTraceEventCreateData0), unit_test("CreateData1", test_xTraceEventCreateData1),
    unit_test("CreateData2", test_xTraceEventCreateData2), unit_test("CreateData3", test_xTraceEventCreateData3),
    unit_test("CreateData4", test_xTraceEventCreateData4), unit_test("CreateData5", test_xTraceEventCreateData5),
    unit_test("CreateData6", test_xTraceEventCreateData6), unit_test("GetSize", test_xTraceEventGetSize)>>
=============================================================================
