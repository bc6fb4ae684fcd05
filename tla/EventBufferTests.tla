-------------------------- MODULE EventBufferTests --------------------------
(* UnitTest_trcEventBuffer: a ring of events, which overwrites its oldest     *)
(* events or skips new ones when it is full (trcEventBuffer.h, external).     *)
EXTENDS TestScript

RingSize == 116     \* sizeof(pvEvtBufferBuffer)
Event1   == 16      \* sizeof(EventWithParam_1), in a build for 64 bits
Event2   == 24      \* sizeof(EventWithParam_2)
NoLimit  == 1000    \* 0xFFFFFFFF

EventBufferGlobals == [ring |-> [head |-> 0, tail |-> 0, next |-> 0, events |-> <<>>,
                                 option |-> Null],
                       max_transfer |-> NoLimit,
                       written |-> 0]    \* iBytesWritten of a transfer
-----------------------------------------------------------------------------
(* The ring: a transfer moves bytes, an event leaves as a whole.              *)

Used(ring) == (ring.head - ring.tail + RingSize) % RingSize

Fits(ring, size) == size < RingSize - Used(ring)

DropOldest(ring) ==
  [ring EXCEPT !.tail = IF Len(ring.events) = 1 THEN ring.head ELSE ring.events[2].at,
               !.events = Tail(@)]

\* The oldest event goes when size bytes do not fit; in a test all events have one size.
MakeRoom(ring, size) == IF Fits(ring, size) THEN ring ELSE DropOldest(ring)

Insert(ring, event) ==
  [ring EXCEPT !.head = (@ + event.size) % RingSize, !.events = Append(@, event @@ [at |-> ring.head])]

Written(ring, event) ==
  IF ring.option = "SKIP" /\ ~Fits(ring, event.size) THEN 0 ELSE event.size

Pushed(ring, event) ==
  IF Written(ring, event) = 0 THEN ring ELSE Insert(MakeRoom(ring, event.size), event)

\* An entry is allocated in one piece, at the start of the ring when the end is too
\* near; the events it would reach are dropped, two of them at the start.
Reserved(ring) ==
  LET wraps == ring.head + Event1 > RingSize
      at    == IF wraps THEN 0 ELSE ring.head
      kept  == IF wraps THEN DropOldest(DropOldest(ring)) ELSE MakeRoom(ring, Event1)
  IN [kept EXCEPT !.head = at, !.next = at + Event1]

Chunk(ring, max) ==
  LET end == IF ring.tail > ring.head THEN RingSize ELSE ring.head IN
  IF end - ring.tail < max THEN end - ring.tail ELSE max

Taken(ring, n) == [ring EXCEPT !.tail = (@ + n) % RingSize]

\* At most max bytes in one write, and a second write when the first one reached the
\* end of the ring.
AllOf(ring, max) ==
  LET first == Chunk(ring, max) IN
  IF ring.tail > ring.head /\ first = RingSize - ring.tail
  THEN first + Chunk(Taken(ring, first), max) ELSE first

EventBufferOutcome(step, s) ==
  LET a == step.args  r == s.ring  set(ring) == [s EXCEPT !.ring = ring] IN
  CASE step.call = "Initialize" ->
         Succeeds(set([EventBufferGlobals.ring EXCEPT !.option = a[1]]))
    [] step.call = "Alloc"       -> If(a[1] <= RingSize, set(Reserved(r)), s)
    [] step.call = "AllocCommit" ->
         Succeeds(set(Insert(r, [id |-> 0, size |-> Event1])))
    [] step.call = "Push" ->
         IF a[2] > RingSize THEN Refuses(s)
         ELSE LET event == [id |-> a[1], size |-> a[2]] IN
              Returns(Written(r, event), set(Pushed(r, event)))
    [] step.call = "TransferChunk" ->
         LET n == Chunk(r, a[1]) IN Returns(n, set(Taken(r, n)))
    [] step.call = "TransferAll" ->
         LET n == AllOf(r, s.max_transfer) IN Returns(n, [set(Taken(r, n)) EXCEPT !.written = n])
    [] step.call = "Clear"  -> Succeeds(set([r EXCEPT !.head = 0, !.tail = 0, !.events = <<>>]))
    [] step.call = "head"   -> Returns(r.head, s)
    [] step.call = "tail"   -> Returns(r.tail, s)
    [] step.call = "next"   -> Returns(r.next, s)
    [] step.call = "free"   -> Returns(RingSize - Used(r), s)
    [] step.call = "option" -> Returns(r.option, s)
    [] step.call = "empty"  -> Returns(r.head = r.tail, s)
    [] step.call = "unused" -> Returns(Used(r) = 0, s)
    [] step.call = "wrapped" -> Returns(r.head < r.tail, s)
    [] step.call = "at start" -> Returns(r[a[1]] = 0, s)
    [] step.call = "limited" -> Returns(s.written = s.max_transfer, s)
    \* The test reads the event at the tail and moves the tail past it.
    [] step.call = "next event" ->
         IF r.events = <<>> THEN Refuses(s) ELSE Returns(Head(r.events).id, set(DropOldest(r)))
-----------------------------------------------------------------------------
(* Setup and teardown                                                         *)

group_setup_EventBuffer == <<>>
group_teardown_EventBuffer == <<>>

setup_freeEventBuffer == <<Ok("Initialize", <<"OVERWRITE">>)>>
setup_skipEventBuffer == <<Ok("Initialize", <<"SKIP">>)>>

-----------------------------------------------------------------------------
(* Tests                                                                      *)

test_xTraceEventBufferInitialize ==
  NullTests("Initialize", 2) \o <<Ok("Initialize", <<"NONE">>)>>

\* Events pushed until the ring is full, with their ids.
Pushes(n, first, size) == [i \in 1 .. n |-> Gives("Push", <<first + i - 1, size>>, size)]

Skipped(n, id, size) == [i \in 1 .. n |-> Gives("Push", <<id, size>>, 0)]

FillsRing == (RingSize - 4) \div Event1

HasLeft(end) == <<[Glance("at start", FALSE) EXCEPT !.args = <<end>>]>>

Allocates(head) ==
  <<Ok("Alloc", <<Event1>>), See("next", head + Event1), Ok("AllocCommit", <<>>),
    See("head", head + Event1), Glance("empty", FALSE)>>

test_xTraceEventBufferAllocOverwrite ==
  NullTests("Alloc", 2) \o <<Fails("Alloc", <<RingSize * 2>>)>>
    \o Repeat(RingSize \div Event1, LAMBDA i : Allocates((i - 1) * Event1))
    \o <<Ok("Alloc", <<Event1>>), See("head", 0), Glance("empty", FALSE),
         See("next", Event1), Ok("AllocCommit", <<>>), See("head", Event1),
         Glance("empty", FALSE)>>
    \o Repeat(RingSize \div Event1 - 1, LAMBDA i : Allocates(i * Event1))

\* Pushes that are refused move neither end of the ring.
RefusedPushes(option) ==
  NullTests("Push", 2) \o <<Fails("Push", <<0, NoLimit>>)>> \o NullTest("Push")
    \o <<See("head", 0), See("tail", 0), See("free", RingSize),
         See("option", option)>>

InRing(first, last) == [i \in 1 .. last - first + 1 |-> See("next event", first + i - 1)]

test_xTraceEventBufferFreePush ==
  LET n == RingSize \div Event1 IN
  RefusedPushes("OVERWRITE") \o Pushes(2 * n, 0, Event1) \o InRing(n, 2 * n - 1)

test_xTraceEventBufferSkipPush ==
  LET n == (RingSize - 4) \div Event2
      fillsAndFlushes == Pushes(n, 0, Event2) \o <<Glance("empty", FALSE)>>
                           \o Skipped(RingSize \div Event2, n - 1, Event2) \o InRing(0, n - 1)
  IN RefusedPushes("SKIP") \o fillsAndFlushes \o <<See("empty", TRUE)>> \o fillsAndFlushes

FilledRing ==
  Pushes(FillsRing, 4012, Event1)
    \o <<See("tail", 0)>> \o HasLeft("head") \o <<Glance("empty", FALSE)>>

test_xTraceEventBufferTransferChunk ==
  NullTests("TransferChunk", 2) \o FilledRing
    \o Repeat(3, LAMBDA i : <<Ok("TransferChunk", <<32>>)>>) \o <<See("tail", 96)>>
    \o Pushes(96 \div Event1, 4012, Event1)
    \o <<Gives("TransferChunk", <<32>>, RingSize - 96), See("tail", 0),
         Gives("TransferChunk", <<32>>, 32), Gives("TransferChunk", <<32>>, 32),
         Gives("TransferChunk", <<32>>, 28), Gives("TransferChunk", <<32>>, 0)>>

TransferTest == NullTests("TransferAll", 2) \o FilledRing

TransferredAll ==
  <<Set("max_transfer", NoLimit), Gives("TransferAll", <<>>, FillsRing * Event1),
    See("empty", TRUE)>>

test_xTraceEventBufferTransferAll_Normal == TransferTest \o TransferredAll

test_xTraceEventBufferTransferAll_Partial ==
  TransferTest
    \o <<Set("max_transfer", 50),
         Gives("TransferAll", <<>>, 50), Glance("empty", FALSE), See("tail", 50),
         Set("written", 0), Gives("TransferAll", <<>>, 50), Glance("empty", FALSE), See("tail", 100),
         Set("written", 0), Ok("TransferAll", <<>>), Glance("empty", TRUE),
         Glance("limited", FALSE)>>

test_xTraceEventBufferTransferAll_NormalWrapping ==
  TransferTest \o TransferredAll
    \o Pushes(1, 4012, Event1)
    \o <<Glance("wrapped", TRUE), Gives("TransferAll", <<>>, Event1),
         See("empty", TRUE)>>

test_xTraceEventBufferTransferAll_PartialWrapping ==
  TransferTest
    \o <<Set("max_transfer", 50), Gives("TransferAll", <<>>, 50), Glance("empty", FALSE),
         See("tail", 50)>>
    \o Pushes(1, 4012, Event1)
    \o <<Glance("wrapped", TRUE),
         Set("max_transfer", 50), Ok("TransferAll", <<>>), Glance("wrapped", TRUE),
         See("tail", 100),
         Set("max_transfer", 50), Ok("TransferAll", <<>>), See("empty", TRUE)>>

test_xTraceEventBufferClear ==
  NullTest("Clear") \o Pushes(RingSize \div Event1 + 1, 4012, Event1)
    \o HasLeft("tail") \o HasLeft("head")
    \o <<Glance("empty", FALSE), Glance("unused", FALSE), Ok("Clear", <<>>),
         See("head", 0), See("tail", 0), See("free", RingSize)>>

runEventBufferTests ==
  LET free(name, body) == Test(name, setup_freeEventBuffer, body, <<>>)
      skip(name, body) == Test(name, setup_skipEventBuffer, body, <<>>)
  IN <<Test("Initialize", <<>>, test_xTraceEventBufferInitialize, <<>>),
       free("AllocOverwrite", test_xTraceEventBufferAllocOverwrite),
       free("FreePush", test_xTraceEventBufferFreePush),
       skip("SkipPush", test_xTraceEventBufferSkipPush),
       skip("TransferChunk", test_xTraceEventBufferTransferChunk),
       skip("TransferAll_Normal", test_xTraceEventBufferTransferAll_Normal),
       skip("TransferAll_Partial", test_xTraceEventBufferTransferAll_Partial),
       skip("TransferAll_NormalWrapping", test_xTraceEventBufferTransferAll_NormalWrapping),
       skip("TransferAll_PartialWrapping", test_xTraceEventBufferTransferAll_PartialWrapping),
       free("Clear", test_xTraceEventBufferClear)>>
=============================================================================
