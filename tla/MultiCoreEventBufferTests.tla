---------------------- MODULE MultiCoreEventBufferTests ----------------------
(* UnitTest_trcMultiCoreEventBuffer: a ring of events for every core          *)
(* (trcMultiCoreEventBuffer.h, external).                                     *)
EXTENDS TestScript

Cores    == 2       \* TRC_CFG_CORE_COUNT
RingSize == 245     \* what a core has of pvMultiCoreEventBufferBuffer
Event    == 24      \* sizeof(EventWithParam_2), in a build for 64 bits
Capacity == RingSize \div Event

\* A ring of events of one size: those pushed and those dropped so far.
EmptyRings == [core \in 0 .. Cores - 1 |-> [pushed |-> 0, dropped |-> 0]]

\* core is MOCK_uiCurrentCore.
MultiCoreEventBufferGlobals == [core |-> 0, option |-> Null, rings |-> EmptyRings]

MultiCoreEventBufferOutcome(step, s) ==
  LET a == step.args
      ring == s.rings[s.core]
      full == ring.pushed - ring.dropped = Capacity
      set(r) == [s EXCEPT !.rings[s.core] = r]
      push == [ring EXCEPT !.pushed = @ + 1]
  IN CASE step.call = "Initialize" -> Succeeds([s EXCEPT !.option = a[1], !.rings = EmptyRings])
       [] step.call = "Push" ->
            CASE ~full -> Returns(Event, set(push))
              [] full /\ s.option = "OVERWRITE" -> Returns(Event, set([push EXCEPT !.dropped = @ + 1]))
              [] full /\ s.option = "SKIP"      -> Returns(0, s)
              [] OTHER -> Refuses(s)
       [] step.call = "Clear" -> Succeeds([s EXCEPT !.rings = EmptyRings])
       [] step.call = "head"  -> Returns((s.rings[a[1]].pushed * Event) % RingSize, s)
       [] step.call = "tail"  -> Returns((s.rings[a[1]].dropped * Event) % RingSize, s)
       [] step.call = "has moved" ->
            Returns(\A at \in {s.rings[a[1]].pushed, s.rings[a[1]].dropped} : (at * Event) % RingSize # 0, s)
       [] step.call = "empty" -> Returns(s.rings[a[1]].pushed = s.rings[a[1]].dropped, s)
-----------------------------------------------------------------------------
group_setup_MultiCoreEventBuffer    == <<>>
group_teardown_MultiCoreEventBuffer == <<>>

setup_freeMultiCoreEventBuffer == <<Ok("Initialize", <<"OVERWRITE">>)>>
setup_skipMultiCoreEventBuffer == <<Ok("Initialize", <<"SKIP">>)>>

teardown_MultiCoreEventBuffer == <<>>

test_xTraceMultiCoreEventBufferInitialize ==
  NullTests("Initialize", 3) \o <<Ok("Initialize", <<Null>>)>>

EachCore(F(_)) == Repeat(Cores, LAMBDA i : F(i - 1))

OnEachCore(F(_)) == EachCore(LAMBDA core : <<Set("core", core)>> \o F(core))

Is(what, core, value)    == <<[See(what, value) EXCEPT !.args = <<core>>]>>
IsNot(what, core, value) == <<[Glance(what, ~value) EXCEPT !.args = <<core>>]>>

IsAtStart(core) == Is("head", core, 0) \o Is("tail", core, 0)

Pushes(n, written) == Repeat(n, LAMBDA i : <<Gives("Push", <<>>, written)>>)

\* Pushes that are refused do not move anything; then the rings go round twice, and are
\* cleared together.
test_xTraceMultiCoreEventBufferFreePush ==
  OnEachCore(LAMBDA core : NullTests("Push", 4) \o IsAtStart(core))
    \o OnEachCore(LAMBDA core : Pushes(2 * Capacity + 1, Event))
    \o EachCore(LAMBDA core : IsNot("empty", core, TRUE) \o IsNot("has moved", core, FALSE))
    \o NullTest("Clear") \o <<Ok("Clear", <<>>)>>
    \o EachCore(LAMBDA core : Is("empty", core, TRUE) \o IsAtStart(core))

test_xTraceMultiCoreEventBufferSkipPush ==
  OnEachCore(LAMBDA core : NullTests("Push", 3))
    \o OnEachCore(LAMBDA core : Pushes(Capacity, Event))
    \o OnEachCore(LAMBDA core : Pushes(2 * Capacity, 0))

runMultiCoreEventBufferTests ==
  <<Test("Initialize", <<>>, test_xTraceMultiCoreEventBufferInitialize, <<>>),
    Test("FreePush", setup_freeMultiCoreEventBuffer, test_xTraceMultiCoreEventBufferFreePush,
         teardown_MultiCoreEventBuffer),
    Test("SkipPush", setup_skipMultiCoreEventBuffer, test_xTraceMultiCoreEventBufferSkipPush,
         teardown_MultiCoreEventBuffer)>>
=============================================================================
