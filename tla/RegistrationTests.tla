-------------------------- MODULE RegistrationTests --------------------------
(* UnitTest_trcString, UnitTest_trcDependency, UnitTest_trcExtension and      *)
(* UnitTest_trcInterval: strings, dependencies, extensions and intervals,     *)
(* which are entries (trcString.h, trcDependency.h, trcExtension.h and        *)
(* trcInterval.h, external).                                                  *)
EXTENDS EntryTable

BaseEvent == 100        \* uxNextFreeExtensionEventId of an empty buffer

\* The test state: parameters of the tests, and what they keep from call to call.
StringGlobals     == [EntryGlobals EXCEPT !.slots = AlignedSlots]
DependencyGlobals == EntryGlobals
ExtensionGlobals  == EntryGlobals @@ [next |-> BaseEvent, bases |-> <<>>, name |-> ""]
IntervalGlobals   ==
  EntryGlobals @@ [instances |-> 0, started |-> <<0, 0>>, name |-> ""]

StringOutcome(step, s) ==
  LET a == step.args IN
  CASE step.call = "StringRegister" ->
         LET new == Create("string", LAMBDA slot : slot, s) IN
         IF new.result[1] = "OK" THEN SetSymbol(Of("string", new.s), a[1], new.s) ELSE new
    [] step.call = "FindString" -> If(Of("string", s) # {}, s, s)
    [] OTHER -> EntryOutcome(step, s)

DependencyOutcome(step, s) ==
  LET a == step.args IN
  CASE step.call = "DependencyRegister" ->
         LET new   == Create("dependency", LAMBDA slot : slot, s).s
             entry == Of("dependency", new)
             typed == SetState(entry, 0, a[2], SetSymbol(entry, a[1], new).s).s
         IN SetOptions(entry, {"DEPENDENCY"}, typed)
    [] OTHER -> EntryOutcome(step, s)

\* The handle of an extension is that of the test state: of its first or its second.
ExtensionOutcome(step, s) ==
  LET a == step.args IN
  CASE step.call = "ExtensionInitialize" -> Succeeds([s EXCEPT !.next = BaseEvent, !.bases = <<>>])
    [] step.call = "ExtensionCreate" ->
         Succeeds([s EXCEPT !.next = @ + a[2], !.bases = a[1] :> s.next @@ @])
    [] step.call = "ExtensionsDiffer" -> Returns({1, 2} \subseteq DOMAIN s.bases, s)
    [] step.call = "ExtensionGetBaseEventId" ->
         IF a[1] \in DOMAIN s.bases THEN Returns(s.bases[a[1]], s) ELSE Refuses(s)
    [] step.call = "ExtensionGetEventId" ->
         IF a[1] \in DOMAIN s.bases THEN Returns(s.bases[a[1]] + a[2], s) ELSE Refuses(s)
    [] step.call = "ExtensionGetConfigName" ->
         IF a[1] \in DOMAIN s.bases THEN Returns(a[1], s) ELSE Refuses(s)
    [] OTHER -> EntryOutcome(step, s)

\* The entry of a channel has the handle of its set as its state.
IntervalOutcome(step, s) ==
  LET a == step.args IN
  CASE step.call = "IntervalChannelSetCreate" -> Create("set", LAMBDA slot : slot, s)
    [] step.call = "IntervalChannelCreate" ->
         LET new == Create("channel", LAMBDA slot : slot, s) IN
         IF new.result[1] = "FAIL" \/ Of("set", s) = {} THEN Refuses(s)
         ELSE SetState(Of("channel", new.s), 0, s.handles["set"],
                       SetSymbol(Of("channel", new.s), s.name, new.s).s)
    [] step.call = "IntervalGetState" -> Look(Of("channel", s), s, LAMBDA e : e.states[0])
    [] step.call = "IsOfSet" ->
         Returns(\E c \in Of("channel", s) : Of("set", s) = {s.entries[c].states[0]}, s)
    [] step.call = "IntervalStart" ->
         IF Of("channel", s) = {} THEN Refuses(s)
         ELSE Succeeds([s EXCEPT !.instances = @ + 1, !.started[a[1]] = s.instances + 1])
    [] step.call = "InstancesDiffer" -> Returns(s.started[1] # s.started[2], s)
    [] step.call = "IntervalStop" -> If(Of("channel", s) # {} /\ s.started[a[1]] # 0, s, s)
    [] OTHER -> EntryOutcome(step, s)
-----------------------------------------------------------------------------
(* UnitTest_trcString                                                         *)

group_setup_String    == <<>>
group_teardown_String == <<>>
setup_String          == InitializesTables
teardown_String       == <<>>

\* Each call takes an entry, whether or not there is one of that string.
test_xTraceStringRegister ==
  LET registers == <<Ok("StringRegister", <<"test">>)>> IN
  NullTests("StringRegister", 2) \o registers
    \o <<Ok("FindString", <<>>), Gives("EntryGetSymbol", <<"string">>, "test")>>
    \o Repeat(AlignedSlots - 1, LAMBDA i : registers)
    \o <<Fails("StringRegister", <<"will_not_fit">>)>>

runStringTests ==
  <<Test("Register", setup_String, test_xTraceStringRegister, teardown_String)>>
-----------------------------------------------------------------------------
(* UnitTest_trcDependency                                                     *)

group_setup_dependency    == <<>>
group_teardown_dependency == <<>>
setup_dependency          == InitializesTables
teardown_dependency       == <<>>

\* The dependency is the entry at the first index.
test_xTraceDependencyRegister ==
  NullTests("DependencyRegister", 3)
    \o <<Ok("DependencyRegister", <<"build.elf", 1>>), Ok("EntryGetAtIndex", <<1, "entry">>),
         Gives("EntryGetSymbol", <<"entry">>, "build.elf"),
         Gives("EntryGetOptions", <<"entry">>, {"DEPENDENCY"}),
         Gives("EntryGetState", <<"entry", 0>>, 1), Gives("EntryGetState", <<"entry", 1>>, 0),
         Gives("EntryGetState", <<"entry", 2>>, 0)>>

runDependencyTests ==
  <<Test("Register", setup_dependency, test_xTraceDependencyRegister, teardown_dependency)>>
-----------------------------------------------------------------------------
(* UnitTest_trcExtension                                                      *)

\* The handles, and the parameters of the tests: names, versions and numbers of events.
group_setup_Extensions    == <<Set("bases", <<>>), Set("name", "EXT1")>>
group_teardown_Extensions == <<Set("bases", <<>>), Set("name", "")>>

Events == <<5, 10>>     \* uiExt1EventCount, uiExt2EventCount
Local  == <<3, 6>>      \* uiExt1LocalEventId, uiExt2LocalEventId

CreatesExtensions == [i \in 1 .. 2 |-> Ok("ExtensionCreate", <<i, Events[i]>>)]

setup_emptyExtensions == InitializesTables \o <<Ok("ExtensionInitialize", <<>>)>>
setup_twoExtensions   == Nested(setup_emptyExtensions) \o CreatesExtensions

\* The data of the extensions goes back to what it was after the setup.
teardown_extensions == <<Set("next", BaseEvent), Set("bases", <<>>)>>

test_xTraceExtensionCreate ==
  NullTests("ExtensionCreate", 3) \o CreatesExtensions \o <<Glance("ExtensionsDiffer", TRUE)>>

BaseOf(i) == IF i = 1 THEN BaseEvent ELSE BaseEvent + Events[1]

HasBase(i) == <<Gives("ExtensionGetBaseEventId", <<i>>, BaseOf(i))>>

test_xTraceExtensionGetBaseEventId ==
  NullTests("ExtensionGetBaseEventId", 2) \o HasBase(1) \o HasBase(2)

test_xTraceExtensionGetEventId ==
  LET event(i) == HasBase(i) \o <<Gives("ExtensionGetEventId", <<i, Local[i]>>, BaseOf(i) + Local[i])>>
  IN event(1) \o event(2)

\* The name of an extension stands for its number.
test_xTraceExtensionGetConfigName ==
  NullTests("ExtensionGetConfigName", 2)
    \o [i \in 1 .. 2 |-> Gives("ExtensionGetConfigName", <<i>>, i)]

runExtensionTests ==
  LET two(name, body) == Test(name, setup_twoExtensions, body, teardown_extensions) IN
  <<Test("Create", setup_emptyExtensions, test_xTraceExtensionCreate, teardown_extensions),
    two("GetBaseEventId", test_xTraceExtensionGetBaseEventId),
    two("GetEventId", test_xTraceExtensionGetEventId),
    two("GetConfigName", test_xTraceExtensionGetConfigName)>>
-----------------------------------------------------------------------------
(* UnitTest_trcInterval                                                       *)

group_setup_Interval    == Clears("channel") \o <<Set("name", "TEST_INTERVAL")>>
group_teardown_Interval == Clears("channel") \o <<Set("name", "")>>

CreatesSet     == <<Ok("IntervalChannelSetCreate", <<>>)>>
CreatesChannel == <<Ok("IntervalChannelCreate", <<>>)>>

setup_emptyInterval == InitializesTables \o CreatesSet \o CreatesChannel

\* The teardown of a test clears the parameter that only the group setup assigns.
teardown_Interval == Clears("channel") \o <<Set("name", "")>>

\* A set may be without a name, and so may a channel.
test_xTraceIntervalSetCreate ==
  CreatesSet \o NullTest("IntervalChannelSetCreate")
    \o Clears("set") \o CreatesSet \o IsSet("set")

test_xTraceIntervalCreate ==
  CreatesSet \o CreatesChannel \o NullTests("IntervalChannelCreate", 2) \o CreatesChannel
    \o IsSet("channel") \o <<Ok("IntervalGetState", <<>>), See("IsOfSet", TRUE)>>

test_xTraceIntervalGetState ==
  NullTests("IntervalGetState", 2) \o <<Ok("IntervalGetState", <<>>)>>

StartsTwo ==
  <<Ok("IntervalStart", <<1>>), Ok("IntervalStart", <<2>>), Glance("InstancesDiffer", TRUE)>>

test_xTraceIntervalStart == NullTests("IntervalStart", 2) \o StartsTwo

test_xTraceIntervalStop ==
  NullTest("IntervalStop") \o StartsTwo \o <<Ok("IntervalStop", <<1>>), Ok("IntervalStop", <<2>>)>>

runIntervalTests ==
  LET unit_test(name, body) == Test(name, setup_emptyInterval, body, teardown_Interval) IN
  <<unit_test("SetCreate", test_xTraceIntervalSetCreate), unit_test("Create", test_xTraceIntervalCreate),
    unit_test("GetState", test_xTraceIntervalGetState), unit_test("Start", test_xTraceIntervalStart),
    unit_test("Stop", test_xTraceIntervalStop)>>
=============================================================================
