----------------------------- MODULE ObjectTests -----------------------------
(* UnitTest_trcObject: objects, which are entries with a state, with and      *)
(* without a handle (trcObject.h, external).                                  *)
EXTENDS EntryTable

ObjectGlobals == EntryGlobals

pvObject == 12345678     \* the address of the object of a test

ObjectOutcome(step, s) ==
  LET a == step.args IN
  CASE step.call = "ObjectRegister" -> Register(a[4], a[1], a[2], a[3], s)
    [] step.call = "ObjectRegisterWithoutHandle" -> Register("none", a[1], a[2], a[3], s)
    [] step.call = "ObjectUnregister" -> Delete(Of(a[1], s), s)
    [] step.call = "ObjectUnregisterWithoutHandle" -> Delete(At(a[1], s), s)
    [] step.call = "ObjectSetName"  -> SetSymbol(Of(a[1], s), a[2], s)
    [] step.call = "ObjectSetNameWithoutHandle" -> SetSymbol(At(a[1], s), a[2], s)
    [] step.call = "ObjectSetState" -> SetState(Of(a[1], s), 0, a[2], s)
    [] step.call = "ObjectSetStateWithoutHandle" -> SetState(At(a[1], s), 0, a[2], s)
    [] step.call = "ObjectSetOptions" -> SetOptions(Of(a[1], s), a[2], s)
    \* An object that is not there is registered first.
    [] step.call = "ObjectSetOptionsWithoutHandle" ->
         LET t == IF At(a[1], s) # {} THEN s ELSE Register("none", a[1], "", 0, s).s
         IN SetOptions(At(a[1], t), a[2], t)
    [] OTHER -> EntryOutcome(step, s)
-----------------------------------------------------------------------------
group_setup_Object    == <<>>
group_teardown_Object == <<>>
setup_Object          == InitializesTables
teardown_Object       == <<>>

Registers(name, state)       == <<Ok("ObjectRegister", <<pvObject, name, state, "object">>)>>
RegistersWithoutHandle(name, state) ==
  <<Ok("ObjectRegisterWithoutHandle", <<pvObject, name, state>>)>>

FindsEntry == <<Ok("EntryFind", <<pvObject, "entry">>)>>

HasSymbol(name)   == <<Gives("EntryGetSymbol", <<"entry">>, name)>>
HasState(i, v)    == <<Gives("EntryGetState", <<"entry", i>>, v)>>
HasOptions(mask)  == <<Gives("EntryGetOptions", <<"entry">>, mask)>>

test_xTraceObjectCreate ==
  Clears("object") \o Clears("entry")
    \o <<Ok("ObjectRegister", <<0, "TEST", 87654321, "object">>)>> \o NullTest("ObjectRegister")
    \o <<Fails("EntryFind", <<pvObject, "entry">>)>>
    \o Registers("TEST", 87654321) \o IsSet("object") \o FindsEntry \o HasSymbol("TEST")
    \o HasState(0, 87654321) \o Registers("", 87654321)

test_xTraceObjectCreateWithoutHandle ==
  Clears("entry") \o
  <<Ok("ObjectRegisterWithoutHandle", <<0, "TEST", 87654321>>),
    Fails("EntryFind", <<pvObject, "entry">>)>>
    \o RegistersWithoutHandle("TEST", 87654321) \o FindsEntry \o HasSymbol("TEST")
    \o HasState(0, 87654321) \o RegistersWithoutHandle("", 87654321)

test_xTraceObjectDelete ==
  Clears("object") \o NullTest("ObjectUnregister") \o Registers("TEST", 87654321)
    \o <<Ok("ObjectUnregister", <<"object">>), Fails("ObjectUnregister", <<"object">>)>>

test_xTraceObjectDeleteWithoutHandle ==
  NullTest("ObjectUnregisterWithoutHandle")
    \o <<Fails("ObjectUnregisterWithoutHandle", <<pvObject>>)>>
    \o RegistersWithoutHandle("TEST", 87654321)
    \o <<Ok("ObjectUnregisterWithoutHandle", <<pvObject>>),
         Fails("ObjectUnregisterWithoutHandle", <<pvObject>>)>>

test_xTraceObjectSetName ==
  LET named(name) == <<Ok("ObjectSetName", <<"object", name>>)>> IN
  NullTest("ObjectSetName") \o Registers("TEST", 0) \o FindsEntry \o HasSymbol("TEST")
    \o named("") \o FindsEntry \o HasSymbol("") \o named("0x87654321") \o HasSymbol("0x87654321")

test_xTraceObjectSetNameWithoutHandle ==
  LET named(name) == <<Ok("ObjectSetNameWithoutHandle", <<pvObject, name>>)>> IN
  NullTest("ObjectSetNameWithoutHandle") \o RegistersWithoutHandle("TEST", 0) \o FindsEntry
    \o HasSymbol("TEST") \o named("") \o HasSymbol("") \o named("0x87654321")
    \o HasSymbol("0x87654321")

test_xTraceObjectSetState ==
  LET set(state) == <<Ok("ObjectSetState", <<"object", state>>)>> \o HasState(0, state) IN
  NullTest("ObjectSetState") \o Registers("TEST", 12345678) \o FindsEntry
    \o HasState(0, 12345678) \o set(87654321) \o set(88888888)

test_xTraceObjectSetStateWithoutHandle ==
  NullTest("ObjectSetStateWithoutHandle") \o RegistersWithoutHandle("TEST", 12345678)
    \o FindsEntry \o HasState(0, 12345678)
    \o <<Ok("ObjectSetStateWithoutHandle", <<pvObject, 87654321>>)>> \o HasState(0, 87654321)

\* Options of the entry, read, cleared and read again.
ReadsAndClears(mask) ==
  HasOptions(mask) \o <<Ok("EntryClearOptions", <<"entry", mask>>)>> \o HasOptions({})

test_xTraceObjectSetOptions ==
  LET set(mask) == <<Ok("ObjectSetOptions", <<"object", mask>>)>> IN
  NullTest("ObjectSetOptions") \o Registers("TEST", 12345678)
    \o set({1, 2, 31}) \o FindsEntry \o ReadsAndClears({1, 2, 31})
    \o set({3, 28}) \o ReadsAndClears({3, 28})

test_xTraceObjectSetOptionsWithoutHandle ==
  LET set(mask) == <<Ok("ObjectSetOptionsWithoutHandle", <<pvObject, mask>>)>> IN
  NullTest("ObjectSetOptionsWithoutHandle")
    \o set({1, 2, 31}) \o FindsEntry \o ReadsAndClears({1, 2, 31})
    \o set({3, 28}) \o ReadsAndClears({3, 28})

\* test_xTraceObjectSetSpecificState and its form without a handle are not in the list.
runObjectTests ==
  LET unit_test(name, body) == Test(name, setup_Object, body, teardown_Object) IN
  <<unit_test("Create", test_xTraceObjectCreate),
    unit_test("CreateWithoutHandle", test_xTraceObjectCreateWithoutHandle),
    unit_test("Delete", test_xTraceObjectDelete),
    unit_test("DeleteWithoutHandle", test_xTraceObjectDeleteWithoutHandle),
    unit_test("SetName", test_xTraceObjectSetName),
    unit_test("SetNameWithoutHandle", test_xTraceObjectSetNameWithoutHandle),
    unit_test("SetState", test_xTraceObjectSetState),
    unit_test("SetStateWithoutHandle", test_xTraceObjectSetStateWithoutHandle),
    unit_test("SetOptions", test_xTraceObjectSetOptions),
    unit_test("SetOptionsWithoutHandle", test_xTraceObjectSetOptionsWithoutHandle)>>
=============================================================================
