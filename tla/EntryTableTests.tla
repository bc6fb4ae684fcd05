--------------------------- MODULE EntryTableTests ---------------------------
(* UnitTest_trcEntryTable: the table of entries and its diagnostics.          *)
EXTENDS EntryTable

EntryTableGlobals == EntryGlobals @@ [found |-> 0]

\* Beyond what other programs use: the address at an index, and setting diagnostics.
EntryTableOutcome(step, s) ==
  LET a == step.args IN
  \* The address is 0 when the entry is free; the test counts the others.
  CASE step.call = "EntryGetAddressAt" ->
         If("at" \in DOMAIN s.handles, [s EXCEPT !.found = @ + Cardinality(Of("at", s))], s)
    [] step.call = "EntryGetStateReturn" -> Look(Of(a[1], s), s, LAMBDA e : e.states[a[2]])
    [] step.call = "DiagnosticsSet" -> Succeeds([s EXCEPT ![a[1]] = a[2]])
    [] step.call = "DiagnosticsGet" -> Returns(s[a[1]], s)
    [] OTHER -> EntryOutcome(step, s)
-----------------------------------------------------------------------------
group_setup_EntryTable    == <<>>
group_teardown_EntryTable == <<>>

setup_emptyEntryTable == InitializesTables \o Clears("entry")

\* An entry that nothing has been done to.
IsFresh(handle) ==
  [i \in 1 .. Cardinality(States) |-> Gives("EntryGetState", <<handle, i - 1>>, 0)]
    \o <<Gives("EntryGetSymbol", <<handle>>, "")>>

setup_entryTableWithOneEntry ==
  Nested(setup_emptyEntryTable)
    \o <<Ok("EntryCreate", <<"entry">>), Gives("EntryGetAddress", <<"entry">>, 1)>>
    \o IsFresh("entry")

teardown_entryTable == Clears("entry")

test_xTraceEntryTableInitialize ==
  NullTest("EntryTableInitialize") \o NullTest("EntryIndexTableInitialize")
    \o <<Ok("EntryTableInitialize", <<>>)>>

CreatesEntries(n) == Repeat(n, LAMBDA i : <<Ok("EntryCreate", <<"entry">>)>>)

test_xTraceEntryCreate ==
  NullTest("EntryCreate") \o CreatesEntries(EntrySlots) \o <<Fails("EntryCreate", <<"entry">>)>>
    \o <<Gives("EntryGetAddress", <<"entry">>, EntrySlots)>> \o IsFresh("entry")

test_xTraceEntryCreateWithAddress ==
  LET address(i) == 12345678 + 8 * i IN
  NullTests("EntryCreateWithAddress", 2)
    \o Repeat(EntrySlots, LAMBDA i :
         <<Ok("EntryCreateWithAddress", <<address(i - 1), "entry">>),
           Gives("EntryGetAddress", <<"entry">>, address(i - 1))>>)
    \o <<Fails("EntryCreateWithAddress", <<address(0), "entry">>)>> \o IsFresh("entry")

\* Null, and four addresses that are not those of an entry.
test_xTraceEntryDelete == NullTests("EntryDelete", 5) \o <<Ok("EntryDelete", <<"entry">>)>>

test_xTraceEntryGetAddress ==
  NullTests("EntryGetAddress", 2)
    \o <<Gives("EntryGetAddress", <<"entry">>, 1),
         Ok("EntryCreateWithAddress", <<5555, "other">>),
         Gives("EntryGetAddress", <<"other">>, 5555)>>

\* Null, and indices that are out of range.
test_xTraceEntrySetGetState ==
  LET each(F(_)) == Repeat(Cardinality(States), LAMBDA i : F(i - 1))
      has(i, v)  == <<Gives("EntryGetState", <<"entry", i>>, v),
                      Gives("EntryGetStateReturn", <<"entry", i>>, v)>>
  IN NullTests("EntryGetState", 4) \o NullTests("EntrySetState", 3)
       \o each(LAMBDA i : has(i, 0))
       \o each(LAMBDA i : <<Ok("EntrySetState", <<"entry", i, 5555 + i>>)>>)
       \o each(LAMBDA i : has(i, 5555 + i))

test_xTraceEntrySetClearGetOptions ==
  LET has(mask) == <<Gives("EntryGetOptions", <<"entry">>, mask)>>
      set(mask, now) == <<Ok("EntrySetOptions", <<"entry", mask>>)>> \o has(now)
      clear(mask, now) == <<Ok("EntryClearOptions", <<"entry", mask>>)>> \o has(now)
  IN NullTest("EntrySetOptions") \o NullTest("EntryClearOptions") \o NullTests("EntryGetOptions", 2)
       \o has({}) \o set({0}, {0}) \o set({19, 31}, {0, 19, 31})
       \o clear({19}, {0, 31}) \o clear({19, 31}, {0}) \o clear({0}, {})

\* A symbol that is null is as good as an empty one; one that is too long is truncated.
test_xTraceEntrySetGetSymbol ==
  LET sets(symbol, now) == <<Ok("EntrySetSymbol", <<"entry", symbol>>),
                             Gives("EntryGetSymbol", <<"entry">>, now)>>
  IN NullTests("EntryGetSymbol", 2) \o NullTest("EntrySetSymbol")
       \o <<Ok("EntrySetSymbol", <<"entry", "">>)>>
       \o sets("TEST_NAME", "TEST_NAME") \o sets("TOO LONG", "LONGEST") \o sets("LONGEST", "LONGEST")

\* The entries that have an address are counted.
Finds(n) ==
  Repeat(EntrySlots, LAMBDA i :
    Clears("at") \o <<Ok("EntryGetAtIndex", <<i, "at">>), Ok("EntryGetAddressAt", <<>>)>>)
    \o <<See("found", n)>>

test_xTraceEntryGetEntryAtIndex ==
  <<Set("found", 0)>> \o NullTests("EntryGetAtIndex", 3) \o Finds(1) \o <<Set("found", 0)>>
    \o CreatesEntries(4) \o Finds(5)

test_xTraceEntryFind ==
  NullTests("EntryFind", 2)
    \o <<Ok("EntryCreateWithAddress", <<1000, "h1">>), Ok("EntryCreateWithAddress", <<1001, "h2">>),
         Ok("EntryCreate", <<"h3">>),
         Gives("EntryFind", <<1000, "h4">>, 1), Gives("EntryFind", <<1001, "h5">>, 2),
         Gives("EntryFind", <<3, "h6">>, 3)>>

test_xTraceEntryCount ==
  LET count(n) == <<Gives("EntryGetCount", <<>>, n)>>
      create   == <<Ok("EntryCreate", <<"entry">>)>>
  IN NullTest("EntryGetCount") \o count(0) \o create \o count(1) \o create \o count(2)
       \o <<Ok("EntryDelete", <<"entry">>)>> \o count(1)

test_xTraceDiagnosticsGetSet ==
  LET set(what, v) == <<Ok("DiagnosticsSet", <<what, v>>)>>
      get(what, v) == <<Gives("DiagnosticsGet", <<what>>, v)>>
      names(symbol) == <<Ok("EntryCreate", <<"entry">>), Ok("EntrySetSymbol", <<"entry", symbol>>)>>
  IN set("no_room", 12345) \o get("no_room", 12345) \o set("no_room", 0)
       \o set("longest", 7765) \o get("longest", 7765) \o set("no_room", 0) \o set("longest", 0)
       \o names("OF 10") \o get("longest", 10) \o names("OF 20") \o get("longest", 20)
       \o set("longest", 0) \o names("OF 40") \o get("longest", 40) \o set("longest", 0)
       \o <<Gives("EntryGetCount", <<>>, 3)>> \o CreatesEntries(EntrySlots - 3) \o get("no_room", 0)
       \o Repeat(10, LAMBDA i : <<Fails("EntryCreate", <<"entry">>)>>) \o get("no_room", 10)

runEntryTableTests ==
  LET empty(name, body) == Test(name, setup_emptyEntryTable, body, teardown_entryTable)
      one(name, body)   == Test(name, setup_entryTableWithOneEntry, body, teardown_entryTable)
  IN <<Test("Initialize", <<>>, test_xTraceEntryTableInitialize, <<>>),
       empty("Create", test_xTraceEntryCreate),
       empty("CreateWithAddress", test_xTraceEntryCreateWithAddress),
       one("Delete", test_xTraceEntryDelete),
       one("GetAddress", test_xTraceEntryGetAddress),
       one("SetGetState", test_xTraceEntrySetGetState),
       one("SetClearGetOptions", test_xTraceEntrySetClearGetOptions),
       one("SetGetSymbol", test_xTraceEntrySetGetSymbol),
       one("GetEntryAtIndex", test_xTraceEntryGetEntryAtIndex),
       empty("Find", test_xTraceEntryFind),
       empty("Count", test_xTraceEntryCount),
       empty("DiagnosticsGetSet", test_xTraceDiagnosticsGetSet)>>
=============================================================================
