---------------------------- MODULE RunnableTests ----------------------------
(* UnitTest_trcRunnable: runnables, which are or are not entries, and static  *)
(* sets of them, which are extensions (trcRunnable.h, external).              *)
EXTENDS EntryTable

LastEvent == 100        \* TRC_EVENT_LAST_ID
Task      == 12345678   \* MOCK_TASK_pvCurrentTask

RunnableGlobals ==
  [EntryGlobals EXCEPT !.slots = AlignedSlots] @@
  [next |-> LastEvent + 1,    \* the first event of the next extension
   sets |-> <<>>]             \* the first events of the static sets

\* A runnable is identified by the variable of its handle, by its string or by its
\* entry, the one of the string if there is one.
RegisterRunnable(method, s) ==
  LET named == {i \in DOMAIN s.entries : s.entries[i].symbol = "test"}
      slot  == Min(named \cup FreeSlots(s))
      entry == [NewEntry(slot) EXCEPT !.symbol = "test", !.options = {"RUNNABLE"},
                                      !.states[0] = Task]
      id == CASE method = "USE_HANDLE_ADDRESS" -> "handle"
              [] method = "USE_STRING_ADDRESS" -> "string"
              [] method = "USE_ENTRY_TABLE"    -> "entry"
      t == IF method # "USE_ENTRY_TABLE" THEN s
           ELSE [s EXCEPT !.entries = slot :> entry @@ @, !.handles = "entry" :> slot @@ @]
  IN Returns(id, xTraceEventCreateData(t, <<"RUNNABLE_REGISTER", id>>, "test"))

RunnableOutcome(step, s) ==
  LET a == step.args
      sends(event) == Succeeds(xTraceEventCreate(s, event))
  IN CASE step.call = "ExtensionInitialize" ->
            Succeeds([s EXCEPT !.next = LastEvent + 1, !.sets = <<>>])
       [] step.call = "RunnableRegister" -> RegisterRunnable(a[1], s)
       [] step.call = "FindRunnable" -> If(a[1] = "entry" /\ Of("entry", s) # {}, s, s)
       [] step.call = "RunnableStart" -> sends(<<"RUNNABLE_START", a[1]>>)
       [] step.call \in {"RunnableStop", "RunnableStopStatic"} -> sends(<<"RUNNABLE_STOP">>)
       [] step.call = "RunnableRegisterStaticSet" ->
            Succeeds(xTraceEventCreateData(
              [s EXCEPT !.next = @ + a[2], !.sets = Append(@, s.next)],
              <<"EXTENSION_CREATE", Len(s.sets) + 1, a[1], s.next, a[2]>>, "test"))
       [] step.call = "RunnableStartStatic" ->
            IF s.sets = <<>> THEN Refuses(s) ELSE sends(<<s.sets[1] + a[1]>>)
       [] OTHER -> EntryOutcome(step, s)
-----------------------------------------------------------------------------
group_setup_Runnable    == <<>>
group_teardown_Runnable == <<>>
setup_Runnable          == InitializesTables \o <<Ok("ExtensionInitialize", <<>>)>>
teardown_Runnable       == <<>>

Counts(n) == <<Plainly(Gives("EntryGetCount", <<>>, n))>>

Registers(method, id) ==
  <<[CreatesData("RunnableRegister", <<method>>, <<"RUNNABLE_REGISTER", id>>, "test")
       EXCEPT !.want = <<"OK", id>>]>>

\* A runnable that is not stored in the table of entries.
IsNoEntry(method, id) ==
  Counts(0) \o Registers(method, id) \o <<Fails("FindRunnable", <<id>>)>> \o Counts(0)

test_xTraceRunnableRegister ==
  NullTests("RunnableRegister", 2)
    \o IsNoEntry("USE_HANDLE_ADDRESS", "handle") \o IsNoEntry("USE_STRING_ADDRESS", "string")
    \o Counts(0) \o Registers("USE_ENTRY_TABLE", "entry") \o <<Ok("FindRunnable", <<"entry">>)>>
    \o <<Plainly(Gives("EntryGetOptions", <<"entry">>, {"RUNNABLE"})),
         Gives("EntryGetSymbol", <<"entry">>, "test"), Gives("EntryGetState", <<"entry", 0>>, Task)>>
    \o Counts(1)
    \o Counts(1) \o Registers("USE_ENTRY_TABLE", "entry") \o Counts(1)

IsRegistered == <<Ok("RunnableRegister", <<"USE_ENTRY_TABLE">>)>>

test_xTraceRunnableStart ==
  IsRegistered \o <<Creates("RunnableStart", <<"entry">>, <<"RUNNABLE_START", "entry">>)>>

test_xTraceRunnableStop ==
  IsRegistered \o <<Creates("RunnableStop", <<>>, <<"RUNNABLE_STOP">>)>>

\* The set-th static set, of five runnables, with its version.
RegistersSet(set, version) ==
  <<CreatesData("RunnableRegisterStaticSet", <<version, 5>>,
                <<"EXTENSION_CREATE", set, version, LastEvent + 1 + 5 * (set - 1), 5>>, "test")>>

test_xTraceRunnableRegisterStaticSet ==
  NullTests("RunnableRegisterStaticSet", 4) \o RegistersSet(1, <<1, 2, 3>>)
    \o RegistersSet(2, <<4, 5, 6>>)

SetIsRegistered == <<Ok("RunnableRegisterStaticSet", <<<<1, 0, 0>>, 5>>)>>

test_xTraceRunnableStartStatic ==
  LET starts(i) == <<Creates("RunnableStartStatic", <<i>>, <<LastEvent + 1 + i>>)>> IN
  SetIsRegistered \o starts(0) \o starts(5)

test_xTraceRunnableStopStatic ==
  LET stops == <<Creates("RunnableStopStatic", <<>>, <<"RUNNABLE_STOP">>)>> IN
  SetIsRegistered \o stops \o stops

\* test_xTraceStringRegister is declared, and neither defined nor in the list.
runRunnableTests ==
  LET unit_test(name, body) == Test(name, setup_Runnable, body, teardown_Runnable) IN
  <<unit_test("Register", test_xTraceRunnableRegister), unit_test("Start", test_xTraceRunnableStart),
    unit_test("Stop", test_xTraceRunnableStop),
    unit_test("RegisterStaticSet", test_xTraceRunnableRegisterStaticSet),
    unit_test("StartStatic", test_xTraceRunnableStartStatic),
    unit_test("StopStatic", test_xTraceRunnableStopStatic)>>
=============================================================================
