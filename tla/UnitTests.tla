------------------------------ MODULE UnitTests ------------------------------
(* The unit test programs of the repository, one directory UnitTest_trc... each. *)
LOCAL INSTANCE TLC

Counter      == INSTANCE CounterTests
EventBuffer  == INSTANCE EventBufferTests
MultiCore    == INSTANCE MultiCoreEventBufferTests
EntryTable   == INSTANCE EntryTableTests
Object       == INSTANCE ObjectTests
Task         == INSTANCE TaskTests
ISR          == INSTANCE ISRTests
StateMachine == INSTANCE StateMachineTests
Event        == INSTANCE EventTests
Verification == INSTANCE EventVerificationTests
Timestamp    == INSTANCE TimestampTests
Heap         == INSTANCE HeapTests
Runnable     == INSTANCE RunnableTests
Registration == INSTANCE RegistrationTests
Diagnosis    == INSTANCE DiagnosticsTests
Tables       == INSTANCE TableTests
Texts        == INSTANCE PrintTests
-----------------------------------------------------------------------------
\* What each main gives to cmocka_run_group_tests.
AllGroups ==
  [Counter |->
     [globals |-> Counter!CounterGlobals, setup |-> Counter!group_setup_Counter,
      teardown |-> Counter!group_teardown_Counter, tests |-> Counter!runCounterTests],
   EventBuffer |->
     [globals |-> EventBuffer!EventBufferGlobals, setup |-> EventBuffer!group_setup_EventBuffer,
      teardown |-> EventBuffer!group_teardown_EventBuffer, tests |-> EventBuffer!runEventBufferTests],
   MultiCoreEventBuffer |->
     [globals |-> MultiCore!MultiCoreEventBufferGlobals, setup |-> MultiCore!group_setup_MultiCoreEventBuffer,
      teardown |-> MultiCore!group_teardown_MultiCoreEventBuffer, tests |-> MultiCore!runMultiCoreEventBufferTests],
   EntryTable |->
     [globals |-> EntryTable!EntryTableGlobals, setup |-> EntryTable!group_setup_EntryTable,
      teardown |-> EntryTable!group_teardown_EntryTable, tests |-> EntryTable!runEntryTableTests],
   Object |->
     [globals |-> Object!ObjectGlobals, setup |-> Object!group_setup_Object,
      teardown |-> Object!group_teardown_Object, tests |-> Object!runObjectTests],
   Task |->
     [globals |-> Task!TaskGlobals, setup |-> Task!group_setup_Task,
      teardown |-> Task!group_teardown_Task, tests |-> Task!runTaskTests],
   ISR |->
     [globals |-> ISR!ISRGlobals, setup |-> ISR!group_setup_ISR,
      teardown |-> ISR!group_teardown_ISR, tests |-> ISR!runISRTests],
   StateMachine |->
     [globals |-> StateMachine!StateMachineGlobals, setup |-> StateMachine!group_setup_StateMachine,
      teardown |-> StateMachine!group_teardown_StateMachine, tests |-> StateMachine!runStateMachineTests],
   Event |->
     [globals |-> Event!EventGlobals, setup |-> Event!group_setup_Event,
      teardown |-> Event!group_teardown_Event, tests |-> Event!runEventTests],
   EventVerification |->
     [globals |-> Verification!EventVerificationGlobals, setup |-> Verification!group_setup_EventVerification,
      teardown |-> Verification!group_teardown_EventVerification, tests |-> Verification!runEventVerificationTests],
   Timestamp |->
     [globals |-> Timestamp!TimestampGlobals, setup |-> Timestamp!group_setup_Timestamp,
      teardown |-> Timestamp!group_teardown_Timestamp, tests |-> Timestamp!runTimestampTests],
   Heap |->
     [globals |-> Heap!HeapGlobals, setup |-> Heap!group_setup_Heap,
      teardown |-> Heap!group_teardown_Heap, tests |-> Heap!runHeapTests],
   Runnable |->
     [globals |-> Runnable!RunnableGlobals, setup |-> Runnable!group_setup_Runnable,
      teardown |-> Runnable!group_teardown_Runnable, tests |-> Runnable!runRunnableTests],
   String |->
     [globals |-> Registration!StringGlobals, setup |-> Registration!group_setup_String,
      teardown |-> Registration!group_teardown_String, tests |-> Registration!runStringTests],
   Dependency |->
     [globals |-> Registration!DependencyGlobals, setup |-> Registration!group_setup_dependency,
      teardown |-> Registration!group_teardown_dependency, tests |-> Registration!runDependencyTests],
   Extension |->
     [globals |-> Registration!ExtensionGlobals, setup |-> Registration!group_setup_Extensions,
      teardown |-> Registration!group_teardown_Extensions, tests |-> Registration!runExtensionTests],
   Interval |->
     [globals |-> Registration!IntervalGlobals, setup |-> Registration!group_setup_Interval,
      teardown |-> Registration!group_teardown_Interval, tests |-> Registration!runIntervalTests],
   Diagnostics |->
     [globals |-> Diagnosis!DiagnosticsGlobals, setup |-> Diagnosis!group_setup_Diagnostics,
      teardown |-> Diagnosis!group_teardown_Diagnostics, tests |-> Diagnosis!runDiagnosticsTests],
   Error |->
     [globals |-> Diagnosis!ErrorGlobals, setup |-> Diagnosis!group_setup_Error,
      teardown |-> Diagnosis!group_teardown_Error, tests |-> Diagnosis!runErrorTests],
   StackMonitor |->
     [globals |-> Tables!StackMonitorGlobals, setup |-> Tables!group_setup_StackMonitor,
      teardown |-> Tables!group_teardown_StackMonitor, tests |-> Tables!runStackMonitorTests],
   StaticBuffer |->
     [globals |-> Tables!StaticBufferGlobals, setup |-> Tables!group_setup_StaticBuffer,
      teardown |-> Tables!group_teardown_StaticBuffer, tests |-> Tables!runStaticBufferTests]]
  @@ "Print" :>
     [globals |-> Texts!PrintGlobals, setup |-> Texts!group_setup_Print,
      teardown |-> Texts!group_teardown_Print, tests |-> Texts!runPrintTests]

\* What the recorder of a program does when it has no fault.
RecorderOutcome(program, st, s) ==
  CASE program = "Counter"                -> Counter!CounterOutcome(st, s)
    [] program = "EventBuffer"            -> EventBuffer!EventBufferOutcome(st, s)
    [] program = "MultiCoreEventBuffer"   -> MultiCore!MultiCoreEventBufferOutcome(st, s)
    [] program = "EntryTable"             -> EntryTable!EntryTableOutcome(st, s)
    [] program = "Object"                 -> Object!ObjectOutcome(st, s)
    [] program = "Task"                   -> Task!TaskOutcome(st, s)
    [] program = "ISR"                    -> ISR!ISROutcome(st, s)
    [] program = "StateMachine"           -> StateMachine!StateMachineOutcome(st, s)
    [] program = "Event"                  -> Event!EventOutcome(st, s)
    [] program = "EventVerification"      -> Verification!EventVerificationOutcome(st, s)
    [] program = "Timestamp"              -> Timestamp!TimestampOutcome(st, s)
    [] program = "Heap"                   -> Heap!HeapOutcome(st, s)
    [] program = "Runnable"               -> Runnable!RunnableOutcome(st, s)
    [] program = "String"                 -> Registration!StringOutcome(st, s)
    [] program = "Dependency"             -> Registration!DependencyOutcome(st, s)
    [] program = "Extension"              -> Registration!ExtensionOutcome(st, s)
    [] program = "Interval"               -> Registration!IntervalOutcome(st, s)
    [] program = "Diagnostics"            -> Diagnosis!DiagnosticsOutcome(st, s)
    [] program = "Error"                  -> Diagnosis!ErrorOutcome(st, s)
    [] program = "StackMonitor"           -> Tables!StackMonitorOutcome(st, s)
    [] program = "StaticBuffer"           -> Tables!StaticBufferOutcome(st, s)
    [] program = "Print"                  -> Texts!PrintOutcome(st, s)
=============================================================================
