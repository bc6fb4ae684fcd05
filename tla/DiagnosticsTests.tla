--------------------------- MODULE DiagnosticsTests ---------------------------
(* UnitTest_trcDiagnostics and UnitTest_trcError: the counters of the         *)
(* recorder about itself, and its last error (trcDiagnostics.h, trcError.h,   *)
(* external).                                                                 *)
EXTENDS EntryTable

\* Two of the diagnostics; any other index is out of range.
Diagnostics == {"BLOB_MAX_BYTES_TRUNCATED", "ENTRY_SYMBOL_LONGEST_LENGTH"}

DiagnosticsGlobals == [values |-> [d \in Diagnostics |-> 0]]

DiagnosticsOutcome(step, s) ==
  LET a == step.args
      value == s.values[a[1]]
      changes(v) == Succeeds([s EXCEPT !.values[a[1]] = v])
  IN CASE step.call = "DiagnosticsInitialize" -> Succeeds([s EXCEPT !.values = [d \in Diagnostics |-> 0]])
       [] step.call = "DiagnosticsCheckStatus"  -> Succeeds(s)
       [] step.call = "DiagnosticsGet"         -> Returns(value, s)
       [] step.call = "DiagnosticsSet"         -> changes(a[2])
       [] step.call = "DiagnosticsSetIfHigher" -> changes(Max({value, a[2]}))
       [] step.call = "DiagnosticsSetIfLower"  -> changes(Min({value, a[2]}))
       [] step.call = "DiagnosticsIncrease"    -> changes(value + 1)
       [] step.call = "DiagnosticsDecrease"    -> changes(value - 1)

ErrorGlobals == EntryGlobals @@ [error |-> FALSE]

\* A warning is not kept as an error.
\* Whether there is a description is kept as for handles.
ErrorOutcome(step, s) ==
  CASE step.call = "ErrorInitialize" -> Succeeds([s EXCEPT !.error = FALSE])
    [] step.call = "Warning"         -> Succeeds(s)
    [] step.call = "Error"           -> Succeeds([s EXCEPT !.error = TRUE])
    [] step.call = "ErrorGetLast"    ->
         If(s.error, [s EXCEPT !.handles = "description" :> 1 @@ @], s)
    [] step.call = "ErrorClear"      -> Succeeds([s EXCEPT !.error = FALSE])
    [] OTHER -> EntryOutcome(step, s)
-----------------------------------------------------------------------------
(* UnitTest_trcDiagnostics                                                    *)

group_setup_Diagnostics    == <<>>
group_teardown_Diagnostics == <<>>
setup_Diagnostics          == <<Ok("DiagnosticsInitialize", <<>>)>>
teardown_Diagnostics       == <<>>

Blob   == "BLOB_MAX_BYTES_TRUNCATED"
Symbol == "ENTRY_SYMBOL_LONGEST_LENGTH"

Gets(what, value) == <<Gives("DiagnosticsGet", <<what>>, value)>>

\* A call, and the value it leaves.
Then(call, args, value) == <<Ok(call, args)>> \o Gets(args[1], value)

\* The index before the first and the one after the last.
OutOfRange(call) == NullTests(call, 2)

test_xTraceDiagnosticsInitialize == NullTest("DiagnosticsInitialize") \o setup_Diagnostics

\* Neither value is set in place of the other.
test_xTraceDiagnosticsGetSet ==
  OutOfRange("DiagnosticsGet") \o OutOfRange("DiagnosticsSet") \o Gets(Blob, 0)
    \o Then("DiagnosticsSet", <<Blob, 1>>, 1) \o Then("DiagnosticsSet", <<Symbol, 2>>, 2)
    \o Gets(Blob, 1)

test_xTraceDiagnosticsSetIfHigherLower ==
  LET higher == "DiagnosticsSetIfHigher"
      lower  == "DiagnosticsSetIfLower"
  IN OutOfRange(higher) \o OutOfRange(lower) \o Gets(Symbol, 0)
       \o Then(higher, <<Symbol, 5>>, 5) \o Then(higher, <<Symbol, 3>>, 5)
       \o Then(lower, <<Symbol, 3>>, 3) \o Then(lower, <<Symbol, 5>>, 3)

test_xTraceDiagnosticsIncreaseDecrease ==
  LET to(value, up) == Then(IF up THEN "DiagnosticsIncrease" ELSE "DiagnosticsDecrease",
                            <<Symbol>>, value)
  IN OutOfRange("DiagnosticsIncrease") \o OutOfRange("DiagnosticsDecrease") \o Gets(Symbol, 0)
       \o Repeat(5, LAMBDA i : to(i, TRUE)) \o Repeat(3, LAMBDA i : to(5 - i, FALSE))
       \o to(3, TRUE) \o to(2, FALSE) \o to(1, FALSE)

test_xTraceDiagnosticsCheckStatus == <<Ok("DiagnosticsCheckStatus", <<>>)>>

runDiagnosticsTests ==
  LET unit_test(name, body) == Test(name, setup_Diagnostics, body, teardown_Diagnostics) IN
  <<unit_test("Initialize", test_xTraceDiagnosticsInitialize),
    unit_test("GetSet", test_xTraceDiagnosticsGetSet),
    unit_test("CheckStatus", test_xTraceDiagnosticsCheckStatus),
    unit_test("SetIfHigherLower", test_xTraceDiagnosticsSetIfHigherLower),
    unit_test("IncreaseDecrease", test_xTraceDiagnosticsIncreaseDecrease)>>
-----------------------------------------------------------------------------
(* UnitTest_trcError                                                          *)

group_setup_Error    == <<>>
group_teardown_Error == <<>>
setup_Error          == InitializesTables \o <<Ok("ErrorInitialize", <<>>)>>
teardown_Error       == <<Set("handles", <<>>)>>

test_xTraceErrorInitialize == NullTest("ErrorInitialize") \o <<Ok("ErrorInitialize", <<>>)>>

\* An unknown warning is as good as a known one.
test_xTraceWarning == <<Ok("Warning", <<"0xDEADBEEF">>), Ok("Warning", <<"STREAM_PORT_WRITE">>)>>

\* The test of xTraceError calls xTraceWarning.
test_xTraceError == test_xTraceWarning

test_xTraceErrorGetLast ==
  Clears("description") \o NullTest("ErrorGetLast")
    \o <<Ok("ErrorClear", <<>>), Fails("ErrorGetLast", <<>>),
         Ok("Warning", <<"STREAM_PORT_WRITE">>), Fails("ErrorGetLast", <<>>),
         Ok("Error", <<"DWT_NOT_SUPPORTED">>), Ok("ErrorGetLast", <<>>)>>
    \o IsSet("description")

test_xTraceErrorClear ==
  Clears("description")
    \o <<Ok("Error", <<"DWT_NOT_SUPPORTED">>), Ok("ErrorGetLast", <<>>), Ok("ErrorClear", <<>>),
         Fails("ErrorGetLast", <<>>)>>

runErrorTests ==
  LET unit_test(name, body) == Test(name, setup_Error, body, teardown_Error) IN
  <<unit_test("ErrorInitialize", test_xTraceErrorInitialize), unit_test("Warning", test_xTraceWarning),
    unit_test("Error", test_xTraceError), unit_test("ErrorGetLast", test_xTraceErrorGetLast),
    unit_test("ErrorClear", test_xTraceErrorClear)>>
=============================================================================
