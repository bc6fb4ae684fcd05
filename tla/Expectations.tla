---------------------------- MODULE Expectations ----------------------------
(***************************************************************************)
(* The expectations a test declares and the mocks consume (cmocka.c):      *)
(* return values (will_return / mock), parameter checks (expect_value... / *)
(* check_expected) and ordered calls (expect_function_call /               *)
(* function_called).                                                       *)
(*                                                                         *)
(* The first two are maps from symbols to queues, the third is one list    *)
(* for the whole test.  Every entry carries the source location of its     *)
(* declaration and a refcount: n > 0 retrievals left, -1 "always, at least *)
(* once", -2 "always, possibly never".                                     *)
(*                                                                         *)
(* The operations here are the effects only.  Each operation Op has a      *)
(* predicate OpFails saying that the code leaves it through exit_test; the *)
(* modules that extend this one say where exit_test goes.                  *)
(***************************************************************************)
EXTENDS Integers, Sequences, SequencesExt

CONSTANTS Functions,   (* names of the mock functions                       *)
          Parameters,  (* names of their parameters                         *)
          Values,      (* values returned by mocks and passed to them       *)
          Counts,      (* repetition counts that tests declare              *)
          Locations    (* source locations of the declarations              *)

ASSUME CountsAssumption == Counts \subseteq Int

VARIABLES results,     (* global_function_result_map_head                   *)
          parameters,  (* global_function_parameter_map_head                *)
          calls        (* global_call_ordering_head                         *)

expectations == <<results, parameters, calls>>
-----------------------------------------------------------------------------
\* Retrieved for the last time, an entry leaves its queue: only a check declared
\* with count 0 has refcount 0.
ReturnEntry == [value : Values, location : Locations, refcount : Int \ {0}]
CheckEntry  == [accepts : SUBSET Values, location : Locations, refcount : Int]
CallEntry   == [function : Functions, location : Locations, refcount : Int \ {0}]

\* A symbol without an entry in the map is a symbol with an empty queue: the
\* code removes the entry together with its last value.
ExpectationsTypeOK ==
  /\ results \in [Functions -> Seq(ReturnEntry)]
  /\ parameters \in [Functions \X Parameters -> Seq(CheckEntry)]
  /\ calls \in Seq(CallEntry)

Always == -1   \* WILL_RETURN_ALWAYS
Maybe  == -2   \* WILL_RETURN_ONCE

InitializeTesting ==
  /\ results = [f \in Functions |-> <<>>]
  /\ parameters = [k \in Functions \X Parameters |-> <<>>]
  /\ calls = <<>>

\* (mutant of TeardownTesting: the call order is not emptied)
TeardownForgetsCalls ==
  /\ results' = [f \in Functions |-> <<>>]
  /\ parameters' = [k \in Functions \X Parameters |-> <<>>]
  /\ UNCHANGED calls

TeardownTesting ==
  /\ results' = [f \in Functions |-> <<>>]
  /\ parameters' = [k \in Functions \X Parameters |-> <<>>]
  /\ calls' = <<>>
-----------------------------------------------------------------------------
(* Queues of values, shared by the first two stores.                       *)

\* (mutant of Spent: -1 is taken for unlimited and never counted down)
SpentStopsAtAlways(refcount) == IF refcount > Always THEN refcount - 1 ELSE refcount

\* One retrieval uses an entry up or counts it down; -1 becomes -2, which
\* stays.
Spent(refcount) == IF refcount > Maybe THEN refcount - 1 ELSE refcount

\* (mutant of GetSymbolValue: the last retrieval leaves the entry in place)
GetWithoutRemoval(queue) ==
  IF queue = <<>> THEN queue ELSE [queue EXCEPT ![1].refcount = Spent(@)]

\* The queue after get_symbol_value took its first entry.
GetSymbolValue(queue) ==
  IF queue = <<>> THEN queue
  ELSE IF queue[1].refcount = 1 THEN Tail(queue)
  ELSE [queue EXCEPT ![1].refcount = Spent(@)]

\* get_symbol_value returns the old refcount, or 0 when it found no entry:
\* an entry declared with count 0 looks like a missing one.
SymbolFound(queue) == queue # <<>> /\ queue[1].refcount # 0

\* What remove_always_return_values leaves of a queue: only the first entry
\* is looked at.
DropSatisfiedFirst(queue) ==
  IF queue # <<>> /\ queue[1].refcount < Always THEN Tail(queue) ELSE queue
-----------------------------------------------------------------------------
WillReturnFails(count) == count = 0

WillReturn(f, v, count, loc) ==
  /\ results' =
       IF WillReturnFails(count) THEN results
       ELSE [results EXCEPT ![f] =
               Append(@, [value |-> v, location |-> loc, refcount |-> count])]
  /\ UNCHANGED <<parameters, calls>>

MockFails(f) == ~SymbolFound(results[f])

Mock(f) ==
  /\ results' = [results EXCEPT ![f] = GetSymbolValue(@)]
  /\ UNCHANGED <<parameters, calls>>

\* Unlike the other two declarations, _expect_check accepts a count of 0.
ExpectCheck(k, accepted, count, loc) ==
  /\ parameters' =
       [parameters EXCEPT ![k] =
          Append(@, [accepts |-> accepted, location |-> loc, refcount |-> count])]
  /\ UNCHANGED <<results, calls>>

CheckExpectedFails(k, v) ==
  ~SymbolFound(parameters[k]) \/ v \notin parameters[k][1].accepts

\* The entry is taken before the value is checked, so a failed check
\* consumes it as well.
CheckExpected(k) ==
  /\ parameters' = [parameters EXCEPT ![k] = GetSymbolValue(@)]
  /\ UNCHANGED <<results, calls>>

ExpectFunctionCallFails(count) == count = 0

ExpectFunctionCall(f, count, loc) ==
  /\ calls' =
       IF ExpectFunctionCallFails(count) THEN calls
       ELSE Append(calls, [function |-> f, location |-> loc, refcount |-> count])
  /\ UNCHANGED <<results, parameters>>

\* (mutant of SearchStops: an ignored function hides the ones declared after it)
SearchStopsAtFirst(f) == {i \in DOMAIN calls : calls[i].function = f \/ i = 1}

\* The search of _function_called stops at the first entry that is for f, or
\* that must be called first.
SearchStops(f) ==
  {i \in DOMAIN calls : calls[i].function = f \/ calls[i].refcount > Maybe}

FirstStop(f) == CHOOSE i \in SearchStops(f) : \A j \in SearchStops(f) : i <= j

FunctionCalledFails(f) ==
  SearchStops(f) = {} \/ calls[FirstStop(f)].function # f

FunctionCalled(f) ==
  /\ calls' =
       IF FunctionCalledFails(f) THEN calls
       ELSE LET i == FirstStop(f) IN
            IF calls[i].refcount = 1 THEN RemoveAt(calls, i)
            ELSE [calls EXCEPT ![i].refcount = Spent(@)]
  /\ UNCHANGED <<results, parameters>>
-----------------------------------------------------------------------------
\* has_leftover_values: what the removal of satisfied "always" entries leaves
\* is an expectation that was not met.  The removal itself is not seen again,
\* every path goes on to teardown_testing.
HasLeftoverValues ==
  \/ \E f \in Functions : DropSatisfiedFirst(results[f]) # <<>>
  \/ \E k \in Functions \X Parameters : DropSatisfiedFirst(parameters[k]) # <<>>
  \/ \E i \in DOMAIN calls : calls[i].refcount >= Always
=============================================================================
