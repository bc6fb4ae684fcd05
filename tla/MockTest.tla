------------------------------ MODULE MockTest ------------------------------
(***************************************************************************)
(* One test after another that declares expectations and calls mocks: the  *)
(* stores of Expectations with the end of a test around them.  Variable    *)
(* ledger is a history of the declarations and their uses; the code has no *)
(* such thing, and it decides nothing but the bounds.                      *)
(***************************************************************************)
EXTENDS Expectations

CONSTANTS MaxDeclarations,  (* bound: declarations in a test                *)
          MaxServed         (* bound: uses of one declaration               *)

ASSUME BoundsAssumption ==
  /\ MaxDeclarations \in Nat
  /\ 1 .. MaxDeclarations \subseteq Locations

VARIABLES test,             (* "running", or how the test ended             *)
          ledger,           (* history: declarations and their uses         *)
          refused           (* history: the declaration or use that exited  *)

vars == <<expectations, test, ledger, refused>>
-----------------------------------------------------------------------------
ResultDeclarations ==
  [kind : {"result"}, key : {<<f>> : f \in Functions},
   payload : {{v} : v \in Values}, count : Counts]

CheckDeclarations ==
  [kind : {"parameter"}, key : Functions \X Parameters,
   payload : SUBSET Values, count : Counts]

CallDeclarations ==
  [kind : {"call"}, key : {<<f>> : f \in Functions},
   payload : {{}}, count : Counts]

Declarations == ResultDeclarations \cup CheckDeclarations \cup CallDeclarations

Uses ==
  [kind : {"result", "call"}, key : {<<f>> : f \in Functions}]
    \cup [kind : {"parameter"}, key : Functions \X Parameters, value : Values]

\* The ledger and the fate of the test are what the contract sees of it.
Contract == INSTANCE MockContract
              WITH ledger <- ledger, test <- test, refused <- refused

\* The stores hold declarations with uses left, the ledger what was declared.
TypeOK ==
  /\ ExpectationsTypeOK
  /\ test \in {"running", "passed", "leftover", "rejected"}
  /\ ledger \in Seq([what : Declarations, served : Nat])
  /\ refused \subseteq Declarations \cup Uses

Init ==
  /\ InitializeTesting
  /\ test = "running"
  /\ ledger = <<>>
  /\ refused = {}
-----------------------------------------------------------------------------
\* The place of the next declaration stands for its source location.
Here == Len(ledger) + 1

\* exit_test jumps out of the test, and teardown_testing frees what is left.
Exits(what, fails) ==
  /\ test' = IF fails THEN "rejected" ELSE "running"
  /\ refused' = IF fails THEN {what} ELSE {}

Declare(d, fails) ==
  /\ Here <= MaxDeclarations
  /\ ledger' = IF fails THEN ledger
               ELSE Append(ledger, [what |-> d, served |-> 0])
  /\ Exits(d, fails)

Serve(queue, use, fails) ==
  /\ IF SymbolFound(queue)
     THEN /\ ledger[queue[1].location].served < MaxServed
          /\ ledger' = [ledger EXCEPT ![queue[1].location].served = @ + 1]
     ELSE UNCHANGED ledger
  /\ Exits(use, fails)

DeclareReturn ==
  /\ test = "running"
  /\ \E f \in Functions, v \in Values, c \in Counts :
       /\ WillReturn(f, v, c, Here)
       /\ Declare([kind |-> "result", key |-> <<f>>, payload |-> {v}, count |-> c],
                  WillReturnFails(c))

CallMock ==
  /\ test = "running"
  /\ \E f \in Functions :
       /\ Mock(f)
       /\ Serve(results[f], [kind |-> "result", key |-> <<f>>], MockFails(f))

DeclareCheck ==
  /\ test = "running"
  /\ \E k \in Functions \X Parameters, a \in SUBSET Values, c \in Counts :
       /\ ExpectCheck(k, a, c, Here)
       /\ Declare([kind |-> "parameter", key |-> k, payload |-> a, count |-> c], FALSE)

Check ==
  /\ test = "running"
  /\ \E k \in Functions \X Parameters, v \in Values :
       /\ CheckExpected(k)
       /\ Serve(parameters[k], [kind |-> "parameter", key |-> k, value |-> v],
                CheckExpectedFails(k, v))

DeclareCall ==
  /\ test = "running"
  /\ \E f \in Functions, c \in Counts :
       /\ ExpectFunctionCall(f, c, Here)
       /\ Declare([kind |-> "call", key |-> <<f>>, payload |-> {}, count |-> c],
                  ExpectFunctionCallFails(c))

CallOrdered ==
  /\ test = "running"
  /\ \E f \in Functions :
       /\ FunctionCalled(f)
       /\ Exits([kind |-> "call", key |-> <<f>>], FunctionCalledFails(f))
       /\ IF FunctionCalledFails(f)
          THEN UNCHANGED ledger
          ELSE LET loc == calls[FirstStop(f)].location IN
               /\ ledger[loc].served < MaxServed
               /\ ledger' = [ledger EXCEPT ![loc].served = @ + 1]

\* The test function returned: fail_if_leftover_values.
EndOfTest ==
  /\ test = "running"
  /\ test' = IF HasLeftoverValues THEN "leftover" ELSE "passed"
  /\ UNCHANGED <<expectations, ledger, refused>>

NextTest ==
  /\ test # "running"
  /\ TeardownTesting
  /\ test' = "running"
  /\ ledger' = <<>>
  /\ refused' = {}

Next ==
  \/ DeclareReturn \/ CallMock
  \/ DeclareCheck \/ Check
  \/ DeclareCall \/ CallOrdered
  \/ EndOfTest \/ NextTest

Spec == Init /\ [][Next]_vars
-----------------------------------------------------------------------------
\* While a test runs, the stores hold exactly the declarations that still
\* allow a use, each with the uses it has left; -1 turns into -2 at its first
\* use (add_symbol_value, get_symbol_value, _function_called).
Left(e) ==
  IF e.what.count > 0 THEN e.what.count - e.served
  ELSE IF e.what.count = Always /\ e.served > 0 THEN Maybe ELSE e.what.count

StoredAs(loc, refcount) ==
  \/ \E f \in Functions : \E i \in DOMAIN results[f] :
       /\ ledger[loc].what.kind = "result"
       /\ <<f>> = ledger[loc].what.key
       /\ {results[f][i].value} = ledger[loc].what.payload
       /\ results[f][i].location = loc /\ results[f][i].refcount = refcount
  \/ \E k \in Functions \X Parameters : \E i \in DOMAIN parameters[k] :
       /\ ledger[loc].what.kind = "parameter"
       /\ k = ledger[loc].what.key
       /\ parameters[k][i].accepts = ledger[loc].what.payload
       /\ parameters[k][i].location = loc /\ parameters[k][i].refcount = refcount
  \/ \E i \in DOMAIN calls :
       /\ ledger[loc].what.kind = "call"
       /\ <<calls[i].function>> = ledger[loc].what.key
       /\ calls[i].location = loc /\ calls[i].refcount = refcount

StoresMatchLedger ==
  test = "running" =>
    \A loc \in DOMAIN ledger :
      IF Contract!Exhausted(ledger[loc])
      THEN \A n \in -2 .. MaxServed : ~StoredAs(loc, n)
      ELSE StoredAs(loc, Left(ledger[loc]))

\* cmocka.h on will_return_maybe and will_return_count: a value with count -2
\* never fails the test, so leftovers mean that some expectation was not met.
LeftoverMeansUnmet == test = "leftover" => ~Contract!AllMet

\* Every test of the code is one that the contract allows, with the same uses of the
\* same declarations and the same fate (get_symbol_value, _check_expected,
\* _function_called, fail_if_leftover_values).
ContractSpec == Contract!Spec
=============================================================================
