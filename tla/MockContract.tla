---------------------------- MODULE MockContract ----------------------------
(***************************************************************************)
(* What the documentation of cmocka.h promises of declared expectations,   *)
(* without the queues and refcounts that implement it: a ledger of the     *)
(* declarations of one test, in order, each with the number of times it    *)
(* was used, and the fate of the test with its reason.                     *)
(***************************************************************************)
EXTENDS Integers, Sequences

CONSTANTS Declarations, (* everything a test can declare: records with the  *)
                        (* fields kind, key, payload and count              *)
          Uses          (* every use: kind and key, and the value that a    *)
                        (* parameter has                                    *)

VARIABLES ledger,       (* sequence of [what : Declarations, served : Nat]  *)
          test,         (* "running", or how the test ended                 *)
          refused       (* the declaration or use that ended it, if any     *)

contract == <<ledger, test, refused>>
-----------------------------------------------------------------------------
\* Declared for n > 0 uses and used n times.
Exhausted(e) == e.what.count > 0 /\ e.served = e.what.count

\* A count n > 0 asks for exactly n uses, -1 for at least one, less for none;
\* nothing meets a count of 0.
Met(e) ==
  \/ Exhausted(e)
  \/ e.what.count = -1 /\ e.served > 0
  \/ e.what.count < -1

SameQueue(d, e) == d.what.kind = e.what.kind /\ d.what.key = e.what.key

\* Entry i is the one that serves the next use of its key.  Return values and
\* parameter checks queue up per key; calls stand in one line, in which only
\* met expectations of other functions may be passed over.
Serves(i) ==
  /\ ~Exhausted(ledger[i])
  /\ \A j \in 1 .. i - 1 :
       IF ledger[i].what.kind = "call"
       THEN ledger[j].what.kind = "call" =>
              \/ Exhausted(ledger[j])
              \/ Met(ledger[j]) /\ ledger[j].what.key # ledger[i].what.key
       ELSE SameQueue(ledger[i], ledger[j]) => Exhausted(ledger[j])

\* Queued behind an unlimited entry of the same key: it will never be used.
Shadowed(i) ==
  /\ ledger[i].what.kind # "call"
  /\ \E j \in 1 .. i - 1 :
       SameQueue(ledger[i], ledger[j]) /\ ledger[j].what.count < 0

IsFor(i, u) == ledger[i].what.kind = u.kind /\ ledger[i].what.key = u.key

AllMet == \A i \in DOMAIN ledger : Met(ledger[i])

NoneShadowed == \A i \in DOMAIN ledger : ~Shadowed(i)
-----------------------------------------------------------------------------
Init ==
  /\ ledger = <<>>
  /\ test = "running"
  /\ refused = {}

Declare(d) ==
  /\ test = "running"
  /\ ledger' = Append(ledger, [what |-> d, served |-> 0])
  /\ UNCHANGED <<test, refused>>

\* A value for no use, and a call that happens no times, end the test.
DeclareNothing(d) ==
  /\ test = "running"
  /\ d.count = 0 /\ d.kind # "parameter"
  /\ test' = "rejected"
  /\ refused' = {d}
  /\ UNCHANGED ledger

\* The value of a parameter is among those its check accepts.
Use(i) ==
  /\ test = "running"
  /\ Serves(i)
  /\ ledger[i].what.count # 0
  /\ ledger[i].what.kind = "parameter" => ledger[i].what.payload # {}
  /\ ledger' = [ledger EXCEPT ![i].served = @ + 1]
  /\ UNCHANGED <<test, refused>>

\* A parameter with an unacceptable value uses its check and ends the test.
UseWrongly(i, u) ==
  /\ test = "running"
  /\ u.kind = "parameter"
  /\ IsFor(i, u) /\ Serves(i)
  /\ ledger[i].what.count # 0
  /\ u.value \notin ledger[i].what.payload
  /\ ledger' = [ledger EXCEPT ![i].served = @ + 1]
  /\ test' = "rejected"
  /\ refused' = {u}

\* A use that no entry serves.
UseUndeclared(u) ==
  /\ test = "running"
  /\ \A i \in DOMAIN ledger :
       IsFor(i, u) /\ Serves(i) => ledger[i].what.count = 0
  /\ test' = "rejected"
  /\ refused' = {u}
  /\ UNCHANGED ledger

End ==
  /\ test = "running"
  /\ test' = IF AllMet /\ NoneShadowed THEN "passed" ELSE "leftover"
  /\ UNCHANGED <<ledger, refused>>

NextTest ==
  /\ test # "running"
  /\ test' = "running"
  /\ ledger' = <<>>
  /\ refused' = {}

Next ==
  \/ \E d \in Declarations : Declare(d) \/ DeclareNothing(d)
  \/ \E i \in DOMAIN ledger : Use(i) \/ \E u \in Uses : UseWrongly(i, u)
  \/ \E u \in Uses : UseUndeclared(u)
  \/ End
  \/ NextTest

Spec == Init /\ [][Next]_contract
-----------------------------------------------------------------------------
(* What the promise amounts to.                                            *)

\* Values of a key are used in the order of their declarations, each as often
\* as declared: nothing is used while an earlier declaration of its key is
\* still open, and no declaration is used more often than it allows
\* (get_symbol_value, _function_called).
UsedInOrder ==
  \A i, j \in DOMAIN ledger :
    /\ i < j
    /\ SameQueue(ledger[i], ledger[j])
    /\ ledger[j].served > 0
    => Exhausted(ledger[i])

NeverOverused ==
  \A i \in DOMAIN ledger :
    ledger[i].what.count >= 0 => ledger[i].served <= ledger[i].what.count

\* Calls happen in the declared order: when one was accepted, every expectation
\* declared before it has been met (_function_called).
CallsInOrder ==
  \A i, j \in DOMAIN ledger :
    /\ i < j
    /\ ledger[i].what.kind = "call"
    /\ ledger[j].what.kind = "call"
    /\ ledger[j].served > 0
    => Met(ledger[i])

\* A verdict has its reason: a test passes only when nothing was refused, all it
\* declared was met and nothing waits behind an unlimited entry; it fails with
\* leftovers only when one of these is missing, and otherwise because something
\* was refused (fail_if_leftover_values, exit_test).
VerdictHasReason ==
  /\ test = "passed" => refused = {} /\ AllMet /\ NoneShadowed
  /\ test = "leftover" => refused = {} /\ ~(AllMet /\ NoneShadowed)
  /\ test = "rejected" => refused # {}
=============================================================================
