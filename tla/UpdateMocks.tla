---------------------------- MODULE UpdateMocks ----------------------------
(***************************************************************************)
(* update_mocks.py: copies the common mock headers over the copies that    *)
(* the unit test projects have, with people editing both sides, answering  *)
(* its question and interrupting it.                                       *)
(*                                                                         *)
(* A file is its text and the second of its last modification.             *)
(***************************************************************************)
EXTENDS Naturals

CONSTANTS Copies,    (* the copies: pairs of a project and a file           *)
          FileOf(_), (* the common file of a copy                           *)
          Partial,   (* the text of a file that was written half-way        *)
          Backslash, (* the paths that os.walk returns have backslashes     *)
          MaxTime,   (* bound: seconds                                      *)
          MaxEdits   (* bound: edits                                        *)

ASSUME UpdateAssumption ==
  /\ Backslash \in BOOLEAN
  /\ MaxTime \in Nat /\ MaxEdits \in Nat
  /\ Partial \notin Nat

VARIABLES common,    \* the files of unit_test_mocks
          copy,      \* the files of the projects' mocks directories
          clock,     \* the present second
          touched,   \* history: something was edited or run in this second
          texts,     \* texts written so far
          pc,        \* "idle", "visiting", "asking", "copying", "writing" or "done"
          todo,      \* copies that the walk has still to visit
          at,        \* the copy that is asked about or written
          undisturbed \* history: nobody edited, declined or interrupted

vars == <<common, copy, clock, touched, texts, pc, todo, at, undisturbed>>
script == <<pc, todo, at>>

Files == {FileOf(c) : c \in Copies}

File == [text : Nat \cup {Partial}, mtime : 0 .. MaxTime]

\* Files and the walk have their types, and no copy is visited twice in a walk.
TypeOK ==
  /\ common \in [Files -> File]
  /\ copy \in [Copies -> File]
  /\ clock \in 0 .. MaxTime /\ texts \in 0 .. MaxEdits
  /\ touched \in BOOLEAN /\ undisturbed \in BOOLEAN
  /\ pc \in {"idle", "visiting", "asking", "copying", "writing", "done"}
  /\ todo \subseteq Copies
  /\ at \in Copies
  /\ pc \in {"asking", "copying", "writing"} => at \notin todo

Init ==
  /\ common = [f \in Files |-> [text |-> 0, mtime |-> 0]]
  /\ copy = [c \in Copies |-> [text |-> 0, mtime |-> 0]]
  /\ clock = 0 /\ touched = TRUE /\ texts = 0
  /\ pc = "idle" /\ todo = {} /\ at \in Copies
  /\ undisturbed = FALSE
-----------------------------------------------------------------------------
(* People.                                                                 *)

Tick ==
  /\ clock < MaxTime
  /\ clock' = clock + 1
  /\ touched' = FALSE
  /\ UNCHANGED <<common, copy, texts, script, undisturbed>>

\* Times of modification are told apart by the second only, so a second is good
\* for one edit, and not for an edit and a run.
HasTime == ~touched

Edited == [text |-> texts', mtime |-> clock]

Edit ==
  /\ HasTime
  /\ texts < MaxEdits
  /\ texts' = texts + 1
  /\ touched' = TRUE
  /\ undisturbed' = FALSE
  /\ \/ /\ \E f \in Files : common' = [common EXCEPT ![f] = Edited]
        /\ UNCHANGED copy
     \/ /\ \E c \in Copies : copy' = [copy EXCEPT ![c] = Edited]
        /\ UNCHANGED common
  /\ UNCHANGED <<clock, script>>

Interrupt ==
  /\ pc \in {"visiting", "asking", "copying", "writing"}
  /\ pc' = "idle"
  /\ undisturbed' = FALSE
  /\ UNCHANGED <<common, copy, clock, touched, texts, todo, at>>
-----------------------------------------------------------------------------
(* The script.                                                             *)

\* Only a path with a backslash before "mocks" is taken for a directory of
\* mocks.
Found == IF Backslash THEN Copies ELSE {}

Start ==
  /\ pc \in {"idle", "done"}
  /\ HasTime
  /\ touched' = TRUE
  /\ pc' = "visiting"
  /\ todo' = Found
  /\ undisturbed' = TRUE
  /\ UNCHANGED <<common, copy, clock, texts, at>>

\* (mutant of UpToDate: a copy that is newer is left alone)
NotOlder(c) == copy[c].mtime >= common[FileOf(c)].mtime

UpToDate(c) == copy[c].mtime = common[FileOf(c)].mtime

VisitOf(c) ==
  /\ at' = c
  /\ pc' = IF UpToDate(c) THEN "visiting"
           ELSE IF copy[c].mtime > common[FileOf(c)].mtime THEN "asking"
           ELSE "copying"
  /\ UNCHANGED <<common, copy, clock, touched, texts, undisturbed>>

\* (mutant of Visit: the walk stays at a copy that is not up to date)
VisitAgain ==
  /\ pc = "visiting"
  /\ \E c \in todo :
       /\ todo' = IF UpToDate(c) THEN todo \ {c} ELSE todo
       /\ VisitOf(c)

Visit ==
  /\ pc = "visiting"
  /\ \E c \in todo :
       /\ todo' = todo \ {c}
       /\ VisitOf(c)

Answer(yes) ==
  /\ pc = "asking"
  /\ pc' = IF yes THEN "copying" ELSE "visiting"
  /\ undisturbed' = (undisturbed /\ yes)
  /\ UNCHANGED <<common, copy, clock, touched, texts, todo, at>>

\* copy2 writes the text, some of it or all, and then takes over the time of the
\* source, which was not edited in this very second.
BeginCopy ==
  /\ pc = "copying"
  /\ common[FileOf(at)].mtime < clock
  /\ \E text \in {Partial, common[FileOf(at)].text} :
       copy' = [copy EXCEPT ![at] = [text |-> text, mtime |-> clock]]
  /\ touched' = TRUE
  /\ pc' = "writing"
  /\ UNCHANGED <<common, clock, texts, todo, at, undisturbed>>

EndCopy ==
  /\ pc = "writing"
  /\ copy' = [copy EXCEPT ![at] = common[FileOf(at)]]
  /\ pc' = "visiting"
  /\ UNCHANGED <<common, clock, touched, texts, todo, at, undisturbed>>

Finish ==
  /\ pc = "visiting"
  /\ todo = {}
  /\ pc' = "done"
  /\ UNCHANGED <<common, copy, clock, touched, texts, todo, at, undisturbed>>

Next ==
  \/ Tick \/ Edit \/ Interrupt
  \/ Start \/ Visit \/ \E yes \in BOOLEAN : Answer(yes)
  \/ BeginCopy \/ EndCopy \/ Finish

Spec == Init /\ [][Next]_vars
-----------------------------------------------------------------------------
\* README.md on update_mocks.py: it propagates any change of a mock to all unit
\* test projects, so after a run that nobody disturbed every copy is the common
\* file; copies left half-written by an earlier run are no exception.
Propagated ==
  pc = "done" /\ undisturbed =>
    \A c \in Copies : copy[c].text = common[FileOf(c)].text
=============================================================================
