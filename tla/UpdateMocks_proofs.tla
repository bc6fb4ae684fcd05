------------------------- MODULE UpdateMocks_proofs -------------------------
(* Theorems about UpdateMocks, for any number of projects and files, edits    *)
(* and runs.                                                                  *)
EXTENDS UpdateMocks, TLAPS

Walking == {"visiting", "asking", "copying", "writing"}

Source(c) == common[FileOf(c)]

\* No file has a time beyond the present second, nor the present second itself before
\* something happens in it, and equal times mean equal texts.
TimesInv ==
  /\ \A f \in Files : common[f].mtime <= clock /\ (~touched => common[f].mtime < clock)
  /\ \A c \in Copies : copy[c].mtime <= clock /\ (~touched => copy[c].mtime < clock)
  /\ \A c \in Copies : copy[c].mtime = Source(c).mtime => copy[c].text = Source(c).text

\* What the walk is still to do, or does at the moment.
Pending(c) == c \in todo \/ (c = at /\ pc \in {"asking", "copying", "writing"})

\* In a walk that nobody disturbs, all other copies have the text of their source.
WalkInv ==
  /\ pc = "done" => todo = {}
  /\ pc \in Walking \cup {"done"} /\ undisturbed =>
       \A c \in Copies : ~Pending(c) => copy[c].text = Source(c).text

MocksInv == TypeOK /\ TimesInv /\ WalkInv

LEMMA SourceType ==
  ASSUME TypeOK, NEW c \in Copies
  PROVE  /\ FileOf(c) \in Files /\ Source(c) \in File /\ copy[c] \in File
         /\ Source(c).mtime \in 0 .. MaxTime /\ copy[c].mtime \in 0 .. MaxTime
BY DEF TypeOK, Files, File, Source

LEMMA InitMocks == Init => MocksInv
<1> SUFFICES ASSUME Init
             PROVE  MocksInv
  OBVIOUS
<1>1. [text |-> 0, mtime |-> 0] \in File /\ 0 \in 0 .. MaxTime /\ 0 \in 0 .. MaxEdits
  BY UpdateAssumption DEF File
<1>2. TypeOK
  BY <1>1 DEF Init, TypeOK
<1>3. \A c \in Copies : FileOf(c) \in Files
  BY DEF Files
<1> QED
  BY <1>2, <1>3 DEF Init, MocksInv, TimesInv, WalkInv, Source, Walking

\* A second passes.
LEMMA TickKeeps == MocksInv /\ Tick => MocksInv'
<1> SUFFICES ASSUME MocksInv, Tick
             PROVE  MocksInv'
  OBVIOUS
<1>1. /\ clock' = clock + 1 /\ clock' \in 0 .. MaxTime /\ touched' = FALSE
      /\ UNCHANGED <<common, copy, texts, pc, todo, at, undisturbed>>
  BY UpdateAssumption DEF Tick, script, MocksInv, TypeOK
<1>2. TypeOK'
  BY <1>1 DEF MocksInv, TypeOK
<1>3. /\ \A f \in Files : common[f].mtime \in 0 .. MaxTime
      /\ \A c \in Copies : copy[c].mtime \in 0 .. MaxTime
      /\ clock \in 0 .. MaxTime
  BY DEF MocksInv, TypeOK, File
<1>4. TimesInv'
  <2>1. \A f \in Files : common'[f].mtime <= clock' /\ common'[f].mtime < clock'
    BY <1>1, <1>3 DEF MocksInv, TimesInv
  <2>2. \A c \in Copies : copy'[c].mtime <= clock' /\ copy'[c].mtime < clock'
    BY <1>1, <1>3 DEF MocksInv, TimesInv
  <2> QED
    BY <1>1, <2>1, <2>2 DEF MocksInv, TimesInv, Source
<1> QED
  BY <1>1, <1>2, <1>4 DEF MocksInv, WalkInv, Pending, Source

\* One file gets a new text, and a time that no other file has.
LEMMA EditKeeps == MocksInv /\ Edit => MocksInv'
<1> SUFFICES ASSUME MocksInv, Edit
             PROVE  MocksInv'
  OBVIOUS
<1>1. /\ ~touched /\ touched' = TRUE /\ undisturbed' = FALSE /\ clock' = clock
      /\ texts' \in 0 .. MaxEdits /\ UNCHANGED <<pc, todo, at>>
  BY UpdateAssumption DEF Edit, HasTime, script, MocksInv, TypeOK
<1>2. Edited \in File /\ Edited.mtime = clock
  BY <1>1 DEF Edited, File, MocksInv, TypeOK
<1>3. clock \in 0 .. MaxTime
  BY DEF MocksInv, TypeOK
<1>4. ASSUME NEW f \in Files, common' = [common EXCEPT ![f] = Edited], UNCHANGED copy
      PROVE  TypeOK' /\ TimesInv'
  <2>1. TypeOK'
    BY <1>1, <1>2, <1>4 DEF MocksInv, TypeOK
  <2>2. /\ common'[f] = Edited
        /\ \A g \in Files : g # f => common'[g] = common[g]
    BY <1>4 DEF MocksInv, TypeOK
  <2>3. \A c \in Copies : FileOf(c) = f => copy'[c].mtime # Source(c)'.mtime
    BY <1>1, <1>2, <1>4, <2>2, SourceType DEF MocksInv, TimesInv, Source
  <2>4. \A c \in Copies : FileOf(c) # f => Source(c)' = Source(c)
    BY <2>2 DEF Source, Files
  <2>5. \A c \in Copies : copy'[c].mtime = Source(c)'.mtime => copy'[c].text = Source(c)'.text
    BY <1>4, <2>3, <2>4 DEF MocksInv, TimesInv
  <2>6. \A g \in Files : common'[g].mtime <= clock'
    BY <1>1, <1>2, <1>3, <2>2 DEF MocksInv, TimesInv
  <2>7. \A c \in Copies : copy'[c].mtime <= clock'
    BY <1>1, <1>4 DEF MocksInv, TimesInv
  <2> QED
    BY <1>1, <2>1, <2>5, <2>6, <2>7 DEF TimesInv
<1>5. ASSUME NEW d \in Copies, copy' = [copy EXCEPT ![d] = Edited], UNCHANGED common
      PROVE  TypeOK' /\ TimesInv'
  <2>1. TypeOK'
    BY <1>1, <1>2, <1>5 DEF MocksInv, TypeOK
  <2>2. /\ copy'[d] = Edited
        /\ \A c \in Copies : c # d => copy'[c] = copy[c]
        /\ \A c \in Copies : Source(c)' = Source(c)
    BY <1>5 DEF MocksInv, TypeOK, Source
  <2>3. copy'[d].mtime # Source(d)'.mtime
    BY <1>1, <1>2, <2>2, SourceType DEF MocksInv, TimesInv, Source
  <2>4. \A c \in Copies : copy'[c].mtime = Source(c)'.mtime => copy'[c].text = Source(c)'.text
    BY <2>2, <2>3 DEF MocksInv, TimesInv
  <2>5. \A c \in Copies : copy'[c].mtime <= clock'
    BY <1>1, <1>2, <1>3, <2>2 DEF MocksInv, TimesInv
  <2>6. \A g \in Files : common'[g].mtime <= clock'
    BY <1>1, <1>5 DEF MocksInv, TimesInv
  <2> QED
    BY <1>1, <2>1, <2>4, <2>5, <2>6 DEF TimesInv
<1>6. TypeOK' /\ TimesInv'
  BY <1>4, <1>5 DEF Edit
<1> QED
  BY <1>1, <1>6 DEF MocksInv, WalkInv

\* The steps of a walk that write no file.
LEMMA WalkKeepsTimes ==
  ASSUME MocksInv, UNCHANGED <<common, copy, clock>>, touched' = touched \/ touched' = TRUE
  PROVE  TimesInv'
<1>1. \A c \in Copies : Source(c)' = Source(c)
  BY DEF Source
<1>2. ~touched' => ~touched
  OBVIOUS
<1> QED
  BY <1>1, <1>2 DEF MocksInv, TimesInv

LEMMA ScriptKeeps ==
  ASSUME MocksInv, Backslash,
         Interrupt \/ Start \/ Visit \/ (\E yes \in BOOLEAN : Answer(yes)) \/ Finish
  PROVE  MocksInv'
<1>1. /\ UNCHANGED <<common, copy, clock, texts>>
      /\ touched' = touched \/ touched' = TRUE
      /\ touched' \in BOOLEAN
  BY DEF Interrupt, Start, Visit, VisitOf, Answer, Finish, MocksInv, TypeOK
<1>2. TimesInv'
  BY <1>1, WalkKeepsTimes
<1>3. \A c \in Copies : Source(c)' = Source(c)
  BY <1>1 DEF Source
<1>4. CASE Interrupt
  <2>1. TypeOK'
    BY <1>1, <1>4 DEF Interrupt, MocksInv, TypeOK
  <2> QED
    BY <1>2, <1>4, <2>1 DEF Interrupt, MocksInv, WalkInv
<1>5. CASE Start
  <2>1. TypeOK'
    BY <1>1, <1>5 DEF Start, Found, MocksInv, TypeOK
  <2>2. pc' = "visiting" /\ \A c \in Copies : Pending(c)'
    BY <1>5 DEF Start, Found, Pending
  <2> QED
    BY <1>2, <2>1, <2>2 DEF MocksInv, WalkInv
<1>6. CASE Visit
  <2>1. PICK d \in todo : todo' = todo \ {d} /\ VisitOf(d)
    BY <1>6 DEF Visit
  <2>2. /\ pc = "visiting" /\ d \in Copies /\ at' = d
        /\ pc' \in {"visiting", "asking", "copying"}
        /\ pc' = "visiting" => UpToDate(d)
        /\ undisturbed' = undisturbed
    BY <1>6, <2>1 DEF Visit, VisitOf, MocksInv, TypeOK
  <2>3. TypeOK'
    BY <1>1, <2>1, <2>2 DEF MocksInv, TypeOK
  <2>4. ASSUME NEW c \in Copies, ~Pending(c)', undisturbed
        PROVE  copy[c].text = Source(c).text
    <3>1. CASE c = d
      BY <2>2, <2>4, <3>1 DEF Pending, UpToDate, MocksInv, TimesInv, Source
    <3>2. CASE c # d
      BY <2>1, <2>2, <2>4, <3>2 DEF Pending, MocksInv, WalkInv, Walking
    <3> QED
      BY <3>1, <3>2
  <2> QED
    BY <1>1, <1>2, <1>3, <2>2, <2>3, <2>4 DEF MocksInv, WalkInv
<1>7. ASSUME NEW yes \in BOOLEAN, Answer(yes)
      PROVE  MocksInv'
  <2>1. TypeOK'
    BY <1>1, <1>7 DEF Answer, MocksInv, TypeOK
  <2>2. /\ pc = "asking" /\ UNCHANGED <<todo, at>>
        /\ pc' \in {"copying", "visiting"}
        /\ undisturbed' => undisturbed /\ pc' = "copying"
    BY <1>7 DEF Answer
  <2>3. undisturbed' => \A c \in Copies : Pending(c)' <=> Pending(c)
    BY <2>2 DEF Pending
  <2> QED
    BY <1>1, <1>2, <1>3, <2>1, <2>2, <2>3 DEF MocksInv, WalkInv, Walking
<1>8. CASE Finish
  <2>1. TypeOK'
    BY <1>1, <1>8 DEF Finish, MocksInv, TypeOK
  <2>2. /\ pc = "visiting" /\ pc' = "done" /\ undisturbed' = undisturbed
        /\ todo' = {}
        /\ \A c \in Copies : Pending(c)' <=> Pending(c)
    BY <1>8 DEF Finish, Pending
  <2> QED
    BY <1>1, <1>2, <1>3, <2>1, <2>2 DEF MocksInv, WalkInv, Walking
<1> QED
  BY <1>4, <1>5, <1>6, <1>7, <1>8

\* While a copy is written it has the present second, which its source does not have.
LEMMA BeginCopyKeeps == MocksInv /\ BeginCopy => MocksInv'
<1> SUFFICES ASSUME MocksInv, BeginCopy
             PROVE  MocksInv'
  OBVIOUS
<1>1. /\ pc = "copying" /\ pc' = "writing" /\ touched' = TRUE
      /\ UNCHANGED <<common, clock, texts, todo, at, undisturbed>>
      /\ at \in Copies /\ clock \in 0 .. MaxTime
      /\ Source(at).mtime < clock
  BY DEF BeginCopy, MocksInv, TypeOK, Source
<1>2. PICK text \in {Partial, Source(at).text} :
         copy' = [copy EXCEPT ![at] = [text |-> text, mtime |-> clock]]
  BY DEF BeginCopy, Source
<1>3. [text |-> text, mtime |-> clock] \in File
  BY <1>1, <1>2, SourceType DEF File, MocksInv
<1>4. TypeOK'
  BY <1>1, <1>2, <1>3 DEF MocksInv, TypeOK
<1>5. /\ copy'[at].mtime = clock
      /\ \A c \in Copies : c # at => copy'[c] = copy[c]
      /\ \A c \in Copies : Source(c)' = Source(c)
  BY <1>1, <1>2 DEF MocksInv, TypeOK, Source
<1>6. copy'[at].mtime # Source(at).mtime
  BY <1>1, <1>5, SourceType DEF MocksInv
<1>7. TimesInv'
  <2>1. \A c \in Copies : copy'[c].mtime <= clock'
    BY <1>1, <1>5 DEF MocksInv, TimesInv
  <2>2. \A c \in Copies : copy'[c].mtime = Source(c)'.mtime => copy'[c].text = Source(c)'.text
    <3>1. \A c \in Copies : copy[c].mtime = Source(c).mtime => copy[c].text = Source(c).text
      BY DEF MocksInv, TimesInv
    <3>2. \A c \in Copies : copy'[c].mtime = Source(c).mtime => copy'[c].text = Source(c).text
      BY <1>5, <1>6, <3>1
    <3> QED
      BY <1>5, <3>2
  <2>3. \A f \in Files : common'[f].mtime <= clock'
    BY <1>1 DEF MocksInv, TimesInv
  <2> QED
    BY <1>1, <2>1, <2>2, <2>3 DEF TimesInv
<1>8. \A c \in Copies : ~Pending(c)' => c # at /\ ~Pending(c)
  BY <1>1 DEF Pending
<1> QED
  BY <1>1, <1>4, <1>5, <1>7, <1>8 DEF MocksInv, WalkInv, Walking

\* A copy that is written becomes its source.
LEMMA EndCopyKeeps == MocksInv /\ EndCopy => MocksInv'
<1> SUFFICES ASSUME MocksInv, EndCopy
             PROVE  MocksInv'
  OBVIOUS
<1>1. /\ pc = "writing" /\ pc' = "visiting"
      /\ UNCHANGED <<common, clock, touched, texts, todo, at, undisturbed>>
      /\ at \in Copies /\ copy' = [copy EXCEPT ![at] = Source(at)]
  BY DEF EndCopy, MocksInv, TypeOK, Source
<1>2. TypeOK'
  BY <1>1, SourceType DEF MocksInv, TypeOK
<1>3. /\ copy'[at] = Source(at)
      /\ \A c \in Copies : c # at => copy'[c] = copy[c]
      /\ \A c \in Copies : Source(c)' = Source(c)
      /\ FileOf(at) \in Files
  BY <1>1 DEF MocksInv, TypeOK, Source, Files
<1>4. TimesInv'
  BY <1>1, <1>3 DEF MocksInv, TimesInv, Source
<1>5. \A c \in Copies : ~Pending(c)' => c = at \/ ~Pending(c)
  BY <1>1 DEF Pending
<1> QED
  BY <1>1, <1>2, <1>3, <1>4, <1>5 DEF MocksInv, WalkInv, Walking

LEMMA MocksInvHolds ==
  ASSUME Backslash
  PROVE  Spec => []MocksInv
<1>1. MocksInv /\ [Next]_vars => MocksInv'
  <2> SUFFICES ASSUME MocksInv, [Next]_vars
               PROVE  MocksInv'
    OBVIOUS
  <2>1. CASE UNCHANGED vars
    BY <2>1 DEF vars, script, MocksInv, TypeOK, TimesInv, WalkInv, Pending, Source
  <2> QED
    BY <2>1, TickKeeps, EditKeeps, ScriptKeeps, BeginCopyKeeps, EndCopyKeeps DEF Next
<1> QED
  BY InitMocks, <1>1, PTL DEF Spec

\* Where the walk finds the directories of mocks, files and walk keep their types and no
\* copy is visited twice (update_mocks.py).
THEOREM MocksTypeCorrect ==
  ASSUME Backslash
  PROVE  Spec => []TypeOK
<1>1. MocksInv => TypeOK
  BY DEF MocksInv
<1> QED
  BY <1>1, MocksInvHolds, PTL

\* Where the walk finds the directories of mocks, a run that nobody disturbs makes every
\* copy the common file, for any number of copies, edits and interrupted runs before it
\* (README.md on update_mocks.py).
THEOREM PropagatedHolds ==
  ASSUME Backslash
  PROVE  Spec => []Propagated
<1>1. MocksInv => Propagated
  BY DEF MocksInv, TypeOK, WalkInv, Propagated, Pending, Source
<1> QED
  BY <1>1, MocksInvHolds, PTL
=============================================================================
