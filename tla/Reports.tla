------------------------------- MODULE Reports -------------------------------
(***************************************************************************)
(* What cmocka tells of the groups it runs: in which of the four formats,  *)
(* which lines of each, and into which file the XML report goes.  Programs *)
(* run one after another; the files of their reports stay.  How tests and  *)
(* fixtures end is chosen freely here, TestRunner says how they come to it.*)
(***************************************************************************)
EXTENDS NameFilter, Integers, FiniteSets, SequencesExt

CONSTANTS
  Groups,         (* groups that programs have: their name and names of tests *)
  Filters,        (* patterns that they set, NoFilter among them              *)
  Outputs,        (* sets of formats that they set                            *)
  Environments,   (* CMOCKA_MESSAGE_OUTPUT and CMOCKA_XML_FILE                *)
  BufferSize,     (* the size of buf for the name of the file                 *)
  MaxProcesses, MaxGroups   (* bounds: programs, groups of all programs       *)

ASSUME BoundsAssumption == BufferSize \in Nat /\ MaxProcesses \in Nat /\ MaxGroups \in Nat

VARIABLES
  phase,          \* what the program is at: see Phases
  process,        \* number of the program
  groups,         \* number of the group, of all programs
  environment,    \* its environment
  test_filter, skip_filter, global_msg_output, env_checked,
  version_printed, xml_printed, file_append,
  group,          \* the group: its name and tests, statuses and counters
  lines,          \* lines of the group in each format
  buf,            \* buf of cmprintf_group_finish_xml
  streams,        \* XML on stdout and stderr: headers and test suites
  files,          \* XML files: likewise
  chosen, late    \* history: formats set last, and whether after the first look at
                  \* the environment

statics == <<env_checked, version_printed, xml_printed, file_append>>
vars == <<phase, process, groups, environment, test_filter, skip_filter, global_msg_output,
          statics, group, lines, buf, streams, files, chosen, late>>

Formats  == {"STANDARD", "SUBUNIT", "TAP", "XML"}
Textual  == Formats \ {"XML"}
Statuses == {"PASSED", "SKIPPED", "FAILED", "ERROR"}
Phases   == {"off", "idle", "setup", "tests", "teardown", "naming", "writing", "over"}

\* Environment variables: a text of cm_get_output that is none, empty or too long; no file.
Illegal == {"ILLEGAL"}
Unset   == <<"unset">>

\* Names are sequences of characters; that of the file fits into buf.
ASSUME ReportsAssumption ==
  /\ Groups \subseteq [name : Seq(STRING), tests : Seq(Seq(STRING))]
  /\ NoFilter \in Filters /\ Filters \subseteq Seq(STRING)
  /\ Outputs \subseteq SUBSET Formats
  /\ Environments \subseteq [output : (SUBSET Formats) \cup {Illegal}, file : Seq(STRING)]
  /\ \A e \in Environments : Len(e.file) < BufferSize

NoGroup  == [name |-> <<>>, tests |-> <<>>, statuses |-> <<>>, setup |-> TRUE,
             teardown |-> TRUE, total |-> [s \in Statuses |-> 0]]
NoLines  == [f \in Formats |-> <<>>]
NoTexts  == [stdout |-> <<>>, stderr |-> <<>>]

result == group.total["FAILED"] + group.total["ERROR"]

TypeOK ==
  /\ phase \in Phases
  /\ process \in 0 .. MaxProcesses /\ groups \in 0 .. MaxGroups
  /\ environment \in Environments
  /\ test_filter \in Filters /\ skip_filter \in Filters
  /\ global_msg_output \subseteq Formats /\ chosen \subseteq Formats
  /\ {env_checked, version_printed, xml_printed, file_append, late} \subseteq BOOLEAN
  /\ \A s \in Statuses : group.total[s] \in 0 .. Len(group.tests) + 1
  /\ Len(buf) < BufferSize          \* with its last character '\0'
  /\ DOMAIN lines = Formats /\ DOMAIN streams = {"stdout", "stderr"}

Init ==
  /\ phase = "off" /\ process = 0 /\ groups = 0
  /\ environment \in Environments
  /\ test_filter = NoFilter /\ skip_filter = NoFilter
  /\ global_msg_output = {"STANDARD"} /\ chosen = {"STANDARD"} /\ late = FALSE
  /\ env_checked = FALSE /\ version_printed = FALSE
  /\ xml_printed = FALSE /\ file_append = FALSE
  /\ group = NoGroup /\ lines = NoLines /\ buf = <<>>
  /\ streams = NoTexts /\ files = <<>>
-----------------------------------------------------------------------------
(* Programs.                                                               *)

StartProgram(e) ==
  /\ phase = "off" /\ process < MaxProcesses
  /\ phase' = "idle" /\ process' = process + 1
  /\ environment' = e
  /\ test_filter' = NoFilter /\ skip_filter' = NoFilter
  /\ global_msg_output' = {"STANDARD"} /\ chosen' = {"STANDARD"} /\ late' = FALSE
  /\ env_checked' = FALSE /\ version_printed' = FALSE
  /\ xml_printed' = FALSE /\ file_append' = FALSE
  /\ streams' = NoTexts
  /\ UNCHANGED <<groups, group, lines, buf, files>>

EndProgram ==
  /\ phase = "idle"
  /\ phase' = "off"
  /\ UNCHANGED <<process, groups, environment, test_filter, skip_filter, global_msg_output,
                 statics, group, lines, buf, streams, files, chosen, late>>

\* Somebody removes the report of an earlier program.
RemoveFile(name) ==
  /\ phase = "off" /\ name \in DOMAIN files
  /\ files' = [n \in DOMAIN files \ {name} |-> files[n]]
  /\ UNCHANGED <<phase, process, groups, environment, test_filter, skip_filter,
                 global_msg_output, statics, group, lines, buf, streams, chosen, late>>

cmocka_set_test_filter(pattern) ==
  /\ phase = "idle" /\ groups < MaxGroups
  /\ test_filter' = pattern
  /\ UNCHANGED <<phase, process, groups, environment, skip_filter, global_msg_output,
                 statics, group, lines, buf, streams, files, chosen, late>>

cmocka_set_skip_filter(pattern) ==
  /\ phase = "idle" /\ groups < MaxGroups
  /\ skip_filter' = pattern
  /\ UNCHANGED <<phase, process, groups, environment, test_filter, global_msg_output,
                 statics, group, lines, buf, streams, files, chosen, late>>

cmocka_set_message_output(output) ==
  /\ phase = "idle" /\ groups < MaxGroups
  /\ global_msg_output' = output
  /\ chosen' = output
  /\ late' = (late \/ env_checked)
  /\ UNCHANGED <<phase, process, groups, environment, test_filter, skip_filter, statics,
                 group, lines, buf, streams, files>>
-----------------------------------------------------------------------------
(* The formats.                                                            *)

\* (mutant of Output: the environment counts even when it names no format)
OutputOfEnvironment ==
  IF ~env_checked /\ environment.output # Illegal THEN environment.output ELSE global_msg_output

\* The environment is looked at until it has a legal text, and counts if that names a
\* format.
Output ==
  IF ~env_checked /\ environment.output \notin {Illegal, {}} THEN environment.output
  ELSE global_msg_output

cm_get_output ==
  /\ global_msg_output' = Output
  /\ env_checked' = (env_checked \/ environment.output # Illegal)

\* Lines are added to those of a format.
Add(format, more, l) ==
  IF format \in Output THEN [l EXCEPT ![format] = @ \o more] ELSE l

\* TAP and subunit number or name the tests in the same way; TAP has no line for the
\* start of a test, and XML has none at all.
cmprintf(type, number, l) ==
  LET line == <<[type |-> type, number |-> number]>>
      both == Add("STANDARD", line, Add("SUBUNIT", line, l))
  IN IF type = "START" THEN both ELSE Add("TAP", line, both)

\* Tests with a status, as they are listed at the end.
Listed(status) ==
  Kept([i \in DOMAIN group.statuses |-> [type |-> "LISTED", number |-> i]],
       {i \in DOMAIN group.statuses : group.statuses[i] = status})

cmprintf_group_start(n, l) ==
  LET plan == <<[type |-> "PLAN", number |-> n]>>
      version == IF version_printed THEN <<>> ELSE <<[type |-> "VERSION", number |-> 13]>>
  IN Add("STANDARD", plan, Add("TAP", version \o plan, l))

\* The list of failures is left out when there are only errors.
cmprintf_group_finish(l) ==
  LET ok == group.total["PASSED"] + group.total["SKIPPED"] = Len(group.statuses)
      status == <<[type |-> IF ok THEN "ALL OK" ELSE "NOT ALL OK", number |-> 0]>>
      passed == <<[type |-> "PASSED", number |-> group.total["PASSED"]]>>
  IN Add("STANDARD", passed \o Listed("SKIPPED") \o Listed("FAILED"), Add("TAP", status, l))
-----------------------------------------------------------------------------
(* A group.                                                                *)

InGroup == <<process, environment, test_filter, skip_filter, chosen, late>>

BeginGroup(g) ==
  /\ phase = "idle" /\ groups < MaxGroups
  /\ phase' = "setup"
  /\ groups' = groups + 1
  /\ group' = [NoGroup EXCEPT !.name = g.name, !.tests = Selected(g.tests, test_filter, skip_filter)]
  /\ cm_get_output
  /\ lines' = cmprintf_group_start(Len(group'.tests), NoLines)
  /\ version_printed' = (version_printed \/ "TAP" \in Output)
  /\ UNCHANGED <<InGroup, xml_printed, file_append, buf, streams, files>>

\* There is a setup that fails, or not.
GroupSetup ==
  /\ phase = "setup"
  /\ \/ /\ phase' = "tests" /\ UNCHANGED <<group, lines>>
     \/ /\ phase' = "teardown"
        /\ group' = [group EXCEPT !.setup = FALSE, !.total["ERROR"] = @ + 1]
        /\ lines' = cmprintf("ERROR", 0, lines)
  /\ UNCHANGED <<InGroup, groups, global_msg_output, statics, buf, streams, files>>

Verdict(status) ==
  CASE status = "PASSED"  -> "SUCCESS"
    [] status = "SKIPPED" -> "SKIPPED"
    [] status = "FAILED"  -> "FAILURE"
    [] status = "ERROR"   -> "ERROR"

\* (mutant of Counted: what could not be run is not counted)
CountedIfRun(status) ==
  IF status = "ERROR" THEN group.total ELSE [group.total EXCEPT ![status] = @ + 1]

Counted(status) == [group.total EXCEPT ![status] = @ + 1]

RunTest(status) ==
  LET i == Len(group.statuses) + 1 IN
  /\ phase = "tests"
  /\ i <= Len(group.tests)
  /\ group' = [group EXCEPT !.statuses = Append(@, status), !.total = Counted(status)]
  /\ lines' = cmprintf(Verdict(status), i, cmprintf("START", i, lines))
  /\ UNCHANGED <<phase, InGroup, groups, global_msg_output, statics, buf, streams, files>>

\* All tests are run, and there is a teardown that fails, or not.
FinishGroup(torn) ==
  /\ phase = "teardown" \/ (phase = "tests" /\ Len(group.statuses) = Len(group.tests))
  /\ group' = [group EXCEPT !.teardown = torn]
  /\ lines' = cmprintf_group_finish(IF torn THEN lines ELSE cmprintf("ERROR", 0, lines))
  /\ phase' = IF "XML" \notin Output THEN "over"
              ELSE IF environment.file = Unset THEN "writing" ELSE "naming"
  /\ buf' = environment.file
  /\ UNCHANGED <<InGroup, groups, global_msg_output, statics, streams, files>>
-----------------------------------------------------------------------------
(* The XML report.                                                         *)

pattern == <<"%", "g">>

Longer(a, b) == IF Len(a) > Len(b) THEN Len(a) ELSE Len(b)

HasPattern(name) == pattern \in SubSeqs(name)

\* The next name of the file, and whether it is the last.
Becomes(name) == [name |-> name, last |-> ~HasPattern(name)]

\* (mutant of c_strreplace: the name is cut to the size of the buffer)
CutReplacement ==
  LET name == ReplaceFirstSubSeq(group.name, pattern, buf)
  IN Becomes([i \in {k \in DOMAIN name : k < BufferSize} |-> name[i]])

\* (mutant of c_strreplace: only what is in the buffer is measured)
UnmeasuredReplacement ==
  IF BufferSize <= Len(buf) + 1 THEN [name |-> environment.file, last |-> TRUE]
  ELSE Becomes(ReplaceFirstSubSeq(group.name, pattern, buf))

\* The group's name is put in, or the name is that of the environment if there is no room.
c_strreplace ==
  IF BufferSize <= Len(buf) + Longer(pattern, group.name) + 1
  THEN [name |-> environment.file, last |-> TRUE]
  ELSE Becomes(ReplaceFirstSubSeq(group.name, pattern, buf))

NameFile ==
  LET next == IF HasPattern(buf) THEN c_strreplace ELSE Becomes(buf) IN
  /\ phase = "naming"
  /\ buf' = next.name
  /\ phase' = IF next.last THEN "writing" ELSE phase
  /\ UNCHANGED <<InGroup, groups, global_msg_output, statics, group, lines, streams, files>>

Header == [type |-> "HEADER", process |-> process]

Suite == [type |-> "SUITE", process |-> process, group |-> groups]

Counters ==
  [type |-> "TESTSUITE", tests |-> Len(group.statuses), failures |-> group.total["FAILED"],
   errors |-> group.total["ERROR"], skipped |-> group.total["SKIPPED"]]

\* (mutant of Printed: a header on stdout or stderr is not remembered)
PrintedIfAppended(header, opened, existed) == xml_printed \/ (opened /\ existed)

\* Whether a header will count as printed from now on.
Printed(header, opened, existed) ==
  xml_printed \/ (opened /\ existed) \/ (header /\ ~opened)

\* A file is opened if it does not exist, or if a report of this program has gone to a
\* new file; without a file the report goes to stderr.
WriteReport(canWrite) ==
  LET existed == buf \in DOMAIN files
      opened  == environment.file # Unset /\ canWrite /\ (existed => file_append)
      header  == ~(xml_printed \/ (opened /\ existed))
      text    == IF header THEN <<Header, Suite>> ELSE <<Suite>>
      stream  == IF environment.file = Unset THEN "stdout" ELSE "stderr"
  IN
  /\ phase = "writing"
  /\ file_append' = (file_append \/ (opened /\ ~existed))
  /\ xml_printed' = Printed(header, opened, existed)
  /\ IF opened
     THEN /\ files' = [name \in DOMAIN files \cup {buf} |->
                        IF name # buf THEN files[name]
                        ELSE IF existed THEN files[name] \o text ELSE text]
          /\ UNCHANGED streams
     ELSE streams' = [streams EXCEPT ![stream] = @ \o text] /\ UNCHANGED files
  /\ lines' = [lines EXCEPT !["XML"] = <<Counters>>]
  /\ phase' = "over"
  /\ UNCHANGED <<InGroup, groups, global_msg_output, env_checked, version_printed, group, buf>>

\* cmocka_run_group_tests returns the result.
Return ==
  /\ phase = "over"
  /\ phase' = "idle"
  /\ group' = NoGroup /\ lines' = NoLines /\ buf' = <<>>
  /\ UNCHANGED <<InGroup, groups, global_msg_output, statics, streams, files>>
-----------------------------------------------------------------------------
GroupStep ==
  \/ GroupSetup
  \/ \E status \in Statuses : RunTest(status)
  \/ \E torn \in BOOLEAN : FinishGroup(torn)
  \/ NameFile
  \/ \E canWrite \in BOOLEAN : WriteReport(canWrite)
  \/ Return

Next ==
  \/ \E e \in Environments : StartProgram(e)
  \/ EndProgram
  \/ \E name \in DOMAIN files : RemoveFile(name)
  \/ \E p \in Filters : cmocka_set_test_filter(p) \/ cmocka_set_skip_filter(p)
  \/ \E output \in Outputs : cmocka_set_message_output(output)
  \/ \E g \in Groups : BeginGroup(g)
  \/ GroupStep

Spec == Init /\ [][Next]_vars /\ WF_vars(GroupStep)
-----------------------------------------------------------------------------
\* The formats of a group are those that the environment names, else those that the
\* program has set last; but what the program sets after the environment was looked at
\* counts whatever the environment names (cmocka_set_message_output, cm_get_output).
\* cmocka.h:2446 says that the environment overwrites the program; the code looks at it
\* only until it has found legal formats there.
FormatsFollow ==
  phase \notin {"off", "idle"} =>
    global_msg_output =
      IF late \/ environment.output \in {Illegal, {}} THEN chosen ELSE environment.output

\* With filters in which no star follows a star, the tests of a group that are run, in
\* their order, are those that match the one filter and not the other, by what cmocka.h
\* says of the wildcards (c_strmatch, cmocka_set_test_filter, cmocka_set_skip_filter).
TestsAreSelected ==
  phase = "setup" /\ Plain(test_filter) /\ Plain(skip_filter) =>
    \E g \in Groups :
      /\ g.name = group.name
      /\ \E place \in [DOMAIN group.tests -> DOMAIN g.tests] :
           /\ \A i, j \in DOMAIN place : i < j => place[i] < place[j]
           /\ \A i \in DOMAIN place : group.tests[i] = g.tests[place[i]]
           /\ Range(place) = {k \in DOMAIN g.tests :
                /\ test_filter = NoFilter \/ Matches(g.tests[k], test_filter)
                /\ skip_filter = NoFilter \/ ~Matches(g.tests[k], skip_filter)}

Verdicts == {"SUCCESS", "SKIPPED", "FAILURE", "ERROR"}

\* The numbers of the verdicts among the lines, without those of fixtures of the group,
\* and the places of bad ones.
VerdictNumbers(l) ==
  Kept([i \in DOMAIN l |-> l[i].number],
       {i \in DOMAIN l : l[i].type \in Verdicts /\ l[i].number # 0})

BadPlaces(l) == {i \in DOMAIN l : l[i].type \in {"FAILURE", "ERROR"}}

\* In every format that is on, the lines of a group announce as many tests as it has,
\* give one verdict for each test in turn, or none when the group setup failed, and show
\* as many failures and errors as the group returns, one more when its teardown failed;
\* TAP says in the end that all is well only if it returns 0 or its setup failed; the
\* counters of the XML report add up to its tests and to the same result (cmprintf,
\* cmprintf_group_start, cmprintf_group_finish).
ReportsAgree ==
  phase = "over" =>
    /\ \A f \in global_msg_output \cap Textual :
         LET l == lines[f] IN
         /\ \A i \in DOMAIN l : l[i].type = "PLAN" => l[i].number = Len(group.tests)
         /\ VerdictNumbers(l) = IF group.setup THEN [i \in 1 .. Len(group.tests) |-> i] ELSE <<>>
         /\ Cardinality(BadPlaces(l)) = IF group.teardown THEN result ELSE result + 1
         /\ f = "TAP" /\ group.setup => (Last(l).type = "ALL OK" <=> result = 0)
    /\ "XML" \in global_msg_output =>
         /\ \E x \in Range(lines["XML"]) :
              /\ x.failures + x.errors = result
              /\ x.tests = Cardinality({i \in DOMAIN group.statuses : group.statuses[i] = "PASSED"})
                             + x.skipped + result - (IF group.setup THEN 0 ELSE 1)
         /\ Cardinality({t \in Range(files) \cup Range(streams) : Suite \in Range(t)}) = 1

\* A header is only at the beginning of a file or a stream, and it is there when all
\* reports of the program that runs have gone to that one (xml_printed, file_append).
HeadersComeFirst ==
  LET texts == Range(files) \cup Range(streams)
      ofThis(t) == \E x \in Range(t) : x.process = process
  IN /\ \A t \in texts : \A i \in 2 .. Len(t) : t[i].type # "HEADER"
     /\ phase # "off" => \A t \in texts :
          ofThis(t) /\ t[1].process = process /\ (\A u \in texts : ofThis(u) => u = t)
            => t[1].type = "HEADER"

\* A group that has begun comes to its end, with its report, whatever its name does to
\* that of the file (c_strreplace): a name is put in once more if it has the pattern in
\* it, until there is no room.  The name that is the pattern itself is left out; with it
\* the search would go on for ever.
ReportsEnd == phase \notin {"off", "idle"} ~> phase = "idle"

\* How far a group is from its end: the phases that it has before it.
PhasesLeft ==
  [setup |-> 6, tests |-> 5, teardown |-> 4, naming |-> 3, writing |-> 2, over |-> 1,
   idle |-> 0, off |-> 0][phase]

\* Putting a name in makes that of the file longer, up to the size of buf, or shorter, or
\* it takes a character of the pattern away that it puts back only further behind.
NameAdvances ==
  LET taken == IF Head(group.name) = "%" THEN "g" ELSE "%" IN
  CASE Len(group.name) > 2 -> Len(buf) < Len(buf') /\ Len(buf') < BufferSize
    [] Len(group.name) < 2 -> Len(buf') < Len(buf)
    [] OTHER -> /\ Len(buf') = Len(buf)
                /\ \E i \in DOMAIN buf :
                     /\ buf[i] = taken /\ buf'[i] # taken
                     /\ \A j \in 1 .. i - 1 : buf'[j] = buf[j]

ReportNearer ==
  \/ PhasesLeft' < PhasesLeft
  \/ /\ phase' = phase /\ phase = "tests"
     /\ Len(group.statuses) < Len(group'.statuses) /\ Len(group'.statuses) <= Len(group.tests)
  \/ phase' = phase /\ phase = "naming" /\ UNCHANGED group /\ NameAdvances

\* With any name but the pattern itself, each step of a group is one nearer to its end,
\* also when the name brings the pattern back into that of the file (c_strreplace).
ReportAdvances == [][GroupStep /\ group.name # pattern => ReportNearer]_vars

\* mainpage.dox: the report goes to the file of CMOCKA_XML_FILE if "the file specified by
\* this variable doesn't exist yet": no file has reports of two programs.
OldReportsStay ==
  \A t \in Range(files) : \A i \in DOMAIN t : t[i].process = t[1].process
=============================================================================
