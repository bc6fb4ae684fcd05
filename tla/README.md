# A model of the unit test framework of the trace recorder

The repository tests percepio's TraceRecorder. It holds a copy of the test
library **cmocka** (`cmocka/`), one test program per module of the recorder
(`UnitTest_*`), mocks of the recorder's environment (`unit_test_mocks` and a
copy of it in every project), a script that keeps those copies equal
(`update_mocks.py`) and a program that runs the test programs
(`UnitTest_RUNNER`). The recorder itself is a git submodule and not part of the
repository. All of it stands on one promise: a test says "passed" only when
it passed, and whoever ran the tests is told otherwise when it did not. The models follow
that promise from the expectations of one test to the exit status of the whole.

Paths of sources are those of the repository, with `src/` in front in
`PROJECT.json`; `cmocka.c` is `cmocka/src/cmocka.c`, `cmocka.h` is
`cmocka/include/cmocka.h`.

## Inventory

| Component | State | Operations | Correct when | Status |
|---|---|---|---|---|
| Declared expectations | two maps from symbols to queues with refcounts (`global_function_result_map_head`, `global_function_parameter_map_head`) | `_will_return`, `_mock`, `_expect_check`, `_check_expected`, `has_leftover_values` | a value is served as often as declared, in order; what is left at the end is what was not met | modelled: `Expectations`, `MockTest`, `MockContract` |
| Ordered calls | one list (`global_call_ordering_head`) | `_expect_function_call`, `_function_called` | calls are accepted in the declared order, only ignored functions may come in between | modelled: `Expectations`, `MockTest`, `MockContract` |
| Checking heap | list of blocks threaded through the blocks, guards | `_test_malloc`, `_test_calloc`, `_test_realloc`, `_test_free`, check points, leak check | a block that survives its test fails it; check points stay in the list | modelled: `TestAllocator`, `TestRunner` |
| Frame of a test or fixture | jump buffer, `global_running_test`, `global_skip_test`, `global_stop_test`, `global_expecting_assert`, signal handlers | `cmocka_run_one_test_or_fixture`, `exit_test`, `skip`, `stop`, `fail`, `mock_assert`, `expect_assert_failure`, `exception_handler` | every way out of a user function ends in its own frame; nothing reaches the next one | modelled: `TestRunner` |
| Group runner | status of each test, counters, check points of test and group | `cmocka_run_one_tests`, `_cmocka_run_group_tests` | every test is counted once and by what happened in it; the result is the number of failures | modelled: `TestRunner`, `TestGroup` |
| Name filters | two patterns | `c_strmatch`, `cmocka_set_test_filter`, `cmocka_set_skip_filter` | the tests that are run are those that match by the definition of the wildcards | modelled: `NameFilter`, `Reports` |
| Report formats | `global_msg_output`, `env_checked`, `xml_printed`, `file_append`, version of TAP | `cm_get_output`, `cmprintf*`, the file of the XML report | all formats tell the same story; a header stands at the beginning of a file | modelled: `Reports` |
| String replacement (`c_strreplace`) | the buffer of the file's name | replace `%g`, check for room | it ends, and within the buffer | modelled: `Reports` |
| Unit test projects and their mocks | globals of the mocks | 22 groups of tests with their fixtures | a test with a fault of the recorder fails, and no other | modelled: `TestScript`, `EntryTable`, the `*Tests` modules, `UnitTests`, `TestProgram` |
| `UnitTest_RUNNER` and the script of `README.md` | `ret`, `FAILURE` | `system` per program | zero only when all passed | modelled: `UnitTestRunner` |
| `update_mocks.py` | mock headers with modification times | walk, compare, ask, copy | after a run the copies are the common files | modelled: `UpdateMocks` |
| Assertions and comparisons | none | compare and fail | | not modelled, see below |
| Windows exception filter | previous filter | `exception_filter` | | not modelled |
| cmocka's own tests, examples, build files | | | | not modelled |

**How they interact.** A test program hands an array of tests to
`_cmocka_run_group_tests`, which calls `cmocka_run_one_tests` for each and so
runs up to five kinds of user functions, each in a frame of
`cmocka_run_one_test_or_fixture`. User functions call back into the library:
they declare expectations, call mocks, allocate blocks, fail, skip or stop. All
of these meet in `exit_test`, which leaves the user function by `longjmp` and
works on process-wide globals. What one function leaves in those globals is what the next one
starts from. The tests of the recorder use little of this. They are sequences of calls and assertions
that share the globals of the mocks: counters of critical sections that each assertion compares,
the components that are initialized, the event that was created last. The result
of a group is the exit status of its program, and the runner and the script
gather those.

The behaviours that are hard to test:

- *non-local exits* from anywhere, also from the checks after the function and from
  a signal handler, with flags that somebody has to lower;
- *refcounts* whose values -1, -2 and 0 have meanings of their own and whose
  boundary 1/0 removes the entry;
- *check points* that are addresses of list nodes, which dangle when the block is
  freed and point elsewhere when the address is allocated again;
- *partial failures*: a setup fails, a teardown fails, the teardown of the group
  fails, half of the leaked blocks cannot be freed, a file is half-copied;
- *accounting* of one test from the results of up to three frames, of a group in four
  formats, of a program in 8 bits;
- *state that outlives a test*: flags of the library, globals of the mocks, statics
  of the reports, files of earlier programs.

There is no concurrency in the library: one thread runs everything (the globals are thread-local
where the compiler can do that), and signals are taken as one more way to
leave a user function. People edit the files that `update_mocks.py` looks at while it runs.
`PROJECT.json` lists the hazards with their lines.

## The modules

```
                     Expectations   TestAllocator   TestScript   NameFilter  UpdateMocks
                      |        \      /              |      \        |
  MockContract <- MockTest    TestRunner     TestProgram  *Tests   Reports
                      |        |      \       /      |      |        |
                      |        |     TestGroup       |  UnitTests    |
                      |        |   (refined by both) |      |        |
                      |        |           UnitTestRunner   |        |
                      |        |                  \        /         |
                  MCMockTest  MCTestRunner       MCUnitTests     MCReports  MCUpdateMocks
```

**`Expectations`** has the three stores as variables and each library call as an
operator on them. A call `Op` that the code can leave by `exit_test` comes with
a predicate `OpFails`; the module does not say what happens then. A queue of a
symbol is a sequence of entries (value or set of accepted values, location,
refcount); a symbol that the code has dropped from its map has the empty
queue. Parameter checks are sets of accepted values, which is all that a
comparison function is to its caller.

**`MockContract`** is an abstract specification: what `cmocka.h` says about
declared expectations, as a ledger of declarations and the number of times each
was used. There are no queues or refcounts. It says which declaration may serve
the next use, when a use is refused, and what makes a test pass. Two of its clauses
come from the code and not from its documents, and make visible what the code does. An
entry declared with count 0 by `_expect_check` is stored and found but never
served. And `Shadowed`: an entry behind an unlimited one of its own queue can
never be used, and fails the test even when it is optional (see *Disagreements*).

**`MockTest`** runs one test after another on the stores, with the ledger and the
declaration or use that ended the test (`refused`) as history variables that decide
nothing but the bounds. Its property `ContractSpec` is `MockContract!Spec`: the code
implements the contract, step by step.

**`TestAllocator`** has the list of blocks and the set of blocks with
overwritten guards. A block is its address; sizes and contents are left out. A
check point is the address of the last node when it was taken.
`free_allocated_blocks` calls `_test_free` block by block, so a corrupt block stops it and
the rest stays (`Unfreed`).

**`TestRunner`** puts the two together. `pc` and `frame` are the runner's
position; one action per piece of code between two calls of user functions
(`StartTest`, `AfterSetup`, `AfterTest`, `AfterTeardown`, `BeginGroup`,
`AfterGroupSetup`, `WrapUp`, `AfterGroupTeardown`, `Finish`), one per stage of a
frame (`LeakCheck`, `FailIfLeftoverValues`, `Landed`, `Leave`), one per library
call of a user function. User functions are arbitrary sequences of calls, limited by
`mayDo` (which calls a kind of function makes) and `MaxOps` (how many). The history
variables `own`, `cause`, `ended`, `failures` and `guarded` record what happened, for the
properties; `guarded` also decides where a `longjmp` to
`global_expect_assert_env` lands.

Where the code reads a freed list node (a dangling check point) the model
chooses among what can come of it: the node looks like the end of the list, the
read faults and is caught as a signal, or it leads to a later block, which is reported and freed from
there on. A list that runs in a circle and hangs the process is not among the choices.

**`TestGroup`** is the second abstract specification: what a program can rely on when it
runs a group. Its tests are executed once each, or none when the setup fails,
and the result is the number of errors. `TestRunner` and `TestProgram` both
implement it (their `RunsEveryTest`).

**`TestScript`** has the steps of which the tests of the recorder consist, and the mocks:
`assert_int_equal_cs` with its comparison of the counters of critical sections,
the events with the text that goes with them, the initialized components. Assertions of another kind
(`Plainly`, `Glance`) do not look at the counters. **The `*Tests` modules** hold the scripts
of the 22 programs: each registered test, fixture and group fixture is a
sequence of steps under the name it has in the source, with the assertions in
their order. (The fixtures of `String_UnitTest.c` are called `..._Runnable`
in the source; here they are `..._String`.) **`EntryTable`** and the operators `...Outcome`
say what the recorder answers, and no more of it than the tests pin down: the recorder is
external code. **`UnitTests`** gathers the programs.

**`TestProgram`** runs one program: a function ends at its first false assertion, a test
is counted by its functions, the globals stay. The recorder may be at fault
in any call: it answers wrongly with or without its effect, stays in a
critical section, or loses its effect. History variables count the tests in
which an assertion is to notice that, and those in which anything was wrong.
`FirstGlobals` are the globals as a process finds them.

**`UnitTestRunner`** runs programs one after another, in the two ways the repository has:
the main of `UnitTest_RUNNER`, which adds up what `system()` returns, and the shell script of
`README.md`.

**`NameFilter`** has the matcher and what `cmocka.h` says of the wildcards (`Matches`: the
pattern cuts the name into pieces). The matcher is a recursive function from the places of the
pattern, the last one first, to the places of the name from which on the rest matches: what the C
function finds by walking through both and calling itself at a star. `Kept` leaves the tests that are selected in
their order, as the first loop of the group runner does. **`Reports`** has the lines each format
gets, with the calls in the order of the code, the choice of the formats from the
program and the environment, and the files of the XML report, over several groups and
several programs. How tests end is chosen freely there; `TestRunner` says how
they come to it.

**`UpdateMocks`** is the script, with people who edit files on both sides,
decline the question and interrupt it, also in the middle of `copy2`.

Names of operators are those of the code as far as TLA+ has them. Every
definition's lines are in `PROJECT.json` under `map`. Operators marked
"(mutant of ...)" are deliberate mistakes, used by nothing: with one of them in
the place of the original, the property named with it in `PROJECT.json` fails.

## The runs

| Run | Module and configuration | Question | Outcome |
|---|---|---|---|
| `mock_contract` | MCMockTest, MockTest.cfg | do the queues and refcounts keep the contract? | holds |
| `endings` | MCTestRunner, TestRunnerEndings.cfg | does every way to end a function end in the right place and count? | holds |
| `uses` | MCTestRunner, TestRunnerUses.cfg | are leaks and leftovers found whatever the functions do, and what aborts? | holds |
| `unit_tests` | MCUnitTests, UnitTests.cfg | do the tests with a fault fail, and no others, and does the caller learn of it? | holds |
| `reports` | MCReports, Reports.cfg | do the formats tell the same story? | holds |
| `update_mocks` | MCUpdateMocks, UpdateMocks.cfg | does an undisturbed run repair everything before it? | holds |
| `maybe_values` | MCMockTest, MockTestMaybe.cfg | can an optional value fail a test? | violated |
| `stop_leaks` | MCTestRunner, TestRunnerStopLeak.cfg | can a leak go unseen? | violated |
| `skip_in_fixture` | MCTestRunner, TestRunnerSkipFixture.cfg | can a failed test be reported as skipped? | violated |
| `stale_assert` | MCTestRunner, TestRunnerStaleAssert.cfg | can an assertion jump into a dead frame? | violated |
| `runner_exit` | MCUnitTests, UnitTestsExit.cfg | can the runner exit with 0 after failures? | violated |
| `xml_files` | MCReports, ReportsXmlFiles.cfg | can a report end up in the file of another program? | violated |

**What the properties say.** `StoresMatchLedger`: the stores hold exactly the
declarations that still allow a use, each with the refcount that its uses so
far leave. `ContractSpec`: refinement of `MockContract`. `FrameDiscipline`: `longjmp`
goes only to an active frame; handlers are the program's own outside of frames;
`stop()` is remembered only on its way. `StartsClean`: a user function starts
with empty stores and lowered flags. `StatusIsOwn`: the status of a test follows
from what its own three functions did. `TotalsAgree`: counters and result agree
with statuses. `LeaksAreFailures`: a test function that leaves a block of its
own behind does not pass (one that also calls `skip()` is not looked at and is reported as
skipped, not as failed). `CheckPointsFollow`: check points in use are in the
list unless the running function frees blocks of others; groups start with an empty
list. `AssertsFailTheTest`: no assertion jumps into a frame that is over.
`AbortMeansFailed`: with `CMOCKA_TEST_ABORT` the process aborts for a failure or
a stop, and for nothing else. `RunsEveryTest`: refinement of `TestGroup`. `TornDown`: a
test that has started is torn down, whatever it does. `GroupEnds`: every group
comes to a result, or the process ends.

`NoticedFaultsFail`: a test with a fault that one of its assertions is to notice fails.
`TestsAreIsolated`: a test without any fault does not, whatever the tests before it left behind, with
an exemption for programs that nobody takes out of a critical section again (see
*Disagreements*). `ErrorsAreFaults`: what a program returns is bounded by both. `StaysUnbalanced`: in
such a program, once a test has failed for nothing else, all the others do, because none of them gets
past its setup to where it would reset the counters. `CallsLeaveSections` is a rule of the recorder's
answers, on which the theorems about faults rest: without a fault a call leaves the
counters of critical sections as it found them.
`FaultsAreReported`: the outermost exit status, or the
number the runner prints, differs from 0 if there was a fault to be noticed, and only if
there was a fault.

`FormatsFollow`: the formats in use are those of the environment if it has legal ones, until the
program sets others after a report has looked at the environment, which then count; without legal
ones they are those set last.
`TestsAreSelected`: a group runs the tests that match by the definition of the
wildcards. `ReportsAgree`: each format announces the tests, gives one verdict
for each, and shows as many errors as the group returns, one more when its
teardown failed. `HeadersComeFirst`: an XML header is only at the
beginning of a file, and there when all reports of the program have gone to
that one. `ReportsEnd`: a group comes to its end, with its report.
`Propagated`: after a run that nobody disturbed every copy is the common file.

**Bounds, and why they are enough.**

- `mock_contract`: two functions (interchangeable, so the run uses symmetry; it
  checks no liveness) with one parameter and one value (accepted or not), three declarations
  per test (`MaxDeclarations`), two uses of each (`MaxServed`), all counts from -2 to 2. A
  count above 2 passes through 2; a count below -2 behaves like -2. Three
  declarations are needed for a queue with one entry before and one behind, and
  for a call that passes over an ignored one. All three properties are also
  proved, without these bounds.
- `endings`: two tests in each of two groups with every combination of fixtures, one
  way to end per function (`MaxOps` 1). Two tests show what one leaves to the next, two
  groups what a group leaves to the next one.
- `uses`: two tests in one group, with every combination of fixtures, two calls per function, and
  two kinds of scripts: with three blocks of the heap (a group setup, a setup
  and a test can each hold a block, and freed addresses come back; teardowns free any
  block, so their check points dangle), or with a declaration and a use, or a
  declaration and an exit, in each function. Blocks are interchangeable, so the
  run uses symmetry (it checks invariants only).
- `unit_tests`: the scripts are as long as they are in the source. Two faults of
  the recorder (`MaxFaults`) show one that hides the other and two in different tests. All
  22 programs run alone; the 17 shorter ones (`Chained`) also run after each
  other, where the next program depends only on the errors of those before it.
- `reports`: up to three groups, of one program or of two (`MaxProcesses`, `MaxGroups`), so that the
  statics and the files of one group meet those of another, and a program with two groups
  finds the files of one before it; one group has two tests, the
  other one a name with the pattern of the file's name in it. A buffer of 9 characters
  (`BufferSize`; 1024 in the code) has room for two replacements and none for a third.
- `update_mocks`: two projects that share a file and one with a second file; five
  seconds (`MaxTime`) and two edits (`MaxEdits`), enough for an edit on either side, an interrupted run
  and a run that repairs it.

Deadlock checking is off: a program that has run its groups, has exited or has
aborted stops, and the bounds end a behaviour too.

**Fairness.** `TestRunner` and `TestProgram` assume `WF_vars(Next)`, `Reports`
`WF_vars(GroupStep)`: the one thread goes on. User
functions are bounded by `MaxOps` or by their script, which says that they come to an end; the library cannot
promise more than that. `TornDown`, `GroupEnds` and `ReportsEnd` are checked under
it. Programs may stop between two groups, so nothing is assumed of that.
`UnitTestRunner` and `UpdateMocks` state no liveness: people answer the questions of
the script when they like.

**Rules of the test authors.** `AssertsFailTheTest` and `StartsClean` need two rules
that test authors keep and the library does not enforce (`SafeScripts` in the
proofs): only tests call `skip()`, and the function under `expect_assert_failure()` leaves by
an assertion or returns. `skip_in_fixture` and `stale_assert` show what
happens without them. `CheckPointsFollow` and `LeaksAreFailures` need two more: setups and
tests free only what was allocated in them (`FreesOwn`: freeing the block of an earlier function can
free the node that the check point of the running one points to), and tests that call `stop()`
allocate nothing (`StopsWithoutBlocks`; `stop_leaks` shows why). The scripts of the `uses` run keep both.
No two stars follow each other in a pattern (`Plain`), see below, and no group has the
name `%g`: with it `c_strreplace` goes on for ever.

## Disagreements between the code and what is said of it

Each of the violated runs has a finding in `PROJECT.json`:

- `will_return_maybe()` "will never cause a test to fail", but the removal of
  satisfied entries looks at the first entry of a queue only. Queue two optional
  values, or an optional one behind a `will_return_always()`, and the test fails.
- `stop()` leaves the test by way of `exit_test`, past the leak check: the test passes, and its blocks are
  not found unless a teardown looks.
- `skip()` in a fixture leaves `global_skip_test` up. A later test that fails is then
  reported as skipped, and is not counted as failed.
- A call under `expect_assert_failure()` that fails in another way leaves
  `global_expecting_assert` up. The next false assertion jumps to a function that has returned.
- `UnitTest_RUNNER` adds up the statuses of `system()`, which on POSIX are
  multiples of 256, and returns the sum, of which 8 bits are kept: it exits with 0 whatever
  happened. The script of `README.md` is right. (The sentence of `README.md` that the run checks is said of
  each test program; it is taken to hold of the runner as well, which is built and run like one.)
- A program whose first group has created an XML file appends the report of a later group to a file
  that an earlier program has left.

Others were seen while reading and have no run.

*cmocka.* A failed group teardown is printed and not counted (`cmocka.c:3310`, against
`cmocka.h:1919`); the text formats then show one failure more than the group
returns, and XML shows none. With `CMOCKA_TEST_ABORT=1` a test that calls
`stop()` aborts although it would pass (`cmocka.c:382`). `a**` does not match
`a`, though a star stands for zero or more characters (`cmocka.h:2464`). Without a file the XML
report goes to stdout, where `mainpage.dox:126` says stderr.
The formats can be "overwritten with environment variable" (`cmocka.h:2446`), but the code looks at the
environment only until it has found legal formats there: a program that calls `cmocka_set_message_output` after that
overwrites what the environment says (the last case of `FormatsFollow`). When
only a group setup fails TAP closes with "ok". With errors and no failures the
standard format has no closing summary of what went wrong. A new XML file has no header when an
earlier report of the process was appended to another file or went to stderr.

*The unit tests.* Of all programs only `Counter`'s setup sets the counters of
critical sections to zero, so in the others one critical section that is not left fails
every later test (`Unbalanced` in `TestProgram`). `Event` resets them in the
bodies, `StaticBuffer` resets core and nesting at the end of the body, which
a failed assertion leaves out. `Interval`'s teardown clears the name that only its group setup
assigns. `test_xTraceError` calls `xTraceWarning`. Four tests are written
and not registered (`Object` SetSpecificState, twice; `Task` Initialize; `Runnable`
StringRegister). `UnitTest_RUNNER` does not know `Dependency` and
`EventVerification`, and the CMake files do not build `EventVerification`
and the runner.

*`update_mocks.py`* looks for a backslash before `mocks` (line 14), so on Linux, for which
the README gives its commands, it finds nothing and says "Done!"; every project's
`trcRecorder.h` differs from the common one. For a copy newer than its common file
the script offers only to overwrite the copy, where the README promises the
option to update the common file (line 33). And two edits within a
second are taken for one (line 28), which `UpdateMocks` rules out by `HasTime`.

## The proofs

`tlapm` checks every theorem. Their assumptions are the `ASSUME`s of the modules,
which TLC evaluates in the runs (counts are integers, `CountsAssumption`; bounds are
numbers and every declaration has a location, `BoundsAssumption`; the root of the list
is no block, `RootAssumption`; the constants of the runner have their types, `RunnerAssumption`; every program has a
finite number of tests, `GroupsAssumption`, and asserts whether calls succeed, `ScriptsAssumption`;
counters of critical sections are set by bodies only, after a setup that asserts
that they are balanced, `SectionsAssumption`;
each list of programs has a first one and none twice, and no program so many tests that the number of its errors
does not fit into an exit status, `RunsAssumption`; names are sequences, and the name that an environment gives to the XML
file is shorter than the buffer, as `snprintf` cuts it, `ReportsAssumption`; `UpdateAssumption`), and where a
theorem says so `SafeScripts`, `FreesOwn`, `StopsWithoutBlocks`, `Plain`, `Backslash` or
`CountsAreIntegers`.

- **`MockTest_proofs`**, for all functions, parameters, values and counts, any
  number of declarations and uses: `ContractImplemented`, `StoresMatchLedgerHolds`,
  `MockTypeCorrect` and `PromisesKept`, what a test can rely on. The invariant `MockInv` relates the stores to the ledger.
  `Lists` says of a queue and of the places in the ledger that belong to its key: the
  entries of the queue stand for those places that are not exhausted, each once,
  in the order of the ledger, with the refcount that is left. `PayloadInv`
  adds that values and accepted sets are those declared, `LedgerInv`
  that nothing was used too often, `OrderInv` that nothing of a
  queue was used before what stands ahead of it is exhausted. Without the last one the end of
  a test cannot be understood: the clean-up drops a satisfied entry only from
  the head of a queue, and `QueueLeftover` shows that something remains
  exactly when a declaration is not met or shadowed. There is one lemma per action, and under
  it one step for each thing the action can do to a queue: append, use the head, remove the
  head, and for ordered calls remove from the middle.
- **`TestRunner_proofs`**, for every number of tests, groups and calls, every script, every heap:
  - `FrameDisciplineHolds`. The property is not inductive: when a frame ends
    it installs what it saved, so the invariant `FrameInv` adds that an active
    frame saved the program's own handler, because frames are
    entered only from outside of frames.
  - `TypeCorrect`. It splits `TypeOK` into the variables of frames and
    those of groups and rests on type lemmas for each operation of the stores
    (`Expectations_proofs`, with the facts about sequences behind them) and of the heap.
  - `GroupsStartEmptyHolds`: no group starts with a block of an earlier one, so
    the check point of a group never dangles: only `Finish` ends a group, with an empty list or
    with the process.
  - `StartsCleanHolds` and `AssertsFailTheTestHolds`, both under `SafeScripts`. The
    invariant `CleanInv` follows each flag through the stages of a frame: skip's from the call to `AfterTest`,
    the assertion's exactly as long as the user function is inside of
    `expect_assert_failure`, the stores empty wherever no frame is active.
  - `RunsEveryTestHolds`: the runner implements `TestGroup`. The invariant
    `Counted` ties `totals` to the test the runner is at; each action is mapped
    to a step of the abstract group or to none.
  - `AbortMeansFailedHolds` and `StatusIsOwnHolds` under `SafeScripts` (`AbortInv`, `TestInv` and
    `StatusInv`: between two frames of a test its result so far is what `failures` and `ended` say),
    and `TotalsAgreeHolds` without it (`TallyInv`: the counters are the
    cardinalities of the tests with each status).
  - `CheckPointsFollowHolds` under `FreesOwn`. `PointsInv` says that the list has no block twice, that the check
    points in use are in it, and, while a test runs, that its blocks are behind its check
    point and the check point of the test as a whole is not. The last part is what makes it
    inductive: a test frees only blocks of its own, so it cannot free the node that a
    check point needs.
  - `LeaksAreFailuresHolds` under both rules for blocks. The blocks of a test are behind its check point, so the
    leak check finds them; `LeakInv` follows a test that has some to its result: it cannot
    pass the check but by `exit_test`, and not as one that was stopped.
  - `AccountableHolds`: what `TestGroup` promises, said of the runner.
  - `ZeroMeansAllPassedHolds`, and `ZeroMeansNothingFailedHolds` under `SafeScripts`: a group that returns 0 has
    executed all of its tests and reports each as passed or skipped, and nothing failed in them. `ResultInv` says that a test
    has its status before it is counted, and that a group with a result has counted all tests or one
    failure of its setup; with `TallyInv` no failure can be missing from the sum. Without `SafeScripts` the
    second one is false: a group teardown that skips leaves the flag up, a test of the next group that
    fails counts as skipped, and that group returns 0.
  - `GroupAdvancesHolds`: each step of a group is one nearer to its end, for all scripts. The distance is
    lexicographic: the tests not begun, the stages before the next test (`StagesLeft`), the
    places before the frame is left (`PlacesLeft`), the calls that the function may
    still make, which `MaxOps` bounds. A group is over after at most `(NumTests + 1) * 9 * 6 * (MaxOps + 1)`
    steps, whatever `longjmp` does. `GroupEnds` adds, by fairness, that the steps are taken.
- **`TestGroup_proofs`**: `AccountableHolds`, what the refinements are good for: a
  group comes to its end only when all tests were executed or its setup failed.
- **`TestProgram_proofs`**, for all programs, scripts and recorders, any number of faults and
  lists of programs of any length:
  - `ProgramTypeCorrect` and `RunsEveryTestHolds` (`ProgramInv`: where a program is, and how many
    tests can have been counted there).
  - `RunnerTypeCorrect` (`RunnerInv`: the programs left are the last ones of the list).
  - `NoticedFaultsFailHolds`, when calls without a fault leave the critical sections they enter
    (`CallsLeaveSections`). `NoticedInv` holds after every step: a fault to be noticed
    has failed its test as soon as it happened, since the result `"WRONG"` is none that is asserted, and
    a critical section that is left open shows in the counters if they were balanced.
  - `ZeroMeansAllRanHolds` (`RanInv`): a program that returns 0 has executed all of its tests.
  - `StaysUnbalancedHolds`, when besides each test fails only for the faults in it (`TestsAreIsolated`). A program can have more errors
    than tests with a fault only after a test that found a critical section open. `OpenInv`
    keeps what follows: the section is open, the setup that runs has passed no assertion that
    would see it, and the body that runs had a setup without one, so it does not set the
    counters either (`SectionsAssumption`). The counter only goes up by a fault or is set to 0 (`NestedInv`), and as no program is in a list
    twice, `program' = program` means that it is not started anew (`OrderInv`).
  - `ErrorsAreFaultsHolds` and `FaultsAreReportedHolds`, from the same two hypotheses.
    They are about the counting: from what is true of each single
    test follows what a program returns (`SuspectedInv`), and from that what the
    runner, the script or the parent of a single program gets to see (`QuietInv` and `CleanInv`: without a
    fault nothing is wrong anywhere; `ReportInv`: what was noticed once
    stays in `ret` or `FAILURE`). The two hypotheses are statements about the scripts of the 22 programs and
    the answers to their calls; the `unit_tests` run checks them on all of them.
  - `RunAdvancesHolds`: each step of a run of programs is one nearer to its end: the programs
    left, the tests left, the places before the test is counted, the steps of the script.
- **`Reports_proofs`**, for all groups, environments, filters and files, any number of tests and programs:
  - `FormatsFollowHolds` (`FormatsInv`: until the environment has been looked at and found legal, the formats
    are those the program set last; then those of the environment; and once the program has set others
    after that, these).
  - `HeadersComeFirstHolds` (`HeadersInv`: only the first entry of a text can be a header; while
    `xml_printed` is down nothing went to stdout or stderr, and every text the program has
    begun starts with a header; once it is up, some text with entries of the program was not
    begun by it without a header).
  - `NamesMatch` and `TestsAreSelectedHolds`, for every name and pattern: the places that
    the matcher finds for the j-th character of the pattern are those at which the rest of the name can be cut as
    the rest of the pattern says, by induction on the length of that rest. A pattern with two stars in a
    row is left out (`Plain`), because the code does not match what it should. That `Kept` keeps
    order and drops nothing is a second induction, on the tests.
  - `ReportsTypeCorrect` (`ProgramTypeOK` and `GroupInv`: the counters of a group add up to the tests that were
    run and a setup that failed; `buf` stays shorter than its size through every replacement).
  - `ReportsAgreeHolds`. `LinesInv` says of each textual format, after every test, that its lines announce the
    tests, give one verdict to each test run so far and show as many failures as were counted (`Tells`),
    one more after a failed teardown; `SuitesInv` that the entry of a group is in one file when the
    group is over and in none before. Each format is told another line in each of the
    calls, so there is one lemma for what a line adds to `Tells`, and each step of the group is a sequence of them.
  - `ReportAdvancesHolds`: each step of a group is one nearer to the end of its report. The loop of
    `cmprintf_group_finish_xml` is the hard part, because the name that is put in may bring the pattern
    `%g` back. A name of more than two characters makes that of the file longer until `buf`
    is full, a shorter one makes it shorter. With two characters the length stays: then at the first place that changes
    a `%` goes, or, with a name that begins with `%`, a `g` right behind it, and what is before stays, so the names descend in
    a lexicographic order. The name `%g` itself is left out: with it `buf` does not change and the search does not end.
- **`UpdateMocks_proofs`**: `MocksTypeCorrect` and `PropagatedHolds`, for any projects, edits and
  interrupted runs, where the walk finds its directories (`Backslash`). `MocksInv`
  consists of `TimesInv`, that equal times mean equal texts and that a file
  changed in the present second is known to be, and `WalkInv`, that in an
  undisturbed walk all copies but those pending equal their sources.
- **`MockContract_proofs`**: `ContractKept`, for every set of declarations with
  integer counts: values of a key are used in order, none more often than
  declared, and calls in the declared order. The three promises and the type of
  the ledger are inductive together (`ContractInv`): an entry that serves is
  not exhausted, so nothing behind it in its queue has been used. `VerdictsHaveReasons`: a test passes
  only if it has used all it declared, and fails only for something refused, missing or
  shadowed. With `ContractImplemented` both hold of the queues (`PromisesKept`).

Only model-checked: `TestsAreIsolated` and `CallsLeaveSections`, which say what the scripts of the
22 programs do with the answers they get. A proof would have to go through each script step by
step, which is what TLC does. And liveness (`TornDown`, `GroupEnds`, `ReportsEnd`), which is out
of this prover's reach; what is proved is that no step leads away from the end
(`GroupAdvancesHolds`, `RunAdvancesHolds`, `ReportAdvancesHolds`), for every value of the constants, which leaves
to fairness only that a step is taken. The invariants `ZeroMeansAllPassed`,
`ZeroMeansNothingFailed`, `ZeroMeansAllRan` and these three action properties are in no run: the theorems stand for them. What a recursive function computes for every input is proved by a least
counterexample (`WFMin` of the library, on a set of numbers), as for `c_strmatch` and `Kept`: the library's induction
theorems over a predicate cannot be used. No module has a recursive operator. `MCReports` also compares the matcher with the definition of the wildcards on all names
and patterns of up to three characters (`FilterMatches`), as TLC evaluates both.

## Not modelled, and why

- The assertions and comparison functions (`cmocka.c:1122-1775`, `1836-2036`): each is one comparison
  of its arguments that calls `fail()` when it is false, and keeps no
  state. What they are to the rest is there: a parameter check is the set of values it
  accepts, a false assertion is a failure.
- The Windows exception filter: conditional code of another platform. `UNIT_TESTING_DEBUG`, which leaves signals alone.
- cmocka's own tests and examples and the build files have no logic of their own; `CMakeLists.txt`
  gives the lists of programs.
- The recorder: a submodule that is not there. It is external code, as the tests
  pin it down, and may be at fault.
- Wording and layout of reports and messages; the times in reports; locations of the last value, check and
  call, which appear only in messages.
- The state pointers handed to the tests: the library passes them on unread.
- Sizes, alignment and contents of blocks; allocation failure inside `_test_malloc`
  (an `assert_non_null`, which fails the test as `fail()` does).
- What a dangling check point does when the list has become a circle: the program hangs.
- Nested directories of mocks, which the repository does not have. A copy without a common
  file ends `update_mocks.py` with an error; it is an interruption (`Interrupt`).

## Plan

1. Done: expectations and their contract, heap, runner, reports and filters, the unit tests with
   their runner, the script; the contract and the group implemented, both proved.
2. Done: every safety invariant of the library and its reports that a run checks is a theorem, and the
   accounting of the unit test programs and of those who run them follows from the isolation of the tests.
3. Done: the promises of `MockContract` and `TestGroup` said of the code, what a result of 0 tells, and that
   groups, programs and reports come nearer to their ends with each step.
4. The comparison functions on integers of fixed width: what a sign extension does to
   the ranges and sets of `assert_in_range` and `expect_in_set`.
