# cowork_evals in TLA+

Specifications of [cowork_evals](../src/README.md), the package that runs a
plugin's evaluation cases in two places, containers and the CoWork desktop
application, and decides once whether the invocation passed. The modules model
the parts where order, failure and concurrency decide what the program does; TLC
checks them on small instances, and TLAPS proves the results that matter most for
every value of the constants.

## The system

One invocation is one process. It shares with every other invocation on the machine
a desktop, a profile of the CoWork application, a run log, a Docker daemon with its
images, a login directory, a log root and a history of results, and only the
history's append takes a lock.

| Component | State it keeps | Operations | What makes it correct |
| --- | --- | --- | --- |
| Driver (`cowork.py`) | the run log; `_CONSENTED` of the process | `run`, `submit`, `wait`, `collect`, `recent` | a document is of the submitted prompt; the ceiling; every submission is logged; nothing is typed before consent; every call ends |
| The application (external) | the window in front, the composer, session directories | a deep link, keystrokes, what it writes to disk | nothing is assumed of it |
| CoWork backend (`cowork_backend.py`) | the entries of a suite | `plan`, `run` | each run ends as an entry; the ceiling before the first |
| Containers (`docker/`) | images, the login directory | `build`, `login`, `check`, `run`, `prune` | what a preflight saw is there when the container starts |
| Command line (`cli.py`) | none between calls | `run`, `ask`, `test`, `setup`, `login`, `check`, `panel`, `prune`, `init`, `docs` | refusals leave nothing; exit 0 means what it says |
| Preflight, cases, validation | none | `checks`, `discover`, `violations` | what runs was validated; a valid case means the same on both backends |
| Results, verdict (`results.py`, `verdict.py`) | the result document, `verdict.txt` | `build`, `write`, `spend`, `decide` | a case passes only by its runs and graders |
| Checks, traces (`checks.py`, `traces.py`) | collected run directories, the rewritten document | `collect`, `run` | they run whatever the backend did, and a failed check fails |
| Judge, graders (`judge.py`, `grader.py`, `harness.py`) | none | `grade`, `tally` | a lost vote is not a yes; nothing passes for want of what it looked at |
| Log root (`logs.py`) | run directories, `latest`, `run.log` | `run_dir`, `point_latest`, `prune`, `tee` | two runs never share a directory; `latest` is never absent; the log is complete |
| History, panel (`panel.py`) | one file per case | `append`, `prune`, `rows` | no record is lost, torn or reordered; a row is of all of them |
| Configuration, resources, requirements | none | read once | constants here |

How they interact: `run` asks the preflight, reads the tree, prunes the log root and
makes a run directory, puts its output through `tee`, asks for consent, and then,
plugin by plugin, calls a backend, collects traces and runs checks in a `finally`, and
lets the verdict read what is on disk. The CoWork backend calls the driver once per
run and grades what it collected; the driver and the application see each other only
through keystrokes and files. The history is written last, and read by `panel`.

What is hard here:

- the application, the person at the desktop and the driver act at any time, and
  a guard and the keystroke it guards are two processes;
- a submission that was given up may still produce its session;
- the check of the ceiling and the line it counts are far apart, and so are the check
  of an image or of a free name and its use;
- files are read while they are written (audit log, transcript, history);
- the same question is asked twice (preflight and backend) and may get two answers;
- exceptions cross a `finally` that does work of its own;
- a thread that ends early leaves its pipe to a process that goes on writing.

`PROJECT.json` lists each hazard at its line, with the properties that guard it.

## The modules

| Module | Models | Composed with |
| --- | --- | --- |
| `CoWorkApp` | the application and the person | extended by `CoWorkDriver` |
| `CoWorkDriver` | `run` and `submit` in several processes | refines `SubmissionLedger` |
| `SubmissionLedger` | what the driver promises about the ceiling | abstract specification |
| `CompletionWait` | the polling loop of `_wait`, read by read | the step `Wait` of `CoWorkDriver` |
| `Sweep` | one invocation of `run`, end to end | a document is one word per case |
| `Verdict` | one plugin's document: runs, traces, checks, scores, words | the words and the collection of `Sweep`, in detail |
| `Grading` | the graders of one case over one session | what a grader answers in `Verdict` |
| `CaseTree` | what is selected, validated and declared of a tree of cases | the case files of `Sweep` |
| `CaseHistory` | the history file of one case | `Record` of `Sweep` |
| `Panel` | the row of that case | extends `CaseHistory` |
| `LogRoot` | run directories, `latest` and `prune`, of several processes | the directory of `Sweep` |
| `Tee` | the copy of a sweep's output | around `Sweep` |
| `Host` | the container verbs, of several processes, over one daemon and one login | the preflight and the container of `Sweep` |
| `MC...` | symmetry sets, small trees, suites and scenarios for TLC | |
| `SubmissionLedgerProofs`, `CoWorkDriverProofs` | theorems of the ledger, of the driver and of the wait | `CoWorkDriverProofs` uses the first through the refinement |
| `SweepProofs`, `HostProofs` | theorems of the sweep and of the host | |
| `HistoryProofs` | theorems of the history and of the panel | |
| `LogsProofs` | theorems of the log root and of the tee | |
| `CasesProofs` | theorems of the tree, the graders and the document | |
| `DataLemmas` | sequences, sums and induction, for the modules above | |

### CoWorkApp and CoWorkDriver

`CoWorkApp` has the frontmost process, the text in the composer and, per session
directory, the stage it is at (`sent`, `dir`, `user`, `answered`), the prompt
recorded in it and who pressed the Return. The person changes windows, types and
submits at any time. A stage may take for ever.

`CoWorkDriver` has one action for each step at which something else can get in
between. The correspondence with the code is one to one:

| Action | Code |
| --- | --- |
| `Check` | `_check`: ceiling and prompt length |
| `RecordBaseline`, `AskConsent` | the baseline of sessions, `consent` |
| `Activate`, `GuardClear`, `Clear`, `OpenLink`, `GuardReturn`, `Return`, `FireFails` | the sequence of `_fire`, `_guard` and the deep link |
| `Discover`, `Attribute`, `AttributeEscapes` | `_discover`, `_attribute`, and a decoding error out of `_read_jsonl` |
| `RecordFailure`, `RecordSubmitted`, `RecordEscapes` | `_submit` and `_record`, and a run log that cannot be written |
| `Wait`, `ReadEscapes`, `Collect` | `_wait`, `collect` |
| `Kill`, `Tick`, `Environment` | a signal, the clock of the log, the rest of the desktop |

A poll that finds nothing changes nothing, so a polling loop is one action, its
last look. `typed`, `stray`, `fired`, `lost` and `returned` are history variables.
A prompt is a model value; `Altered` stands for every text that is not a prompt. The
clearing script is two commands, so a failed one may have typed (`FireFails`).
A profile that cannot be read is not modelled: it refuses at the same place.

### SubmissionLedger

An attempt is admitted below the ceiling, fires at most once, and enters its line
in the log, withdraws or is lost. The mapping from the driver is two
substitutions: `flying` is the set of calls between the check and the line
(`InFlight`), and `log` is the run log without outcomes (`Stamps`).

### CompletionWait

Time passes between any two reads of the loop, and the session writes between any
two. The variable `times` remembers when the last write was, when the loop looked
and what it knew; the properties relate what is reported to those times.

### Sweep

`run` from the path to the exit code. The exits are 0, 1, 2, 3 and 130, and
`traceback` for an exception nobody catches (Python then exits with 1, without a
verdict). The CoWork backend is modelled run by run beside another process that
submits; a container is one step that leaves a whole document, a partial one, or
none. Whatever ends a backend early, Control-C or an exception past its handler (the
`re.error` of a glob, an `OSError`), is `BackendEscapes`; the traces and the checks
still run. Old run directories are deleted by `DeleteOld`, before a dry run prints its
plan and is done, and the history is written case file by case file (`RecordCase`), so
that Control-C or an `OSError` in between leaves some of the records. `touched` remembers
what became of the log root. A document is its cost, whether it is partial, and the word the verdict
reaches on each case. A case file is `ok`, `improper` (a violation), `unreadable`
(the reader raises), `mistyped` (the plan raises) or `timeless` (a negative
timeout, which the driver refuses when it is made), and a person may break one
while `run` is at work. `CheckFaults` says how the check layer may fail: the
document cannot be rewritten, something is raised around a check, or a check exits
the interpreter.

### Verdict

What truly happened in each run is in `facts`: how it ended (`none`, `error` when it
left nothing, `late` when it was graded although it did not end well, `denied` a
tool, `paid` graders skipped at the ceiling), what was right in it, and which graders
were skipped. The document only has what was graded, collected and checked of it, and
every property compares the two.

| Action | Code |
| --- | --- |
| `RunOnce`, `WriteDocument` | a run and its graders (`_one_run`, `_graded`, or the harness), `build`, `write` |
| `CollectRun`, `MapTraces` | `traces._one_run` for each run in the document's order, `_rewrite` |
| `Check` | `checks.run`: the results, the scores, `_each_case`, `_recount`, `write` |
| `Decide` | `verdict.decide` over the document on disk |

`disk` and `doc` are the document on disk and in memory: a write that fails leaves the
old one, or one that cannot be read. A directory has the trace and the workspace of a
run, and a second run that is given the same one replaces the trace only. Scores are
whole numbers of 1/`Unit`, with `Unit` a multiple of every sum of weights and count
that divides. The harness is external: which graders a two-arm run leaves out, and
when a delta is missing, are taken from what the verdict says of its documents.

### Grading and CaseTree

Both are mostly pure: the state is the input, and in `Grading` the results so far. A
text is how often the one pattern matches it. A segment of a glob is `**`, one that does
not compile, or the set of what it takes of a path, each a sequence of names: `*` and `?`
stay within a name, but the code turns `[!a]` into the class `[^a]`, which takes a
separator too. `FullMatch` is the code's translation to one regular expression (`Takes`,
`After`), and `Matches` the harness's glob, in which a segment is one name. There is one
action for each way to a result: `Skip` (a stand-in), `GradeStructural`, `DoNotAsk` (a
broken config, an image, material that cannot be read), `Vote` and `Count` (`judge.ask`,
`tally`); `GradeRaises` is the glob that does not compile, which nothing catches, and
which ends the grading. Which vote is lost, and how, is a choice.

`CaseTree` has the functions of `cases.py` and `validate.py` under their names:
`plugin_roots`, `_targets`, `_case_directories`, `no_cowork`, `unrunnable` and
`_case_violations`, one value of `flaws` for each rule about the form of a value. The
harness, which reads the same cases in containers, is external.

### CaseHistory and Panel

A path names a file, an open file outlives its name, an append writes at the end
and a rewrite at the writer's own offset. `append` is `MakeParents`, `Open`,
`Lock`, `Write`; `prune` is `ReadLines`, `Truncate`, `Rewrite` or `ReadLines`,
`Unlink`, `LookEmpty`, `RemoveFolder`. A record is as many cells as it has bytes
that matter (one, or two for a longer record, the last of them the newline), so a
torn line is a sequence of cells that is no record. Two details are left out: the newline
a prune adds to a torn last line, which only files with a race have, and that the
directories above a file are several, made and removed one inside the other.

`rows` reads the file and the case as they are when it is called, so a row is a
function of the state (`Found`, `Newest`, `MostRecent`, `Cell`, `Flake`, `Stale`, `Row`
are `read`, `_newest`, `_most_recent`, `_cell`, `_flake`, `_stale`, `_row`), and its
properties hold in every state of the history.

### LogRoot

Every call of the file system is a step. Names are a second and a suffix, ordered as
their text is.

| Action | Code |
| --- | --- |
| `BeginPrune`, `Consider`, `Scan`, `Unlink`, `RemoveDirectory` | `prune`, `_stamp`, `remove_tree` |
| `LookAtLatest`, `UnlinkLatest` | `_repoint_latest` |
| `Name`, `Probe`, `MakeDirectory` | `run_dir`, `_unique` |
| `UnlinkFresh`, `Symlink`, `Replace` | `point_latest` |
| `Write`, `EndSweep` | `run.log`, the plugin's directory and `verdict.txt`, in the order `run` makes them |
| `Kill`, `Tick` | a signal, the clock |

### Tee

`FlushBefore`, `Redirect`, `FlushedAgain`, `Restore` and `Join` are the lines of `tee`,
`Read`, `ReadEnd`, `CopyToTerminal` and `CopyToLog` those of `_pump`; between them the
sweep prints (`PrintPiece`, `FlushPiece`), starts a child, which inherits the descriptors
and may outlive it, and the terminal or the disk fails (`Break`). `writers` is the set of
open descriptors that lead into the pipe.

### Host

Each process makes one invocation after the other out of a scenario: `setup`, `check`,
`login`, `run --docker`, `test` and `prune --docker`, each under a configuration with its
own digest and so its own image tags. The daemon comes and goes, images grow old. The
steps are the questions an invocation asks of the host: `Ensure`, `Build` (`setup` and
`--build-missing`), `CheckDaemon`, `CheckImage`, `CheckCredential` and what the verb does
with the answers (`Refuse`, `Ready`, `Proceed`, `CheckAgain`), `LookAtLogin`, `Seed`,
`StartContainer`, `EndContainer`, `List`, `Remove`. The login directory holds the
credential and the CLI's state file, and is mounted read-write by a run as by a login: a
refresh that is refused in the container of a run leaves a credential without a token
(`RefreshRefused`, as `docs/docker.md:440` has it), and Control-C may leave either file
empty or half written (`Interrupt`). What the CLI does there, and what docker and pytest
answer, is external.

## The runs

| Run | Question | Bounds | Distinct states |
| --- | --- | --- | --- |
| `driver_alone` | does one process keep its promises over two calls, a restart and a day, and does every call end? | one process, two calls, a prompt that is too long, two sessions, one kill, consent by dialog | 1.3 million |
| `driver_ledger` | does the driver implement the ledger, and is a document ever of another text? | two processes, two calls each, ceiling 1, one session | 1.2 million |
| `ledger` | the accounting, with lines that age out | two processes, two attempts each, three days, a line counts for two of them | 76 thousand |
| `wait` | what quiescence, completion and timeout mean | four polls to the deadline, two to quiescence, three writes | 0.8 million |
| `history` | what a file holds, what is left of it, and what its row is worth | two invocations, on one backend or one on each; two prunes, one kill, one edit or removal of the case | 0.44 million |
| `sweep` | what do green and red mean, what does the ceiling bound, and does it end? | two plugins of one name in containers, or one on CoWork beside another process; two cases, two runs each, a ceiling of 4, a cost ceiling of 1, one edit | 1.7 million |
| `verdict` | is a pass earned, has a fail a cause, are the numbers those of the results? | two cases of one name, both backends, one arm or two, two runs a case, one run that went wrong, one read or write that failed | 1.2 million |
| `log_root` | what is a sweep's own, and where does `latest` lead? | two sweeps, one prune, two seconds, one kill, what an earlier sweep may have left | 0.9 million |
| `tee` | is the log complete, and does the sweep get out? | a pipe of two, three pieces of the sweep, two of its child, one broken copy | 54 thousand |
| `tee_claim` | is everything that is written logged? | the same | violated |
| `cases` | is what runs what was validated, is a valid case portable, what do votes and graders decide? | every tree of prompts over nine directories in two plugins, every case of a few keys; every grader over every session, one to three votes | 0.16 million |
| `host` | is what a preflight saw still there when it is used? | two processes, any number of invocations, three configurations, five scenarios | 2.3 million |

Why the bounds are enough. The interesting cases of the driver need two calls that
overlap: either two processes, or one process and a session that arrives late; two
sessions let one of them be the wrong one, and one is enough for a ceiling of one.
The application's stages are kept whole. A third process repeats what the second
does, and what is said of any number of processes is proved. In the history a race
is between one append and one prune, or between two prunes; the second append is
what a prune can lose or tear, and what a row can be wrong about. In a sweep, two
plugins are needed for a name to
clash and for the ceiling to be read between them, and two cases for one of them to
fail while the other goes on. In a document, two cases of one name let a directory
clash and a mean of cases go wrong, two entries are two runs of an arm or one of each,
and each fault is one that no other has to go with: the first that goes wrong already
leaves the document, the directories and the facts apart. The weights differ, so a
score tells which grader passed. In the log root a clash takes two sweeps in one
second, and a second second makes the earlier directory old; the pipe of `tee` is full
before either writer is done. In `Host` a race takes two invocations, and each process
may make any number.

`CHECK_DEADLOCK FALSE` is set where the process ends or its calls are used up; in
`host` invocations go on for ever, and TLC checks that one always can. `TypeOK` of
each module holds under its run's configuration and is not repeated in the runs, since
most are parts of what is proved.

Symmetry: session directories, processes and sweeps are interchangeable where a
configuration says so: nothing orders them, and the driver takes a new directory only
when it is the only one. Runs with a liveness property use none.

### Fairness

- Driver (`driver_alone`): `WF` of the steps of a call under way. Each step is a subprocess that
  returns, or a loop with a deadline on a monotonic clock, so it ends whatever it
  polls for. Nobody is obliged to call, and nothing is assumed of the application.
- `CompletionWait`: the loop is scheduled, and time passes.
- `CaseHistory` and `Panel`: an invocation that has begun is scheduled. The lock is
  granted to a process that waits for it as long as holders let go, and a holder lets go
  because it is scheduled. Prunes have no fairness, and may be killed.
- `Sweep`: two parts, of which the code justifies the first. `WF(OwnSteps)`: the process
  is scheduled. `WF(Returns)`: whatever it waits for returns, which is an assumption about
  its surroundings, since the container, a check, the judge and the lock of a case file
  are waited for without a timeout (`Docker.run`, `checks.execute`, `judge.ask`,
  `panel.append`). Interrupts, other processes and edits are not obliged to happen.
- `Tee`: both threads are scheduled, the sweep returns, and its child exits some time.
  Nothing obliges either to print.

### What the runs show

- Whatever a person or another process does to the composer, no document is
  returned for a prompt it was not recorded under (`AlteredPromptNeverReturned`).
- The ceiling is exceeded by at most one submission for each process beyond the
  first (`CeilingPerProcess`), not counting those that have no line in the log: their
  process died, a read failed to decode, or the log could not be written.
- With one process, no session is returned twice, and a wrong one is returned only
  in the wake of a call that fired and failed, or of a person who submitted the
  prompt (`SessionReturnedOnce`, `WrongSessionNeedsOrphan`).
- A refusal sends nothing and counts nothing; consent comes first; every
  submission is in the log unless its process died, a read failed to decode, or the log
  could not be written.
- Quiescence is over a tree that was quiet by the last signature, of a run that had
  started, and never hides a completion that was there to be seen.
- As long as no prune overlaps another process, a history file is exactly its
  appends less what was dropped for age, and a row counts each of them once
  (`RowCountsEveryRecord`); it is of the run that started last when no two on one
  backend overlapped (`RowIsMostRecent`). Races leave no husk, and are the only
  cause of failure of either.
- A decided exit 0 is earned by every picked case of every plugin, and so is every pass
  in the history. The history has no record of a refusal or of a sweep that ended in a
  traceback, but may have some of one that was interrupted while it wrote them
  (`RecordsAreEarned`).
- Red on CoWork has a cause, as long as the document can be rewritten
  (`RedIsExplained`). The cost ceiling is overrun by one plugin at most, in what the
  documents say was spent: a container that leaves no document counts zero
  (`SpendIsBounded`).
- A refusal (exits 2 and 3) leaves the log root as it was, old run directories included; a
  dry run deletes those as any run does, but creates, submits and records nothing
  (`RefusalLeavesNothing`).
- `run` ends if everything it waits for returns (`Ends`).
- A case passes only if it ran, every run ended well, everything that was asked was
  right about that run and no other, and the delta is there
  (`PassIsEarned`); what the property has to except is what the code cannot see: a
  denied tool in a trace nobody could read, and checks whose results could not be
  written. A case fails only for such a cause (`FailIsExplained`).
- Whichever write fails, the numbers of a document on disk are those of the results in
  it (`ScoresMatchResults`): the code never writes a document between the results and
  the recount.
- A sweep keeps its directory and what it wrote in it, unless a prune was told to
  remove what is as old (`RunsLeaveRunsAlone`); nothing an earlier invocation left,
  killed or not, makes a later one fail (`FailuresNeedRace`); `latest` is absent only
  while directories are removed, and is right again after invocations that did not
  overlap.
- A tee that was left without a failed copy has everything in the log, in order, and no
  child that still writes; a killed one lacks at most the last read; and as long as the
  copy works the sweep gets out.
- The majority is of the votes that were asked for, whichever are lost
  (`VotesDecide`); no grader passes for the absence of what nobody could read, a glob
  matches what the harness's does, and more only when a class takes a separator
  (`GradersAreExact`); what runs below an `evals/` was validated (`ValidatedIsSelected`);
  a case without violations is declared exactly when the harness would be asked for
  something no session offers (`ValidIsPortable`).
- An image that a preflight saw, or a setup built, is taken only by a prune under another
  configuration (`ImagesAreKept`). A login is lost only to one that was forced or
  overlapped another, to a refresh that was refused in a run's container, or to a run that
  was killed while it wrote; a state file the CLI cannot read is found only after a kill
  (`LoginIsKept`).

## Divergences

One is kept as a run TLC must find violated; `PROJECT.json` quotes the line.
`EverythingIsLogged`: `tee` says that everything written to the two descriptors reaches
both the terminal and `run.log`; the first write that fails ends the copying thread, and
what the sweep prints after it reaches neither.

The others are stated in the modules, and TLC finds each violated under the
configuration named, with it in place of that file's properties:

| Claim | Where | What happens |
| --- | --- | --- |
| `CeilingHolds` | `DriverLedger.cfg` | two processes pass the check before either is in the log |
| `OwnSession` | `DriverAlone.cfg` | a call collects the late session of an earlier call with the same prompt |
| `FocusTypedNothing` | `DriverAlone.cfg` | code 9 is raised by the second guard too, after the clearing keystrokes |
| `StrayReturnIsMismatch` | `DriverAlone.cfg` | a Return that reached another application ends with code 4, not 6 |
| `OnlyKillsLoseLines` | `DriverAlone.cfg` | a decoding error, or a run log that cannot be written, loses the line of a submission |
| `IdleCountsFromStart` | `Wait.cfg` | idle time is said not to accrue before the run started; the window starts at the last change of the tree, and the transcript is read after the signature |
| `OnlyOldDropped` | `History.cfg` | without the lock of `append`, `prune` loses or tears a record that was written meanwhile |
| `StaleSeesEdits` | `History.cfg` | a case edited while it ran is digested in its edited form |
| `GuardIsUnreachable` | `Sweep.cfg` | another process's submission reaches the backend's ceiling guard, and the exception ends `run` without a verdict |
| `MalformedCaseExits3` | `Sweep.cfg`, with `TreeFaults = {"unreadable"}` | a case that does not parse ends in a traceback |
| `FailedCheckFails` | `Sweep.cfg` | a failed check passes with a warning when the document cannot be rewritten |
| `GreenHasVerdict` | `Sweep.cfg` | a check that calls `sys.exit(0)` ends the invocation with exit 0 |
| `GreenRanSomething` | `Sweep.cfg`, with `Runs = 0` | a suite of zero runs passes |
| `ArmsComparedAlike` | `Verdict.cfg` | in a baseline run whose trace was not collected the checks are out of the score, and the case passes on such a delta |
| `DirectoriesAreOwn` | `Verdict.cfg`, with `Suite` of three cases, named `greet`, `greet` and `greet-2` | the suffix of the second case of a name is another case's name, and the runs of both land in one directory |
| `FailedGraderFails` | `Verdict.cfg`, with the advisory check and a grader of one case and one `Label` | the class of a failed grader is looked up by name, and is that of the check |
| `SecondGetsSuffix` | `LogRoot.cfg` | two invocations of one second find the same name free, and the second fails |
| `RemovedWhenNoneIsLeft` | `LogRoot.cfg` | the repair of `latest` removes a link that another invocation has just made |
| `TeeAlwaysEnds` | `Tee.cfg`, as a `PROPERTY` | after a failed copy the sweep waits for room in a pipe that nobody reads |

Some need no run to be seen, and are in the models as they are in the code:

- a path inside an `evals/` that points below a case or a pruned directory, or outside
  of every `evals/`, runs cases that nothing validated, where `docs/cli.md:198` and
  `docs/eval_format.md:287` say that all are (`ValidatedIsSelected` excepts them);
- the glob of a `file_exists` grader is said to be the harness's (`grader.py:342`), but a
  negated class matches a separator (`grader.py:353`), so `x[!a]y` matches `x/y`
  (`GradersAreExact` is exact only when `Confined`);
- "No failure here raises" (`grader.py:10`), but the `re.error` of a glob that does not
  compile, such as `[z-a]`, is caught by nobody (`GradeRaises`), and ends `run` with a
  traceback (`BackendEscapes`);
- `PytestImage.run` says that its caller turns a `DockerError` into its own exit code;
  `_test`, `_setup`, `prune --docker` and `run --build-missing` catch none, so the
  invocation ends with a traceback and exit 1 (`Raised` in `Host`);
- `prune --docker` ends at the first image docker keeps, with the others still there;
- `test` returns docker's own 125 as if pytest had exited with it.

## What is proved

Every safety property a run checks is a theorem, and so is the refinement of the ledger.
`tlapm` checks every proof to the last leaf. The assumptions are those named in the
modules, and TLC evaluates each on the runs of its module:

- finite sets of processes, natural bounds, and model values that are no number and no
  record (`LedgerAssumption`, `AppAssumption`, `DriverAssumption`, `WaitAssumption`,
  `HistoryAssumption`, `PanelAssumption`, `LogRootAssumption`, `TeeAssumption`,
  `HostAssumption`);
- of a sweep, that no plugin is swept twice (two may have one name) and that CoWork has
  one (`SweepAssumption`);
- of a tree, that it is one: finitely many directories, and every way up ends at the
  top (`TreeAssumption`);
- of the graders, that each has the fields of its type (`GradingAssumption`);
- of a document, that each case is in the suite once, its graders and checks are
  different things (their names may be the same) and have positive weights, and that
  `Unit` is divisible by every sum of weights times the counts that divide it
  (`VerdictAssumption`). The last stands for the code's floating point, of which no
  rounding is modelled.

No behaviour is assumed of the application, of the clock, of the daemon or of whoever
is killed.

| Theorem | For every | Argument |
| --- | --- | --- |
| `LedgerInvariant`, `LedgerCeiling` | number of processes, ceiling, window | below |
| `DriverInvariant` | number of processes, prompts, sessions | `TypeOK`, what a call knows at each step (`CallInv`) and when it has fired (`FiringInv`) are inductive together |
| `AlteredPromptIsNeverReturned` | the same | from `recordok` on, the session a call found is recorded with its prompt, and a record never changes |
| `RefusalsLeaveNothing`, `ConsentComesFirst`, `SubmissionsAreAllLogged` | the same | `PromiseInv`, over `DriverInvariant` |
| `SessionsAreReturnedOnce`, `WrongSessionsNeedAnOrphan` | one process; any calls, prompts, sessions, kills | `SoleInv`, below |
| `DriverImplementsLedger` | number of processes, prompts, sessions | each action maps to one action of the ledger or to a stutter; a line that escapes is the ledger's lost one |
| `DriverCeiling` | the same | the refinement and `LedgerCeiling` |
| `QuietMeansQuiet`, `CompletionIsNeverMissed` | timeout, idle window, pace of writing | `LoopInv`: the signature dates the last write seen, and the window starts no earlier |
| `SweepInvariant` | plugins, names, cases, runs, ceilings, edits | below |
| `RefusalsLeaveNothing` (of `SweepProofs`) | the same | no step before `prune` deletes or creates, and none after it refuses; a dry run ends before the run directory is made |
| `GreenIsEarned`, `HistoryIsEarned` | the same, with a history cut anywhere | the decision is of the documents, and each is what its plugin's runs and checks left; records are written only after it, and what ends `run` then is 0, 1 or 130 |
| `RedHasCause` | the same, when the document can be written around the CoWork backend | no document is missing unless a case was edited (`EditsShow`) |
| `SpendStaysBounded` | the same, and any costs | each plugin but the first was started below the ceiling (`StartedBelowCeiling`), and the last document says at most `MaxCost` |
| `FailuresAreRaces`, `NoHuskStays` (of `HistoryProofs`) | invocations, prunes, lengths of lines, kills | `PathInv`, `RaceInv`, `HuskInv`, below |
| `HistoryIsExact` | the same | `SerialInv`, below |
| `RowsAreComplete`, `RowsAreRecent` | the same, and any edits of the case | the row is a function of the file, and `StampInv` says in which order that is |
| `RunsAreLeftAlone` | number of sweeps and prunes, ages, seconds, kills | a directory that is removed is older than the cutoff of whoever removes it, and once condemned stays so |
| `FailuresAreRaces` (of `LogsProofs`), `LatestStays`, `LatestIsLeftRepaired` | the same | below |
| `PiecesAreSomewhere`, `TheLogIsComplete`, `TheLogKeepsUp` | size of the pipe, amount of output | below |
| `ValidatedRuns` | tree, pruned directories, targets | below |
| `ValidCasesArePortable` | keys, tags, mocks | by the sets of keys |
| `GradersStayExact` | globs, with classes or malformed, paths and texts | below |
| `VotesAreDecisive` | graders, sessions, number of votes | a result is decided once, by `Tally` over as many replies as were asked for |
| `NumbersOfDisk` | suite, weights, arms, repetitions, faults | below |
| `PassesAreEarned`, `FailsAreExplained` | the same, names apart | below |
| `ImagesKept`, `LoginKept` | number of processes, configurations, scenarios | below |

The ceiling. `CeilingPerProcess` is not inductive: nothing in it prevents many
calls from being past the check at once. The invariant counts instead what is
*charged*: the attempts with a line in the window, and those in flight. At most one
attempt of a process is in flight (`OneInFlight`), so when one is admitted below
the ceiling, those in the log are at most `MaxRuns - 1` and those in flight at most
one per process, which is `ChargedBelow`; every other step keeps or shrinks the
charged set. `AccountedFor` says that each submission is in flight, lost, or in a line no
older than itself, so each one that counts in the window is charged.

The driver. A refused call must not have fired, or withdrawing it from the ledger
would lose a submission: that is `FiringInv`, which ties `typed` to `fired` at each
step. `CallInv` says what the steps up to a document rely on. `PromiseInv` adds that
lines are only of calls that were made, each of its own attempt, and what a call may have
typed before its consent: nothing.

One process. That no session is returned twice is not inductive: it has to be known why
a session that was returned is in every later baseline. `SoleInv` says that each
submission has at most one session (`Owned`), that the session of a call with a line
"submitted" is listed, and in the baseline of every later call, and that a call under way
has found one that is not in its baseline; the exceptions are exactly what the property
allows (`Excused`). The assumption that there is one process is needed: two of them can
collect one session, when both submitted the same prompt.

The sweep. That green is earned is a statement about a directory at the end, and the
steps that make it true are far back, with other plugins swept in between, of the same
name perhaps. `OwnDirectory` is the lemma that makes them independent: the suffix counts
the plugins of that name so far, so no later one gets an earlier one's directory, and
`RewriteStep` is then the one argument for every step that writes a document.
`SweepInv` says what is in each directory at every step (`IsFaithful`): cases of that
plugin only, all of them when the document is whole, a declared case as declared, a case
with a failed check as failed, and on CoWork a pass only after as many passing runs as
were asked for. `Decided` says that the verdict is of exactly these documents, until the
process ends. `RedIsExplained` needs more, `EditsShow`, and one assumption: when the
collection of traces or the checks cut a document and cannot write it, red has no cause
but that warning.

The history. A file and its name part ways here: who holds a file open may write to one
that has been unlinked. `PathInv` says which file is where and who holds it, for any
interleaving. `RaceInv` says that without an overlap what a process looked at is
still so when it acts, which leaves races as the only cause of a failure; `HuskInv`
names for everything empty on disk the process that will fill or remove it.
`SerialInv` is about contents: without a race the cells of the file are those of the
lines appended and not dropped, and while a prune is between its read and its last write,
the lines it read are these and what it will write is what remains of them. It needs that
cutting a file into lines and joining lines are inverse (`HistoryProofs` proves it of the
recursive definitions by the number of cells). For rows, `StampInv` says that, as long
as no two invocations on a backend overlap, each wrote after the ones before had ended, so
the last line of a backend is of the run that started last.

`latest`. An invocation fails in the log root only when another overlapped it: `SoloInv`
says what a lone process knows between two calls (`Own`), whatever an earlier one that
was killed left. `LatestStays` needs that no directory is removed, and follows from the
link being replaced by a rename. After a removal `latest` may lead nowhere;
`RepairInv` says at which step of which verb it is right again.

The log. `Tee`'s invariant says where each piece is: the log, the chunk, the pipe, in
that order, make up `written`, and the terminal is ahead of the log by the chunk at
most; what the sweep printed is in `written` or in the buffer. A descriptor is open for
as long as its holder may write, so when the thread reads the end nothing is on its way.

The tree and the globs. `Above`, `CaseDirectories` and both readings of a glob are
recursive. Each is first shown to satisfy its equation, by giving a function that does,
since a recursive function is what `CHOOSE` finds of its equation; after that only the
equation is used. `ValidatedRuns` then says that the search from an `evals/` finds what a
search from any directory below it would. `GlobsAgree` compares `FullMatch`, which goes
segment by segment through sets of places, with the harness's glob, which goes through
the path with one place, for globs and paths of any length: one direction for every glob,
the other for those in which no segment takes more than a name.

The document. `VerdictInv` says of each document, in memory and on disk, that it is what
`build` would make of its entries (`DocIs`), and of each entry that its results are
those of the run's graders and, once they ran, of its checks (`EntryIs`). The mean
of means in `ScoresMatchResults` is of whole numbers only because each score is a
multiple of whatever divides it later (`ScoreIsExact`, `MeanIsExact`). The checks
recount in place, and `CheckedIs` is the lemma that this comes to the same as building the
document again: the baseline and the delta are recounted where there was one, which is
where the arms are comparable, and checks change no cost. For the words, `ScoredIsAsked`
says that what counts in a score is what was asked of that run, and
`DeltaIsImprovement` that the delta is the difference of the two arms. Two hypotheses are
needed, and each is a divergence when it is left out: `SlugsApart`, that no name of a
case is another's with a number (`DirectoriesAreOwn`), or a check reads another run's
files; and for a pass `LabelsApart`, that no two graders or checks of a case share a
name (`FailedGraderFails`), or a failed grader is taken for an advisory check.

The host. `Types` and `Control` say which step of which verb a process is at; on top of
them, an image that was looked for and found is still there or `taken`; from its own
preflight on a run's login is good unless one was forced or overlapped (`excused`) or a
run's container has left no token of it (`cleared`); and after the seed the state file is
one the CLI can read unless a container that mounts it was killed.

Induction. The library's induction theorems cannot be instantiated here, so `DataLemmas`
has the two that are needed as statements about sets: a set of numbers that holds zero and
each successor holds every number, and a set of sets that holds the empty one and each
finite set with one element more holds every finite set. What is shown of a recursive
definition is shown by these, over the set of arguments it holds for. No module with a
theorem reaches a `RECURSIVE` operator; recursion is written as recursive functions.

Only model-checked: liveness (`CallsEnd`, `WaitEnds`, `AppendsEnd`, `Ends`, `TeeEnds`),
which rests on fairness and is out of the prover's reach, as is `ENABLED`.

## What is not modelled

- `ask`, `init`, `docs`, the parsing of options and of the configuration, `resources`,
  `requirements`: one call of one component, or a value read once.
- The image probe and the parity report: a comparison of two tables.
- The wording of what is printed, the layout of the panel, `env.txt`.
- The form of values: each rule of the case format about one value is one flaw in
  `CaseTree`; the validation of a foreign result document is left out, and so are the
  filters by tag and name.
- The command lines of docker and of the judge, what is in an image, the merge of a
  grader's two halves, the discovery of checks by import, a check's own judge calls.
- Sealed sandboxes and their removal; the contents of a session document; the
  diagnostic log; a line of the run log of which only a part is written.
- What the CoWork backend keeps of a workspace is merged into a directory that is there
  already; in `Verdict` it replaces it (`Kept`).

`Sweep` keeps the collection of traces as one step, which `Verdict` takes apart, and the
answer of a grader as a choice, which `Grading` takes apart. A prune of the history that
is killed between the truncation and the write leaves an empty file; nothing in the
code repairs it, and no property is stated of it.

## Plan

Done: all modules of the table above, and a theorem for each safety property of the runs.
What is left, in order:

1. Weaker hypotheses: `SessionsAreReturnedOnce` for several processes whose prompts
   differ, `PassesAreEarned` for graders that share a name when none of them is an
   advisory check, `NumbersOfDisk` with a bound on rounding in place of `Unit`.
2. `Verdict` as a refinement of the words and the collection of `Sweep`, `CompletionWait`
   of the step `Wait`.
3. `ask` over an old session, the filters of a selection, the image probe.
