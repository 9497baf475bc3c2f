------------------------------ MODULE Verdict ------------------------------
(***************************************************************************)
(* One plugin's result document, from the runs of its cases to the word the *)
(* verdict reaches on each: the document a backend writes                   *)
(* (src/cowork_evals/results.py, cowork_backend.py; the harness's from its  *)
(* contract), the collection of traces (traces.py), the checks (checks.py)  *)
(* and the conditions of pass and fail (verdict.py).                        *)
(*                                                                         *)
(* What truly happened in each run is in `facts`; the document only has     *)
(* what was graded, collected and checked of it. A score is a number of     *)
(* 1/Unit, and Unit is chosen so that every division is exact.              *)
(***************************************************************************)
EXTENDS Integers, FiniteSets, Sequences, SequencesExt

CONSTANTS
  Suite,        \* the cases, in the order of the document
  CaseName,     \* the name of each case
  Slug,         \* the directory name of each name, a sequence of its parts
  Graders,      \* the graders of each case
  Checks,       \* the checks of each case
  WithOnly,     \* the graders of the with-arm only
  Judged,       \* the graders that ask a judge, or may turn out to be skipped
  Advisory,     \* the advisory checks
  Label,        \* the name of each grader and each check
  Weight,       \* the weight of each
  Unit,         \* what a score of 1.0 is
  Threshold,    \* eval.delta_threshold, in the same unit
  MaxEntries,   \* bound: the runs of a case, both arms together
  MaxFlaws,     \* bound: the runs that went wrong
  MaxFaults,    \* bound: the writes and reads that fail
  Faults,       \* which of them may
  Nothing       \* no document, no trace, no delta, no word

Cases == Range(Suite)
Slots(c) == Graders[c] \cup Checks[c]

Weights(S) == SumFunctionOnSet(Weight, S)

\* A score, and the mean of up to n scores and of up to m such means, is exact.
Divisible ==
  \A c \in Cases : \A S \in (SUBSET Slots(c)) \ {{}} :
    \A n \in 1 .. MaxEntries, m \in 1 .. Cardinality(Cases) :
      \E q \in 1 .. Unit : Unit = Weights(S) * (n * (m * q))

ASSUME VerdictAssumption ==
  /\ Suite \in Seq(Cases) /\ IsInjective(Suite)
  /\ \A c \in Cases :
       /\ IsFiniteSet(Slots(c)) /\ \A s \in Slots(c) : Weight[s] \in Nat \ {0}
       /\ Graders[c] \cap (Checks[c] \cup Advisory) = {}
       /\ Checks[c] \cap Judged = {}
       /\ Slug[CaseName[c]] \in Seq(Range(Slug[CaseName[c]]))
  /\ Unit \in Nat \ {0} /\ Threshold \in Int /\ Divisible
  /\ {MaxEntries, MaxFlaws, MaxFaults} \subseteq Nat /\ Nothing \notin Int
  /\ Faults \subseteq {"unkept", "empty", "unreadable", "unmapped", "unwritten"}

VARIABLES
  pc,        \* the step
  backend,   \* "docker" or "cowork"
  arms,      \* the arms of the invocation
  reps,      \* how often each case runs in an arm
  keep,      \* whether traces are kept
  status,    \* what the document says of each case beside its runs
  order,     \* the runs, in the order of the document
  facts,     \* what happened in each run so far
  at,        \* how many runs of the order are done in this step
  disk,      \* the document on disk, Nothing when none can be read
  doc,       \* the document in memory
  tree,      \* the run directories: whose trace and whose workspace they hold
  faults,    \* how many faults there were
  unread,    \* the runs whose kept trace could not be read
  words      \* the word on each case of the document

chosen == <<backend, arms, reps, keep, status, order>>
vars == <<pc, chosen, facts, at, disk, doc, tree, faults, unread, words>>

TwoArm == "without" \in arms
Ran == {c \in Cases : status[c] \in {"ran", "bare"}}

\* The runs of one arm of a case: none in the baseline of a bare case.
RunIds(c, arm) ==
  IF c \in Ran /\ arm \in arms /\ (arm = "without" => status[c] # "bare")
  THEN {<<c, arm, k>> : k \in 1 .. reps} ELSE {}

\* Every reader walks the cases in their order, and of each its with-arm first.
InOrder(c, arm) ==
  IF RunIds(c, arm) = {} THEN <<>> ELSE [k \in 1 .. reps |-> <<c, arm, k>>]
Walk == FlattenSeq([i \in DOMAIN Suite |->
          InOrder(Suite[i], "with") \o InOrder(Suite[i], "without")])
-----------------------------------------------------------------------------
(* Scores.                                                                 *)

Scored(results) == {s \in DOMAIN results : results[s].scored}
Right(results) == {s \in Scored(results) : results[s].passed}

\* `score` and `_score`: the weighted fraction of what was scored that passed,
\* zero when nothing was.
Score(results) ==
  IF Scored(results) = {} THEN 0
  ELSE (Unit * Weights(Right(results))) \div Weights(Scored(results))

Mean(f, S) ==
  IF S = {} THEN 0 ELSE SumFunctionOnSet(f, S) \div Cardinality(S)

Graded(entry, results) ==
  [entry EXCEPT !.results = results, !.score = Score(results),
                !.passed = Score(results) = Unit]

\* The mean score of an arm and its pass rate.
ArmScore(entries, c, arm) ==
  Mean([r \in RunIds(c, arm) |-> entries[r].score], RunIds(c, arm))
ArmRate(entries, c, arm) ==
  Mean([r \in RunIds(c, arm) |-> IF entries[r].passed THEN Unit ELSE 0],
       RunIds(c, arm))

\* The suite's means, over the cases that are not declared.
SuiteMeans(agg) ==
  LET counted == {c \in Cases : status[c] # "declared"}
      defined == {c \in counted : agg[c].delta # Nothing}
  IN [score |-> Mean([c \in counted |-> agg[c].score], counted),
      rate |-> Mean([c \in counted |-> agg[c].rate], counted),
      delta |-> IF defined = {} THEN Nothing
                ELSE Mean([c \in defined |-> agg[c].delta], defined)]

\* A harness leaves the delta out when the arms are not comparable.
Comparable(entries, c) ==
  /\ RunIds(c, "without") # {}
  /\ \A r \in RunIds(c, "with") \cup RunIds(c, "without") : ~entries[r].paid

CaseMeans(entries, c) ==
  [score |-> ArmScore(entries, c, "with"),
   rate |-> ArmRate(entries, c, "with"),
   without |-> IF Comparable(entries, c) THEN ArmScore(entries, c, "without")
               ELSE Nothing,
   delta |-> IF Comparable(entries, c)
             THEN ArmScore(entries, c, "with") - ArmScore(entries, c, "without")
             ELSE Nothing]

\* `build`: the whole document.
Document(entries) ==
  LET agg == [c \in Cases |-> CaseMeans(entries, c)]
  IN [defs |-> Graders, entry |-> entries, agg |-> agg, suite |-> SuiteMeans(agg)]
-----------------------------------------------------------------------------
Flaws == {"none", "error", "late", "denied", "paid"}

TypeOK ==
  /\ pc \in {"run", "collect", "check", "decide", "done"}
  /\ backend = "cowork" => ~TwoArm
  /\ at \in 0 .. Len(order)
  /\ \A r \in DOMAIN facts :
       /\ r \in Range(order)
       /\ facts[r].flaw \in Flaws
       /\ facts[r].right \subseteq Slots(r[1])
  /\ pc = "run" => disk = Nothing
  /\ disk # Nothing => DOMAIN disk.entry = Range(order)
  /\ \A d \in DOMAIN tree : tree[d].trace \in Range(order)
  /\ faults \in 0 .. MaxFaults
  /\ pc = "done" => words \in [IF disk = Nothing THEN {} ELSE Cases ->
                                {"pass", "fail", "declared"}]

Statuses == IF backend = "cowork" THEN {"ran", "declared"}
            ELSE IF TwoArm THEN {"ran", "skipped", "bare"} ELSE {"ran", "skipped"}

Init ==
  /\ pc = "run" /\ at = 0
  /\ backend \in {"docker", "cowork"}
  /\ arms \in {{"with"}, {"with", "without"}}
  /\ backend = "cowork" => arms = {"with"}
  /\ reps \in 1 .. MaxEntries /\ reps * Cardinality(arms) <= MaxEntries
  /\ keep \in BOOLEAN
  /\ status \in [Cases -> Statuses]
  /\ order = Walk
  /\ facts = <<>> /\ disk = Nothing
  /\ doc = [entry |-> <<>>] /\ tree = <<>>
  /\ faults = 0 /\ unread = {} /\ words = Nothing
-----------------------------------------------------------------------------
(* The backend.                                                            *)

Put(f, x, v) == [y \in DOMAIN f \cup {x} |-> IF y = x THEN v ELSE f[y]]

\* The graders of a case an arm asks. With two arms the with-only ones are out of
\* the score, unless the case has no others, and out of the baseline.
Indicators(c) ==
  IF TwoArm /\ ~(Graders[c] \subseteq WithOnly) THEN Graders[c] \cap WithOnly
  ELSE {}

\* `_graded`, and what the contract says of the harness: each grader of the case,
\* skipped where the material is an image.
GraderResults(r, f) ==
  LET out == Indicators(r[1])
      asked == IF r[2] = "with" THEN Graders[r[1]] ELSE Graders[r[1]] \ out
  IN IF f.flaw = "error" THEN <<>>
     ELSE [s \in asked |->
            [passed |-> s \in f.right \ f.skips /\ ~(f.flaw = "paid" /\ s \in Judged),
             scored |-> s \notin f.skips \cup out,
             skipped |-> s \in f.skips]]

FlawsOf(arm) ==
  IF backend = "cowork" THEN {"none", "error", "late"}
  ELSE IF TwoArm THEN Flaws ELSE Flaws \ {"paid"}

Flawed == {r \in DOMAIN facts : facts[r].flaw # "none"}

\* The entry of a run before its grading.
Blank(f) ==
  [results |-> <<>>, score |-> 0, passed |-> FALSE, error |-> f.flaw \in {"error", "late"},
   denied |-> FALSE, paid |-> f.flaw = "paid", trace |-> Nothing]

\* A run that ends in this way, and its grading. An "error" is one that left nothing to
\* grade, "late" one that was graded although it did not end well.
EndRun(r, f) ==
  /\ f.flaw # "none" => Cardinality(Flawed) < MaxFlaws
  /\ f.flaw = "error" => f.right = {} /\ f.skips = {}
  /\ facts' = Put(facts, r, f)
  /\ doc' = [doc EXCEPT !.entry = Put(@, r, Graded(Blank(f), GraderResults(r, f)))]

RunOnce ==
  /\ pc = "run" /\ at < Len(order)
  /\ LET r == order[at + 1] IN
     \E flaw \in FlawsOf(r[2]), right \in SUBSET Slots(r[1]),
        skips \in SUBSET IF backend = "cowork" THEN Graders[r[1]] \cap Judged
                         ELSE {} :
       EndRun(r, [flaw |-> flaw, right |-> right, skips |-> skips])
  /\ at' = at + 1
  /\ UNCHANGED <<pc, chosen, disk, tree, faults, unread, words>>

WriteDocument ==
  /\ pc = "run" /\ at = Len(order)
  /\ doc' = Document(doc.entry)
  /\ disk' = doc'
  /\ pc' = IF keep THEN "collect" ELSE "check"
  /\ at' = 0
  /\ UNCHANGED <<chosen, facts, tree, faults, unread, words>>
-----------------------------------------------------------------------------
(* The traces.                                                             *)

\* Mutant of CaseDir: the suffix of a second case of the name is left off.
CaseDirByName(c) == Slug[CaseName[c]]

\* `run_dir`: the case's name, with a suffix for the second case that has it.
CaseDir(c) ==
  LET before == {i \in DOMAIN Suite :
                   /\ CaseName[Suite[i]] = CaseName[c]
                   /\ \E j \in DOMAIN Suite : Suite[j] = c /\ i <= j}
  IN IF Cardinality(before) = 1 THEN Slug[CaseName[c]]
     ELSE Append(Slug[CaseName[c]], Cardinality(before))

RunDir(r) == <<CaseDir(r[1]), r[2], r[3]>>

Fault(kind) ==
  /\ kind \in Faults /\ faults < MaxFaults
  /\ faults' = faults + 1

\* The directory after the run's trace is in it, which replaces one that is there,
\* and its workspace, if it could be kept. A sandbox's, moved onto one that is
\* there, goes into that; a session's is copied over it, and what that leaves of
\* the files of the one before is left out: it is the later run's from then on.
Kept(r, workspace) ==
  LET before == IF RunDir(r) \in DOMAIN tree THEN tree[RunDir(r)].workspace
                ELSE Nothing
  IN Put(tree, RunDir(r),
         [trace |-> r,
          workspace |-> IF before # Nothing /\ (workspace = Nothing \/ backend = "docker")
                        THEN before ELSE workspace])

\* The entry with the path of its trace, and what the trace said.
Traced(entry, path, denied) == [entry EXCEPT !.trace = path, !.denied = denied]

\* The entry of a run, in the document in memory.
Enter(r, entry) == doc' = [doc EXCEPT !.entry = [@ EXCEPT ![r] = entry]]

\* `_one_run`: nothing to collect, nothing kept, all of it kept and read, no
\* workspace, or a trace that cannot be read.
CollectRun ==
  /\ pc = "collect" /\ at < Len(order)
  /\ LET r == order[at + 1] IN
     \/ /\ facts[r].flaw = "error"
        /\ UNCHANGED <<doc, tree, faults, unread>>
     \/ /\ facts[r].flaw # "error"
        /\ Fault("unkept")
        /\ UNCHANGED <<doc, tree, unread>>
     \/ /\ facts[r].flaw # "error"
        /\ \/ tree' = Kept(r, r) /\ UNCHANGED faults
           \/ tree' = Kept(r, Nothing) /\ Fault("empty")
        /\ Enter(r, Traced(doc.entry[r], RunDir(r), facts[r].flaw = "denied"))
        /\ UNCHANGED unread
     \/ /\ facts[r].flaw # "error" /\ backend = "docker"
        /\ Fault("unreadable")
        /\ tree' = Kept(r, Nothing)
        /\ Enter(r, [doc.entry[r] EXCEPT !.trace = RunDir(r)])
        /\ unread' = unread \cup {r}
  /\ at' = at + 1
  /\ UNCHANGED <<pc, chosen, facts, disk, words>>

\* `write` when it raises OSError: before the file is opened, or after it was cut.
WriteFails(kind) == Fault(kind) /\ disk' \in {disk, Nothing}

\* `_rewrite`: after the last run, once.
MapTraces ==
  /\ pc = "collect" /\ at = Len(order)
  /\ \/ disk' = doc /\ UNCHANGED faults
     \/ WriteFails("unmapped")
  /\ pc' = "check"
  /\ UNCHANGED <<chosen, facts, at, doc, tree, unread, words>>
-----------------------------------------------------------------------------
(* The checks.                                                             *)

\* What a check finds in a directory: nothing is right of no files.
Holds(trace, k) ==
  /\ tree[trace].workspace # Nothing
  /\ k \in facts[tree[trace].workspace].right

\* `execute` over the workspace in the run's directory, or `skipped` when the
\* document names no directory.
CheckResult(trace, k) ==
  IF trace = Nothing THEN [passed |-> FALSE, scored |-> FALSE, skipped |-> TRUE]
  ELSE [passed |-> Holds(trace, k),
        scored |-> k \notin Advisory,
        skipped |-> FALSE]

\* `_each_run`: the check results after the graders', and the score again.
CheckedEntry(entry, r) ==
  LET results == [k \in Checks[r[1]] |-> CheckResult(entry.trace, k)]
  IN Graded(entry, [s \in DOMAIN entry.results \cup Checks[r[1]] |->
                      IF s \in Checks[r[1]] THEN results[s] ELSE entry.results[s]])

ToCheck == {c \in Cases : status[c] # "declared" /\ Checks[c] # {}}

\* Mutant of CaseChecked: the baseline keeps the score the backend gave it.
CaseCheckedWith(old, entries, c) ==
  [old EXCEPT
     !.score = IF RunIds(c, "with") = {} THEN @ ELSE ArmScore(entries, c, "with"),
     !.rate = IF RunIds(c, "with") = {} THEN @ ELSE ArmRate(entries, c, "with")]

\* `_each_case`: the case's means again. The score of the baseline and the delta
\* are recomputed only where there was one.
CaseChecked(old, entries, c) ==
  LET score == IF RunIds(c, "with") = {} THEN old.score
               ELSE ArmScore(entries, c, "with")
      rate == IF RunIds(c, "with") = {} THEN old.rate
              ELSE ArmRate(entries, c, "with")
      without == IF RunIds(c, "without") = {} \/ old.without = Nothing
                 THEN old.without ELSE ArmScore(entries, c, "without")
  IN [score |-> score, rate |-> rate, without |-> without,
      delta |-> IF \/ RunIds(c, "with") = {} \/ RunIds(c, "without") = {}
                   \/ old.delta = Nothing \/ old.without = Nothing
                THEN old.delta ELSE score - without]

\* `checks.run` in memory, with `_recount`.
Checked(d) ==
  LET entries == [r \in DOMAIN d.entry |->
                    IF r[1] \in ToCheck THEN CheckedEntry(d.entry[r], r)
                    ELSE d.entry[r]]
      agg == [c \in Cases |-> IF c \in ToCheck
                              THEN CaseChecked(d.agg[c], entries, c) ELSE d.agg[c]]
  IN [defs |-> [c \in Cases |-> IF c \in ToCheck THEN Slots(c) ELSE d.defs[c]],
      entry |-> entries, agg |-> agg,
      suite |-> [SuiteMeans(agg) EXCEPT
                   !.delta = IF d.suite.delta = Nothing THEN Nothing ELSE @]]

\* `checks.run`: it reads the document again, and writes it once, if at all.
Check ==
  /\ pc = "check"
  /\ doc' = IF disk = Nothing \/ ToCheck = {} THEN disk ELSE Checked(disk)
  /\ \/ disk' = doc' /\ UNCHANGED faults
     \/ disk # doc' /\ WriteFails("unwritten")
  /\ pc' = "decide"
  /\ UNCHANGED <<chosen, facts, at, tree, unread, words>>
-----------------------------------------------------------------------------
(* The verdict.                                                            *)

\* The class of a result, joined by its name: the last definition of the name is
\* the one a reader has, and the checks come after the graders.
Advised(d, c, s) ==
  \E k \in d.defs[c] \cap Advisory : Label[k] = Label[s]

\* `_judge_grader`: what fails of one result.
ResultFails(d, c, s, result) ==
  \/ \A k \in d.defs[c] : Label[k] # Label[s]
  \/ result.skipped
  \/ /\ ~Advised(d, c, s)
     /\ IF result.scored THEN ~result.passed ELSE ~TwoArm

\* Mutant of RunFails: whatever passed is a pass, whether or not the run ended well.
RunFailsByScore(d, r) ==
  \E s \in DOMAIN d.entry[r].results :
    ResultFails(d, r[1], s, d.entry[r].results[s])

\* `_judge_run`
RunFails(d, r) ==
  \/ d.entry[r].error
  \/ d.entry[r].denied
  \/ \E s \in DOMAIN d.entry[r].results :
       ResultFails(d, r[1], s, d.entry[r].results[s])

\* `_judge_delta`
DeltaFails(d, c) ==
  \/ d.agg[c].delta = Nothing
  \/ d.agg[c].delta < Threshold

\* `_judge_case`: the baseline's runs are in the delta and nowhere else.
WordOn(d, c) ==
  IF status[c] = "declared" THEN "declared"
  ELSE IF \/ status[c] = "skipped"
          \/ \E r \in RunIds(c, "with") : RunFails(d, r)
          \/ TwoArm /\ DeltaFails(d, c)
  THEN "fail" ELSE "pass"

\* A document that cannot be read has no outcomes, and fails the invocation.
Decide ==
  /\ pc = "decide"
  /\ words' = [c \in IF disk = Nothing THEN {} ELSE Cases |-> WordOn(disk, c)]
  /\ pc' = "done"
  /\ UNCHANGED <<chosen, facts, at, disk, doc, tree, faults, unread>>

Next ==
  \/ RunOnce \/ WriteDocument
  \/ CollectRun \/ MapTraces
  \/ Check
  \/ Decide

Spec == Init /\ [][Next]_vars
-----------------------------------------------------------------------------
(* Properties. They read the facts, and of the document only whether a run  *)
(* was collected and whether the check results reached it.                  *)

Collected(r) == disk.entry[r].trace # Nothing
Filed(r) == Collected(r) /\ tree[disk.entry[r].trace].workspace # Nothing
ChecksSaid == disk = doc

\* What a run was truly asked for its score, and what of it was right.
Asked(r) ==
  (IF facts[r].flaw = "error" THEN {}
   ELSE Graders[r[1]] \ (Indicators(r[1]) \cup facts[r].skips))
  \cup (IF Collected(r) /\ ChecksSaid THEN Checks[r[1]] \ Advisory ELSE {})

Answered(r) ==
  {s \in Asked(r) : /\ s \in facts[r].right
                    /\ s \in Checks[r[1]] => Filed(r)
                    /\ ~(facts[r].flaw = "paid" /\ s \in Judged)}

\* What the plugin changed, from the facts: the shares of the right answers of
\* the with-arm less those of the baseline.
Share(r) ==
  IF Asked(r) = {} THEN 0 ELSE (Unit * Weights(Answered(r))) \div Weights(Asked(r))

Total(c, arm) ==
  SumFunctionOnSet([r \in RunIds(c, arm) |-> Share(r)], RunIds(c, arm))

Improved(c) ==
  /\ status[c] # "bare"
  /\ \A r \in RunIds(c, "with") \cup RunIds(c, "without") : facts[r].flaw # "paid"
  /\ Total(c, "with") - Total(c, "without") >= Threshold * reps

\* A run of the with-arm that did all that was asked of it.
Succeeded(r) ==
  /\ facts[r].flaw \notin {"error", "late", "denied"}
  /\ facts[r].skips = {}
  /\ Answered(r) = Asked(r)
  /\ Checks[r[1]] # {} /\ ChecksSaid => Collected(r)

\* A case that passes has earned it: it ran, each of its runs ended well, every
\* grader and every check that is not advisory was right about that run, and with
\* two arms the plugin made the difference asked for. Only a run whose trace was
\* not read may have been denied a tool, and only checks whose results could not be
\* written may have failed.
PassIsEarned ==
  pc = "done" =>
    \A c \in {d \in DOMAIN words : words[d] = "pass"} :
      /\ status[c] = "ran"
      /\ \A r \in RunIds(c, "with") :
           \/ Succeeded(r)
           \/ /\ facts[r].flaw = "denied"
              /\ ~Collected(r) \/ r \in unread
              /\ Answered(r) = Asked(r)
      /\ TwoArm => Improved(c)

\* A case that fails has a cause in what happened: the with-arm did not do
\* what was asked, or left nothing to check, or the delta is not there. An advisory
\* check that fails, and an indicator that does not fire, are never the cause.
FailIsExplained ==
  pc = "done" =>
    \A c \in {d \in DOMAIN words : words[d] = "fail"} :
      \/ status[c] = "skipped"
      \/ \E r \in RunIds(c, "with") : ~Succeeded(r)
      \/ TwoArm /\ ~Improved(c)

\* At every step, whatever failed to be written before it, the numbers of the
\* document on disk are those of its results: the score of each run, the means of
\* each case and of the suite, and the deltas.
ScoresMatchResults ==
  disk # Nothing /\ pc \in {"collect", "check", "decide"} =>
    /\ \A r \in DOMAIN disk.entry :
         LET e == disk.entry[r] IN
         /\ e.score * Weights(Scored(e.results)) = Unit * Weights(Right(e.results))
         /\ e.passed = (Scored(e.results) # {} /\ Scored(e.results) = Right(e.results))
    /\ \A c \in Ran :
         LET a == disk.agg[c] IN
         /\ a.score * reps = SumFunctionOnSet(
              [r \in RunIds(c, "with") |-> disk.entry[r].score], RunIds(c, "with"))
         /\ a.delta # Nothing =>
              (a.score - a.delta) * reps = SumFunctionOnSet(
                [r \in RunIds(c, "without") |-> disk.entry[r].score],
                RunIds(c, "without"))
    /\ LET counted == {c \in Cases : status[c] # "declared"}
           deltas == {c \in counted : disk.agg[c].delta # Nothing} IN
       /\ disk.suite.score * Cardinality(counted) =
            SumFunctionOnSet([c \in counted |-> disk.agg[c].score], counted)
       /\ IF deltas = {} THEN disk.suite.delta = Nothing
          ELSE disk.suite.delta * Cardinality(deltas) =
                 SumFunctionOnSet([c \in deltas |-> disk.agg[c].delta], deltas)

\* "the two arms are compared on the same assertions" (`checks.run`): in a case
\* with a delta, a check counts in every run or in none.
ArmsComparedAlike ==
  pc = "done" /\ disk # Nothing =>
    \A c \in {d \in Ran : disk.agg[d].delta # Nothing} :
      \A r \in RunIds(c, "with"), s \in RunIds(c, "without"), k \in Checks[c] :
        words[c] = "pass" =>
          (k \in Scored(disk.entry[r].results)) = (k \in Scored(disk.entry[s].results))

\* A directory has the files of one run ("a failure line and a directory name name
\* the same run", `run_dir`).
DirectoriesAreOwn ==
  \A d \in DOMAIN tree : tree[d].workspace = tree[d].trace /\ RunDir(tree[d].trace) = d

\* "A failed grader fails the run whatever its class" (verdict.py).
FailedGraderFails ==
  pc = "done" =>
    \A c \in Ran \cap DOMAIN words : words[c] = "pass" =>
      \A r \in RunIds(c, "with") :
        \A s \in DOMAIN disk.entry[r].results :
          s \in Graders[c] /\ ~disk.entry[r].results[s].passed =>
            ~disk.entry[r].results[s].scored
=============================================================================
