------------------------------- MODULE Sweep -------------------------------
(***************************************************************************)
(* One invocation of `run`, src/cowork_evals/cli.py: preflight, validation, *)
(* selection, pruning, the run directory, consent, every plugin in turn on  *)
(* one of the two backends with its traces and checks collected whatever    *)
(* the backend did, one verdict over the documents, and the history.        *)
(*                                                                         *)
(* The CoWork backend, src/cowork_evals/cowork_backend.py, is modelled run  *)
(* by run, because other processes submit to the same account meanwhile;    *)
(* the container backend is one step that may leave any document or none.   *)
(* What a document says is abstracted to the word the verdict reaches on    *)
(* each case; how it is reached is the module Verdict.                      *)
(***************************************************************************)
EXTENDS Naturals, FiniteSets, Sequences, SequencesExt

CONSTANTS
  Backends,     \* the backends there are: "docker", "cowork" or both
  TargetsOn,    \* the plugins of an invocation on each, in the order of the sweep
  NameOf,       \* the name in each plugin's manifest
  Cases,        \* every case of every plugin
  PluginOn,     \* the plugin each case is in, on each backend
  Checked,      \* the cases that have checks
  Runs,         \* how often each case runs
  MaxRuns,      \* cowork.max_runs
  CostCeiling,  \* eval.max_cost_total_usd
  MaxCost,      \* bound: what one plugin costs, the judges of its checks included
  FaultsOn,     \* what may go wrong in the checks beside a check that fails
  TreeFaults,   \* what may be wrong with a case file
  MaxOthers,    \* bound: the submissions of other processes
  MaxEdits,     \* bound: how often a case is broken while `run` runs
  Nothing       \* no document, no verdict, no exit code

\* What a backend raises past `except (DockerError, CaseError)`.
Raisable == {"interrupt", "CoWorkError", "other"}
Codes == {"0", "1", "2", "3", "130", "traceback"}

\* What the verdict reaches on a case, and a document of these words.
Reached == {"pass", "fail", "declared"}
Documents ==
  [words : UNION {[set -> Reached] : set \in SUBSET Cases},
   cost : 0 .. MaxCost, partial : BOOLEAN]

\* A directory: a plugin's name and how many have had it.
Directories == Range(NameOf) \X Nat

\* A decision and its outcomes, each of a case in the directory of a plugin.
Verdicts ==
  [passed : BOOLEAN, outcomes : SUBSET (Directories \X Cases \X Reached)]

ASSUME SweepAssumption ==
  /\ Backends \subseteq {"docker", "cowork"}
  /\ \A b \in Backends :
       /\ TargetsOn[b] \in Seq(DOMAIN NameOf) /\ IsInjective(TargetsOn[b])
       /\ PluginOn[b] \in [Cases -> Range(TargetsOn[b])]
       /\ b = "cowork" => Len(TargetsOn[b]) = 1
       /\ FaultsOn[b] \subseteq {"unwritten", "raises", "exits"}
  /\ Checked \subseteq Cases
  /\ {Runs, MaxRuns, CostCeiling, MaxCost, MaxOthers, MaxEdits} \subseteq Nat
  /\ TreeFaults \subseteq {"improper", "unreadable", "mistyped", "timeless"}
  /\ Nothing \notin Raisable \cup Codes \cup Documents \cup Verdicts

VARIABLES
  pc,         \* the step `run` is at
  backend,    \* the backend of the invocation
  dry,        \* --dry-run
  keep,       \* whether traces are kept
  tree,       \* what is wrong with each case, "ok" when nothing is
  declared,   \* the cases that carry no-cowork
  picked,     \* the cases the filters keep
  logged,     \* the submissions of the trailing day, as the run log has them
  others,     \* how many of them other processes made
  edits,      \* how many cases were broken
  at,         \* how many plugins the sweep has started
  touched,    \* what was done to the log root: old runs deleted, a run created
  docs,       \* the document of each plugin directory, Nothing when it has none
  runs,       \* the runs of the CoWork suite so far, per case
  raised,     \* what the backend raised past the handler, until the checks end
  stopped,    \* whether the sweep has a warning for the verdict
  verdict,    \* the decision, once there is one
  recorded,   \* what the history was given
  broken,     \* history: the cases with a failed check that the document has
  unsaid,     \* history: those with one that could not be written to it
  exit        \* the exit code, or "traceback"

inputs == <<backend, dry, keep, declared, picked>>
world == <<tree, logged, others, edits>>
checked == <<broken, unsaid>>
suite == <<at, docs, runs, raised, stopped, checked>>
ending == <<verdict, recorded, exit>>
vars == <<pc, inputs, world, suite, touched, ending>>

Targets == TargetsOn[backend]
PluginOf == PluginOn[backend]
CheckFaults == FaultsOn[backend]

\* Mutant of Child: the suffix is left off.
ChildByName(n) == <<NameOf[Targets[n]], 1>>

\* `plugin_dir`: the name of the manifest, with a suffix when it is taken.
Child(n) ==
  <<NameOf[Targets[n]],
    Cardinality({k \in 1 .. n : NameOf[Targets[k]] = NameOf[Targets[n]]})>>

\* The cases of the plugin the sweep is at.
Here == {c \in Cases : PluginOf[c] = Targets[at]}

\* What the CoWork suite submits, and whether it would go over the ceiling.
Submitted == picked \ declared
OverCeiling == Cardinality(Submitted) * Runs + logged > MaxRuns

\* `discover` reads every case; `plan` also reads the keys of those picked.
Undiscoverable == \E c \in Cases : tree[c] = "unreadable"
Unplannable == Undiscoverable \/ \E c \in picked : tree[c] = "mistyped"

\* `spend`: the costs the documents give; a plugin with none contributes nothing,
\* whatever was spent on it.
Spent == SumFunction([d \in DOMAIN docs |->
           IF docs[d] = Nothing THEN 0 ELSE docs[d].cost])

Keep(d, doc) == [x \in DOMAIN docs \cup {d} |-> IF x = d THEN doc ELSE docs[x]]

Steps == {"start", "preflight", "validate", "select", "prune", "rundir",
          "consent", "spend", "backend", "suite", "traces", "checks", "verdict",
          "record", "ended"}

TypeOK ==
  /\ pc \in Steps /\ backend \in Backends
  /\ dry \in BOOLEAN /\ keep \in BOOLEAN
  /\ tree \in [Cases -> TreeFaults \cup {"ok", "unreadable"}]
  /\ declared \subseteq Cases /\ picked \subseteq Cases
  /\ logged \in Nat /\ others \in 0 .. MaxOthers /\ edits \in 0 .. MaxEdits
  /\ at \in 0 .. Len(Targets)
  /\ touched \subseteq {"deleted", "created"} /\ stopped \in BOOLEAN
  /\ DOMAIN docs = {Child(n) : n \in 1 .. at}
  /\ runs \in [Cases -> Seq({"pass", "fail", "error"})]
  /\ \A c \in Cases : Len(runs[c]) <= Runs
  /\ docs \in [DOMAIN docs -> Documents \cup {Nothing}]
  /\ raised \in Raisable \cup {Nothing} /\ verdict \in Verdicts \cup {Nothing}
  /\ broken \subseteq Checked /\ unsaid \subseteq Checked
  /\ exit \in Codes \cup {Nothing}
  /\ (exit # Nothing) = (pc = "ended")

Init ==
  /\ pc = "start"
  /\ backend \in Backends
  /\ dry \in BOOLEAN /\ keep \in BOOLEAN
  /\ tree \in [Cases -> TreeFaults \cup {"ok"}]
  /\ declared \in IF backend = "cowork" THEN SUBSET Cases ELSE {{}}
  /\ picked \in SUBSET Cases
  /\ logged \in 0 .. MaxRuns /\ others = 0 /\ edits = 0
  /\ at = 0 /\ docs = <<>> /\ runs = [c \in Cases |-> <<>>]
  /\ touched = {} /\ raised = Nothing /\ stopped = FALSE
  /\ verdict = Nothing /\ recorded = {} /\ broken = {} /\ unsaid = {} /\ exit = Nothing

End(code) ==
  /\ pc' = "ended"
  /\ exit' = code
  /\ UNCHANGED <<inputs, world, suite, touched, verdict, recorded>>

Go(step) ==
  /\ pc' = step
  /\ UNCHANGED <<inputs, world, suite, touched, ending>>
-----------------------------------------------------------------------------
(* `_run`, up to the sweep.                                                *)

\* `plugin_roots`: the path holds no plugin.
Start ==
  /\ pc = "start"
  /\ End("2") \/ Go(IF dry THEN "validate" ELSE "preflight")

\* `_run_preflight`: a condition of the backend, and on CoWork the ceiling.
Preflight ==
  /\ pc = "preflight"
  /\ \/ End("3")
     \/ backend = "docker" /\ Go("validate")
     \/ backend = "cowork" /\ Unplannable /\ End("traceback")
     \/ backend = "cowork" /\ ~Unplannable /\ OverCeiling /\ End("3")
     \/ backend = "cowork" /\ ~Unplannable /\ ~OverCeiling /\ Go("validate")

Improper == \E c \in Cases : tree[c] = "improper"

Validate ==
  /\ pc = "validate"
  /\ \/ Undiscoverable /\ End("traceback")
     \/ ~Undiscoverable /\ Improper /\ End("3")
     \/ ~Undiscoverable /\ ~Improper /\ Go("select")

\* Mutant of Select: the log root is pruned before the selection is looked at.
SelectPrunesFirst ==
  /\ pc = "select"
  /\ \/ Undiscoverable /\ End("traceback")
     \/ /\ ~Undiscoverable /\ picked = {}
        /\ pc' = "ended" /\ exit' = "2" /\ touched' = {"deleted"}
        /\ UNCHANGED <<inputs, world, suite, verdict, recorded>>
     \/ ~Undiscoverable /\ picked # {} /\ Go("prune")

Select ==
  /\ pc = "select"
  /\ \/ Undiscoverable /\ End("traceback")
     \/ ~Undiscoverable /\ picked = {} /\ End("2")
     \/ ~Undiscoverable /\ picked # {} /\ Go("prune")

\* One run directory or more is older than the prune age (module LogRoot).
DeleteOld ==
  /\ pc = "prune" /\ "deleted" \notin touched
  /\ touched' = touched \cup {"deleted"}
  /\ UNCHANGED <<pc, inputs, world, suite, ending>>

\* Mutant of Prune: a dry run makes its run directory first.
PruneThenMake ==
  /\ pc = "prune"
  /\ Go("rundir")

\* `logs.prune` is over, or raises OSError; then a dry run prints its plan and is done.
Prune ==
  /\ pc = "prune"
  /\ \/ End("traceback")
     \/ ~dry /\ Go("rundir")
     \/ dry /\ backend = "cowork" /\ Unplannable /\ End("traceback")
     \/ dry /\ (backend = "docker" \/ ~Unplannable) /\ End("0")

MakeRunDir ==
  /\ pc = "rundir"
  /\ touched' = touched \cup {"created"}
  /\ pc' = IF backend = "cowork" THEN "consent" ELSE "spend"
  /\ UNCHANGED <<inputs, world, suite, ending>>
-----------------------------------------------------------------------------
(* `_each_plugin`.                                                         *)

Stop ==
  /\ pc' = "verdict"
  /\ stopped' = TRUE
  /\ UNCHANGED <<inputs, world, touched, at, docs, runs, raised, checked, ending>>

Consent ==
  /\ pc = "consent"
  /\ Go("spend") \/ Stop

\* Mutant of SpendCheck: the ceiling itself is still in bounds.
SpendCheckOver ==
  /\ pc = "spend"
  /\ IF at = Len(Targets) THEN Go("verdict")
     ELSE IF Spent > CostCeiling THEN Stop
     ELSE /\ pc' = "backend"
          /\ at' = at + 1
          /\ docs' = Keep(Child(at + 1), Nothing)
          /\ UNCHANGED <<inputs, world, touched, runs, raised, stopped, checked,
                         ending>>

\* The total is read before each plugin, the first included.
SpendCheck ==
  /\ pc = "spend"
  /\ IF at = Len(Targets) THEN Go("verdict")
     ELSE IF Spent >= CostCeiling THEN Stop
     ELSE /\ pc' = "backend"
          /\ at' = at + 1
          /\ docs' = Keep(Child(at + 1), Nothing)
          /\ UNCHANGED <<inputs, world, touched, runs, raised, stopped, checked,
                         ending>>

\* The container leaves a document, whole or partial, or none (DockerError).
RunContainer ==
  /\ pc = "backend" /\ backend = "docker"
  /\ \/ UNCHANGED docs
     \/ \E partial \in BOOLEAN, cost \in 0 .. MaxCost,
           ran \in SUBSET (picked \cap Here) :
          /\ partial \/ ran = picked \cap Here
          /\ \E words \in [ran -> {"pass", "fail"}] :
               docs' = Keep(Child(at), [words |-> words, cost |-> cost,
                                        partial |-> partial])
  /\ pc' = "traces"
  /\ UNCHANGED <<inputs, world, touched, at, runs, raised, stopped, checked, ending>>

\* `cowork_backend.plan`, read again: its CaseError is the plugin's warning, and
\* the ceiling raises CoWorkError.
Plan ==
  /\ pc = "backend" /\ backend = "cowork"
  /\ pc' = IF Unplannable \/ OverCeiling THEN "traces" ELSE "suite"
  /\ raised' = IF ~Unplannable /\ OverCeiling THEN "CoWorkError" ELSE Nothing
  /\ UNCHANGED <<inputs, world, touched, at, docs, runs, stopped, checked, ending>>

\* The cases that have runs left; one is done before the next begins.
Unfinished == {c \in Submitted : Len(runs[c]) < Runs}

\* One submission: over the ceiling it is refused and is not in the log, and
\* whatever else happens it is an entry of the case.
RunOnce(c) ==
  /\ pc = "suite"
  /\ c \in Unfinished
  /\ \A d \in Unfinished \ {c} : runs[d] = <<>>
  /\ tree[c] # "timeless"
  /\ \/ /\ logged >= MaxRuns
        /\ runs' = [runs EXCEPT ![c] = Append(@, "error")]
        /\ UNCHANGED logged
     \/ /\ logged < MaxRuns
        /\ logged' = logged + 1
        /\ \E word \in {"pass", "fail", "error"} :
             runs' = [runs EXCEPT ![c] = Append(@, word)]
  /\ UNCHANGED <<pc, inputs, tree, others, edits, touched, at, docs, raised, stopped,
                 checked, ending>>

\* Mutant of RefuseTimeout: the refusal is swallowed and the case tried again.
RefuseTimeoutAgain(c) ==
  /\ pc = "suite"
  /\ c \in Unfinished /\ tree[c] = "timeless"
  /\ \A d \in Unfinished : runs[d] = <<>>
  /\ UNCHANGED vars

\* The driver of a case refuses a negative timeout before its first run.
RefuseTimeout(c) ==
  /\ pc = "suite"
  /\ c \in Unfinished /\ tree[c] = "timeless"
  /\ \A d \in Unfinished : runs[d] = <<>>
  /\ pc' = "traces"
  /\ raised' = "CoWorkError"
  /\ UNCHANGED <<inputs, world, touched, at, docs, runs, stopped, checked, ending>>

\* Mutant of Word: one run that passed is enough.
WordAnyPass(c) ==
  IF c \in declared THEN "declared"
  ELSE IF \E k \in 1 .. Len(runs[c]) : runs[c][k] = "pass" THEN "pass"
  ELSE "fail"

\* Mutant of Word: a declared case counts as a case that did not run.
WordDeclaredFails(c) ==
  IF c \notin declared /\ \A k \in 1 .. Len(runs[c]) : runs[c][k] = "pass"
  THEN "pass" ELSE "fail"

\* The word the verdict will reach on a case: a case fails by a run.
Word(c) ==
  IF c \in declared THEN "declared"
  ELSE IF \A k \in 1 .. Len(runs[c]) : runs[c][k] = "pass" THEN "pass"
  ELSE "fail"

\* Mutant of WriteSuite: only what was submitted is in the document.
WriteSubmitted ==
  /\ pc = "suite"
  /\ Unfinished = {}
  /\ \E cost \in 0 .. MaxCost :
       docs' = Keep(Child(at), [words |-> [c \in Submitted |-> Word(c)],
                                cost |-> cost, partial |-> FALSE])
  /\ pc' = "traces"
  /\ UNCHANGED <<inputs, world, touched, at, runs, raised, stopped, checked, ending>>

WriteSuite ==
  /\ pc = "suite"
  /\ Unfinished = {}
  /\ \E cost \in 0 .. MaxCost :
       docs' = Keep(Child(at), [words |-> [c \in picked |-> Word(c)],
                                cost |-> cost, partial |-> FALSE])
  /\ pc' = "traces"
  /\ UNCHANGED <<inputs, world, touched, at, runs, raised, stopped, checked, ending>>

\* Control-C in the backend, or an exception nothing catches: the re.error of a glob
\* that does not compile (module Grading), the OSError of a log or a document. The run
\* it ends may be in the log already. The traces and the checks still run.
BackendEscapes ==
  /\ pc \in {"backend", "suite"}
  /\ pc' = "traces"
  /\ raised' \in {"interrupt", "other"}
  /\ \/ UNCHANGED logged
     \/ pc = "suite" /\ Unfinished # {} /\ logged < MaxRuns /\ logged' = logged + 1
  /\ UNCHANGED <<inputs, tree, others, edits, touched, at, docs, runs, stopped,
                 checked, ending>>

\* d's document with the cases in set failed.
Failing(d, set) ==
  Keep(d, [docs[d] EXCEPT !.words =
             [c \in DOMAIN @ |-> IF c \in set THEN "fail" ELSE @[c]]])

\* `traces.collect`: a tool denied or never offered fails the runs it is found in.
\* It rewrites the document too, and may leave none that can be read.
CollectTraces ==
  /\ pc = "traces"
  /\ pc' = "checks"
  /\ \/ UNCHANGED docs
     \/ /\ keep /\ backend = "docker" /\ docs[Child(at)] # Nothing
        /\ \E bad \in SUBSET DOMAIN docs[Child(at)].words :
             docs' = Failing(Child(at), bad)
     \/ /\ keep /\ "unwritten" \in CheckFaults /\ docs[Child(at)] # Nothing
        /\ docs' = Keep(Child(at), Nothing)
  /\ UNCHANGED <<inputs, world, touched, at, runs, raised, stopped, checked, ending>>

\* The cases of the document whose checks run.
ToCheck ==
  IF docs[Child(at)] = Nothing THEN {}
  ELSE {c \in DOMAIN docs[Child(at)].words :
          c \in Checked /\ docs[Child(at)].words[c] # "declared"}

\* The `finally` is over: the next plugin, or on with what was raised.
AfterFinally ==
  CASE raised = Nothing -> pc' = "spend" /\ exit' = Nothing
    [] raised = "interrupt" -> pc' = "ended" /\ exit' = "130"
    [] OTHER -> pc' = "ended" /\ exit' = "traceback"

\* Mutant of RunChecks: the failures are printed and the document stays.
RunChecksPrints ==
  /\ pc = "checks"
  /\ \E bad \in SUBSET ToCheck :
       /\ keep \/ bad = ToCheck
       /\ broken' = broken \cup bad
  /\ AfterFinally
  /\ UNCHANGED <<inputs, world, touched, at, docs, runs, raised, stopped, unsaid,
                 verdict, recorded>>

\* `checks.run`: the checks that fail are in the document it rewrites, every one
\* of them when there are no traces to read.
RunChecks ==
  /\ pc = "checks"
  /\ \E bad \in SUBSET ToCheck :
       /\ keep \/ bad = ToCheck
       /\ docs' = IF ToCheck = {} THEN docs ELSE Failing(Child(at), bad)
       /\ broken' = broken \cup bad
  /\ AfterFinally
  /\ UNCHANGED <<inputs, world, touched, at, runs, raised, stopped, unsaid, verdict,
                 recorded>>

\* The document cannot be rewritten: a warning, and the document as it was, or none
\* that can be read when it was cut first.
ChecksUnwritten ==
  /\ pc = "checks" /\ "unwritten" \in CheckFaults /\ ToCheck # {}
  /\ \E bad \in SUBSET ToCheck :
       /\ keep \/ bad = ToCheck
       /\ unsaid' = unsaid \cup bad
  /\ docs' \in {docs, Keep(Child(at), Nothing)}
  /\ AfterFinally
  /\ UNCHANGED <<inputs, world, touched, at, runs, raised, stopped, broken, verdict,
                 recorded>>

\* What a check or the layer around it raises past `except Exception`.
ChecksEscape ==
  /\ pc = "checks" /\ keep /\ ToCheck # {}
  /\ \/ "raises" \in CheckFaults /\ End("traceback")
     \/ "exits" \in CheckFaults /\ End("0")
-----------------------------------------------------------------------------
(* The verdict and the history.                                            *)

Outcomes ==
  {o \in (DOMAIN docs) \X Cases \X Reached :
     /\ docs[o[1]] # Nothing
     /\ o[2] \in DOMAIN docs[o[1]].words
     /\ o[3] = docs[o[1]].words[o[2]]}

\* `verdict.decide`, and verdict.txt.
Decide ==
  /\ pc = "verdict"
  /\ verdict' = [passed |-> /\ ~stopped
                            /\ \A d \in DOMAIN docs :
                                 docs[d] # Nothing /\ ~docs[d].partial
                            /\ \A o \in Outcomes : o[3] # "fail",
                 outcomes |-> Outcomes]
  /\ pc' = "record"
  /\ UNCHANGED <<inputs, world, suite, touched, recorded, exit>>

\* `panel.append` writes one case file after another.
RecordCase ==
  /\ pc = "record"
  /\ \E o \in verdict.outcomes \ recorded : recorded' = recorded \cup {o}
  /\ UNCHANGED <<pc, inputs, world, suite, touched, verdict, exit>>

\* Mutant of Record: the OSError of a case file is not caught.
RecordRaises ==
  /\ pc = "record"
  /\ pc' = "ended"
  /\ exit' = IF recorded # verdict.outcomes THEN "traceback"
             ELSE IF verdict.passed THEN "0" ELSE "1"
  /\ UNCHANGED <<inputs, world, suite, touched, verdict, recorded>>

\* `_record` is over: every case is written, or an OSError, which is a warning, came
\* after some of them.
Record ==
  /\ pc = "record"
  /\ pc' = "ended"
  /\ exit' = IF verdict.passed THEN "0" ELSE "1"
  /\ UNCHANGED <<inputs, world, suite, touched, verdict, recorded>>

\* Control-C anywhere else: main's handler. Between two case files of the history it
\* leaves the records written so far.
Interrupt ==
  /\ pc \notin {"ended", "backend", "suite"}
  /\ End("130")
-----------------------------------------------------------------------------
(* What passes outside.                                                    *)

OtherSubmits ==
  /\ backend = "cowork" /\ pc # "ended"
  /\ others < MaxOthers
  /\ others' = others + 1
  /\ logged' = logged + 1
  /\ UNCHANGED <<pc, inputs, tree, edits, suite, touched, ending>>

\* A case file is broken after it was read.
Edit ==
  /\ edits < MaxEdits /\ pc # "ended"
  /\ \E c \in Cases :
       tree[c] = "ok" /\ tree' = [tree EXCEPT ![c] = "unreadable"]
  /\ edits' = edits + 1
  /\ UNCHANGED <<pc, inputs, logged, others, suite, touched, ending>>

\* The steps of the process itself.
OwnSteps ==
  \/ Start \/ Validate \/ Select \/ DeleteOld \/ Prune \/ MakeRunDir
  \/ SpendCheck \/ Plan
  \/ \E c \in Cases : RefuseTimeout(c)
  \/ WriteSuite \/ CollectTraces \/ Decide

\* The steps that end a wait for something else: docker, osascript, the container, a
\* session and its judges, a check, the lock of a case file. None but the session has
\* a timeout (Docker.run, checks.execute, judge.ask, panel.append).
Returns ==
  \/ Preflight \/ Consent \/ RunContainer
  \/ \E c \in Cases : RunOnce(c)
  \/ RunChecks \/ ChecksUnwritten \/ ChecksEscape
  \/ RecordCase \/ Record

Next ==
  \/ OwnSteps \/ Returns
  \/ Interrupt \/ BackendEscapes
  \/ OtherSubmits \/ Edit

Spec == Init /\ [][Next]_vars

\* The process is scheduled, and whatever it waits for returns: the code guarantees
\* only the first. Nobody is obliged to interrupt or to submit.
FairSpec == Spec /\ WF_vars(OwnSteps) /\ WF_vars(Returns)
-----------------------------------------------------------------------------
(* Properties.                                                             *)

\* Exit 0 means what it says: the sweep went through every plugin, each left a
\* whole document in a directory of its own, every picked case is in it, and
\* passed every run and every check unless it declared that it cannot run.
GreenMeansGreen ==
  exit = "0" /\ ~dry /\ verdict # Nothing =>
    /\ verdict.passed
    /\ at = Len(Targets)
    /\ Cardinality(DOMAIN docs) = Len(Targets)
    /\ \A n \in 1 .. at : docs[Child(n)] # Nothing
    /\ \A n \in 1 .. at, c \in picked :
         PluginOf[c] = Targets[n] =>
           /\ c \in DOMAIN docs[Child(n)].words
           /\ docs[Child(n)].words[c] =
                IF c \in declared THEN "declared" ELSE "pass"
    /\ backend = "cowork" =>
         \A c \in Submitted : runs[c] = [k \in 1 .. Runs |-> "pass"]
    /\ broken = {}

\* Red on CoWork has a cause the operator can find: consent refused or the cost
\* ceiling, a run that did not pass, a check that failed, or an edited tree. It is
\* of layers that can write the document: one that is lost when its rewriting fails
\* ("unwritten" in FaultsOn["cowork"]) is a red with no such cause.
RedIsExplained ==
  exit = "1" /\ backend = "cowork" =>
    \/ stopped
    \/ broken # {}
    \/ edits > 0
    \/ \E c \in Submitted : Range(runs[c]) \ {"pass"} # {}

\* "exit 2 and exit 3 leave the log root exactly as it was" (`_run`): nothing in it is
\* deleted either. A dry run has pruned it, as any run does; but like a refusal it
\* creates no run directory, submits nothing and records nothing.
RefusalLeavesNothing ==
  /\ exit \in {"2", "3"} => touched = {}
  /\ exit \in {"2", "3"} \/ dry =>
       /\ "created" \notin touched /\ docs = <<>> /\ recorded = {}
       /\ \A c \in Cases : runs[c] = <<>>

\* The history gets records only of an invocation that was decided, each as it was
\* decided: none of a refusal or of one that ends in a traceback, though a Control-C
\* between two case files leaves some of a sweep that exits 130. A pass in it was
\* earned: no check of the case failed, and on CoWork no run did.
RecordsAreEarned ==
  /\ recorded # {} =>
       verdict # Nothing /\ exit \notin {"2", "3", "traceback"}
  /\ \A o \in recorded :
       /\ docs[o[1]] # Nothing /\ o[3] = docs[o[1]].words[o[2]]
       /\ o[3] = "pass" =>
            /\ o[2] \notin broken
            /\ backend = "cowork" => Range(runs[o[2]]) \subseteq {"pass"}

\* What the documents say was spent overruns the total ceiling by one plugin at most.
\* It is no bound on the money: a plugin that spent and left no document counts zero.
SpendIsBounded == Spent = 0 \/ Spent < CostCeiling + MaxCost

\* `run` ends, whatever comes back from the backend, the checks and the others, as long
\* as something does: everything it waits for returns (FairSpec).
Ends == <>(pc = "ended")

\* "`cowork_backend.run` raises on the same condition, which is that backend's
\* own guard and is unreachable behind this check" (`cowork_ceiling`).
GuardIsUnreachable == raised # "CoWorkError"

\* A malformed case exits 3 (docs/cli.md).
MalformedCaseExits3 ==
  pc = "ended" /\ (\E c \in Cases : tree[c] = "unreadable") => exit \in {"2", "3", "130"}

\* A failed check fails the run (docs/running_evals.md).
FailedCheckFails == broken \cup unsaid # {} => exit # "0"

\* Exit 0 follows a verdict (`_sweep`).
GreenHasVerdict == exit = "0" /\ ~dry => verdict # Nothing

\* "a backend cannot go green by honouring nothing" (verdict.py).
GreenRanSomething ==
  exit = "0" /\ ~dry /\ Submitted # {} => \E c \in Submitted : runs[c] # <<>>
=============================================================================
