------------------------------ MODULE CaseTree ------------------------------
(***************************************************************************)
(* What a run selects and what it validates, src/cowork_evals/cases.py and  *)
(* validate.py, and which cases the CoWork backend submits,                 *)
(* src/cowork_evals/cowork_backend.py: pure functions of a directory tree   *)
(* and of one case, so the state is the tree and the case they are given.   *)
(*                                                                         *)
(* The harness, which reads the same cases on the other backend, is          *)
(* external: it takes case.yaml as the base, lets the frontmatter override   *)
(* it, and adds up the mocks of every layer.                                 *)
(***************************************************************************)
EXTENDS Naturals, FiniteSets

CONSTANTS
  Dirs,      \* the directories
  Top,       \* the one above all the others
  Parent,    \* the directory each of the others is in
  Plugins,   \* those that carry a plugin manifest
  Evals,     \* those named evals
  Pruned,    \* those the harness never descends into
  Fronts,    \* the sets of keys an author may write in the frontmatter
  Yamls,     \* and in case.yaml
  Layers     \* the directories from evals/ to the case that may hold mocks

ASSUME TreeAssumption ==
  /\ IsFiniteSet(Dirs) /\ Top \in Dirs
  /\ Parent \in [Dirs \ {Top} -> Dirs]
  /\ \A S \in SUBSET Dirs : S # {} => \E d \in S : d = Top \/ Parent[d] \notin S
  /\ Plugins \subseteq Dirs /\ Pruned \subseteq Dirs
  /\ Evals \subseteq Dirs \ {Top}

VARIABLES
  prompts,  \* the directories that hold a prompt.md
  target,   \* the path of the command line
  case      \* one case: the keys of its two files, where its tags carry
            \* no-cowork, the layers that hold mocks, and what else is wrong
-----------------------------------------------------------------------------
(* The tree.                                                               *)

\* A directory and those above it.
Above[d \in Dirs] == IF d = Top THEN {Top} ELSE {d} \cup Above[Parent[d]]

Children(d) == {c \in Dirs \ {Top} : Parent[c] = d}

EvalsOf(p) == {e \in Evals : Parent[e] = p}

\* `plugin_root`: the nearest manifest at or above.
NearestRoot(d) ==
  {p \in Plugins \cap Above[d] : Plugins \cap Above[d] \subseteq Above[p]}

\* `plugin_roots`: those below the target, or else the one it is in.
PluginRoots ==
  LET below == {p \in Plugins : target \in Above[p] /\ EvalsOf(p) # {}} IN
  IF below # {} THEN below ELSE NearestRoot(target)

\* `_targets`: a single root runs the path as it was typed.
Targets == IF Cardinality(PluginRoots) = 1 THEN {target} ELSE PluginRoots

\* Mutant of CaseDirectories: a case is searched through.
CaseDirectoriesThrough ==
  LET below[d \in Dirs] ==
        ({d} \cap prompts) \cup UNION {below[c] : c \in Children(d) \ Pruned}
  IN below

\* `_case_directories`: a case is a leaf, and what is pruned is not entered.
CaseDirectories ==
  LET below[d \in Dirs] ==
        IF d \in prompts THEN {d}
        ELSE UNION {below[c] : c \in Children(d) \ Pruned}
  IN below

Selected == UNION {CaseDirectories[d] : d \in Targets}

Validated ==
  UNION {CaseDirectories[e] : e \in UNION {EvalsOf(p) : p \in PluginRoots}}
-----------------------------------------------------------------------------
(* The keys of a case.                                                     *)

PromptKeys == {"name", "description", "tags", "plugins", "runs", "max_turns",
  "timeout_seconds", "model", "allowed_tools", "append_system_prompt", "env",
  "schema_version", "expected_outcome"}

RequiredPromptKeys == {"name", "tags", "plugins"}

ContextKeys ==
  {"context.scaffold_script", "context.history_file", "context.add_dirs"}

CaseYamlKeys == {"schema_version", "name"} \cup ContextKeys

RequiredCaseYamlKeys == {"schema_version", "name"}

UnhonouredCaseKeys ==
  {"max_turns", "model", "allowed_tools", "append_system_prompt", "env"}

\* What else the validator looks at, and the key it looks at it for.
CaseFlaws == {"cap", "env-prefix", "skill-tag", "plugins", "schema-version",
          "add-dirs", "grader-frontmatter", "grader-type", "grader-weight",
          "check-empty", "check-import", "check-duplicate"}

Bites(flaw) ==
  CASE flaw = "cap" -> "runs" \in case.front
    [] flaw = "env-prefix" -> "env" \in case.front
    [] flaw = "skill-tag" -> "tags" \in case.front
    [] flaw = "plugins" -> "plugins" \in case.front
    [] flaw = "schema-version" -> "schema_version" \in case.yaml
    [] flaw = "add-dirs" -> "context.add_dirs" \in case.yaml
    [] OTHER -> TRUE

\* `no_cowork`: the tags of the frontmatter, or those of case.yaml without them.
NoCoWork ==
  \/ "tags" \in case.front /\ "front" \in case.tagged
  \/ "tags" \in case.yaml \ case.front /\ "yaml" \in case.tagged

\* Mutant of Unrunnable: only the mocks of the case itself.
UnrunnableHere ==
  \/ case.front \cap UnhonouredCaseKeys # {}
  \/ case.yaml \cap ContextKeys # {}
  \/ "case" \in case.mocks

\* `unrunnable`: the frontmatter, case.yaml's context, and the mocks of any layer.
Unrunnable ==
  \/ case.front \cap UnhonouredCaseKeys # {}
  \/ case.yaml \cap ContextKeys # {}
  \/ case.mocks # {}

\* `_case_violations`, by rule.
Violations ==
  {rule \in {"required-key"} :
     \/ ~(RequiredPromptKeys \subseteq case.front)
     \/ case.yaml # {} /\ ~(RequiredCaseYamlKeys \subseteq case.yaml)}
  \cup {rule \in {"unknown-key"} :
     \/ ~(case.front \subseteq PromptKeys)
     \/ ~(case.yaml \subseteq CaseYamlKeys)}
  \cup {rule \in {"no-cowork-missing"} : Unrunnable /\ ~NoCoWork}
  \cup {rule \in {"no-cowork-unneeded"} : NoCoWork /\ ~Unrunnable}
  \cup {flaw \in case.flaws : Bites(flaw)}

\* `declared`: the tag decides.
Declared == NoCoWork

\* What a submission honours: the frontmatter, less what reaches no session.
HonouredHere == case.front \ UnhonouredCaseKeys

\* External: what the harness reads of the case, over both files and every layer.
AskedFor == case.front \cup case.yaml
AskedOfHost ==
  AskedFor \cap (UnhonouredCaseKeys \cup ContextKeys) # {} \/ case.mocks # {}
-----------------------------------------------------------------------------
(* The inputs.                                                             *)

AnyCase ==
  [front : Fronts, yaml : Yamls,
   tagged : SUBSET {"front", "yaml"}, mocks : SUBSET Layers,
   flaws : {{}} \cup {{f} : f \in CaseFlaws}]

PlainCase == [front |-> RequiredPromptKeys, yaml |-> {}, tagged |-> {},
              mocks |-> {}, flaws |-> {}]

\* Every tree with a plain case, and every case in a tree of one.
TreeInit ==
  \/ prompts \in SUBSET Dirs /\ target \in Dirs /\ case = PlainCase
  \/ prompts = {} /\ target = Top /\ case \in AnyCase
-----------------------------------------------------------------------------
(* Properties.                                                             *)

\* No directory from below base down to d is pruned, and none from base to above
\* d is a case: the definition of what is found from base.
InSight(d, base) ==
  /\ base \in Above[d]
  /\ \A b \in Above[d] \ Above[base] : b \notin Pruned
  /\ \A b \in (Above[d] \ Above[base]) \cup {base} : b # d => b \notin prompts

\* What runs of an evals/ tree is what was validated of it, wherever below it the
\* path points. The only cases that run unvalidated lie outside of every evals/
\* of the selected plugins, or below a case or a pruned directory that the path
\* points into; every validated case at or below the path runs, unless a case at
\* or below the path has it in its own tree.
ValidatedIsSelected ==
  PluginRoots # {} =>
    LET evals == UNION {EvalsOf(p) : p \in PluginRoots}
        inside(c) == {e \in evals : e \in Above[c]}
    IN
    /\ \A c \in Selected \ Validated :
         \A e \in inside(c) :
           \E b \in (Above[c] \ Above[e]) \cup {e}, t \in Targets :
             b \in Pruned \cup (prompts \ {c}) /\ b \in Above[t]
    /\ \A c \in Validated : target \in Above[c] =>
         c \in Selected \/ \E t \in Targets : t \in Above[c] /\ ~InSight(c, t)
    /\ \A c \in prompts : (c \in Selected) = (\E t \in Targets : InSight(c, t))

\* A case without violations means the same on both backends: it is declared
\* exactly when the harness would be asked for something that no session offers,
\* and otherwise a submission honours all that the harness reads of it, apart
\* from the version that case.yaml has to carry.
ValidIsPortable ==
  Violations = {} =>
    /\ Declared <=> AskedOfHost
    /\ ~Declared => AskedFor \ {"schema_version"} \subseteq HonouredHere
=============================================================================
