------------------------------ MODULE MCCases ------------------------------
(* The pure parts of a run, each over its own inputs: every tree of a         *)
(* repository of two plugins and every case of a few keys, with nothing to    *)
(* grade; and every grader over every session, in an empty tree.             *)
EXTENDS CaseTree, Grading, TLC

Up == ("plugin" :> "repo") @@ ("evals" :> "plugin") @@ ("skill" :> "evals")
   @@ ("c" :> "skill") @@ ("sub" :> "c") @@ ("results" :> "evals")
   @@ ("other" :> "repo") @@ ("evals2" :> "other")

SomeFronts ==
  {S \cup {"name", "plugins"} : S \in SUBSET {"tags", "runs", "model", "odd"}}
  \cup {{"tags"}}

SomeYamls ==
  SUBSET {"schema_version", "name", "tags", "runs", "context.add_dirs"}

Named(name, standin, broken) == [name |-> name, standin |-> standin, broken |-> broken]

Regexes ==
  {Named("r", FALSE, b) @@ [type |-> "regex", target |-> t, match |-> m,
                            expected |-> 2] :
     b \in BOOLEAN, t \in {"last_message", "file"},
     m \in {"contains", "not_contains", "count", "odd"}}

Uses ==
  {Named("u", FALSE, FALSE)
     @@ [type |-> "tool_used", tool |-> "Read", picky |-> p, min |-> l, max |-> h] :
     p \in BOOLEAN, l \in 0 .. 2, h \in {Absent, 0, 1}}

Orders ==
  {Named("o", FALSE, FALSE)
     @@ [type |-> "tool_order", before |-> "Read", after |-> a, picky |-> p] :
     a \in {"Read", "Bash"}, p \in {FALSE}}

Names == {"a", "b"}

\* `**`, `*`, `a`, a class that takes the separator (`a[!b]b`), and one that is none.
Segments == {DoubleStar, Malformed, {<<"a">>}, {<<"a">>, <<"b">>}, {<<"a", "b">>}}

Exist ==
  {Named("f", FALSE, FALSE) @@ [type |-> "file_exists", glob |-> g, exists |-> TRUE] :
     g \in UNION {[1 .. n -> Segments] : n \in 1 .. 3}}

Asks ==
  {Named("j", FALSE, b) @@ [type |-> "llm"] : b \in BOOLEAN}
  \cup {Named("j", FALSE, FALSE) @@ [type |-> "baseline", recorded |-> m] :
          m \in {"text", "unreadable"}}

Unknown == Named("n", FALSE, FALSE) @@ [type |-> "none"]
Stands == {Named(n, TRUE, FALSE) @@ [type |-> "llm"] : n \in {"r", "j"}}

\* Each grader alone, and each judged one beside a stand-in.
SomeSuites ==
  {<<g>> : g \in Regexes \cup Uses \cup Orders \cup Exist \cup {Unknown}}
  \cup {<<h, g>> : g \in Asks, h \in Stands}

Paths == UNION {[1 .. n -> Names] : n \in 1 .. 3}

Call(t, m) == [tool |-> t, matches |-> m]

Calls == {<<>>, <<Call("Read", TRUE)>>, <<Call("Read", FALSE), Call("Bash", TRUE)>>,
          <<Call("Bash", TRUE), Call("Read", TRUE), Call("Read", FALSE)>>}

\* What the texts hold, what was called, and what was created, one at a time.
SomeSessions ==
  {[text |-> [last_message |-> n, file |-> f], calls |-> <<>>, created |-> {},
    material |-> "text"] : n \in 0 .. 2, f \in {Absent, 1}}
  \cup {[text |-> [last_message |-> 0, file |-> 0], calls |-> c, created |-> {},
         material |-> m] : c \in Calls, m \in {"image", "unreadable"}}
  \cup {[text |-> [last_message |-> 0, file |-> 0], calls |-> <<>>, created |-> {p},
         material |-> "image"] : p \in Paths}

MCInit ==
  \/ /\ TreeInit
     /\ graders = <<>> /\ session = Absent /\ votes = 1
     /\ replies = <<>> /\ results = <<>> /\ raised = FALSE
  \/ prompts = {} /\ target = Top /\ case = PlainCase /\ GradingInit

MCNext == GradingNext /\ UNCHANGED <<prompts, target, case>>

MCSpec == MCInit /\ [][MCNext]_<<prompts, target, case, gradingVars>>
=============================================================================
