------------------------------- MODULE MCHost -------------------------------
(* Two processes. Either two configurations share the daemon, both with their *)
(* credential in the environment, or one has a login.                        *)
EXTENDS Host, TLC

SomeRoutes == [c \in Configs |-> IF c = "mine" THEN "login" ELSE "bedrock"]

Plain(verbs, configs, build) ==
  [verb : verbs, config : configs, force : {FALSE}, build : build,
   terminal : {FALSE}, environ : {TRUE}]

\* Two configurations that prune, the first of which also builds and runs.
Sharing(what, verbs) ==
  Plain({"setup", "prune"}, {"ours"}, {FALSE}) \cup Plain(verbs, {"theirs"}, {FALSE})
  \cup Plain({what}, {"ours"}, {TRUE})

\* What a preflight refuses.
Refused ==
  Plain({"setup"}, {"ours"}, {FALSE}) \cup Plain({"run", "test"}, {"ours"}, {FALSE})
  \cup {[Idle EXCEPT !.config = "ours", !.environ = FALSE]}

LoggingInToo ==
  Plain({"setup", "run", "check"}, {"mine"}, {FALSE})
  \cup {a \in [verb : {"login"}, config : {"mine"}, force : BOOLEAN, build : {FALSE},
               terminal : BOOLEAN, environ : {TRUE}] : a.force => a.terminal}
  \cup {[Idle EXCEPT !.verb = "login", !.config = "ours"]}

SomeScenarios == {Sharing("run", {"prune"}), Sharing("test", {"prune"}),
                  Sharing("setup", {"setup", "prune"}), Refused, LoggingInToo}

Symmetry == Permutations(Procs)
=============================================================================
