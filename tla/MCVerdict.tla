----------------------------- MODULE MCVerdict -----------------------------
(* Two cases of one name: the first has two graders, one of them of the     *)
(* with-arm only, and a check; the second only has an advisory check.       *)
EXTENDS Verdict, TLC

CONSTANTS c1, c2, tool, text, sum, tip

TwoCases == <<c1, c2>>
OneName == [c \in {c1, c2} |-> "greet"]
NameSlug == ("greet" :> <<"greet">>)
CaseGraders == (c1 :> {tool, text}) @@ (c2 :> {})
CaseChecks == (c1 :> {sum}) @@ (c2 :> {tip})
OwnLabel == [s \in {tool, text, sum, tip} |-> s]
SlotWeight == [s \in {tool, text, sum, tip} |-> IF s = text THEN 2 ELSE 1]

=============================================================================
