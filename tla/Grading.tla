------------------------------ MODULE Grading ------------------------------
(***************************************************************************)
(* The graders of one case over one session document, one after the other,  *)
(* as src/cowork_evals/cowork_backend.py does: the structural ones of        *)
(* grader.py, and the judged ones of judge.py, which ask `claude -p` as      *)
(* often as is configured and may lose any of the answers.                  *)
(*                                                                         *)
(* A text is abstracted to how often the one pattern there is matches it, a  *)
(* path to its names. A segment of a glob is DoubleStar, Malformed (it does   *)
(* not compile: `[z-a]`, `[]`), or the set of what it takes of a path, each a *)
(* sequence of names: `*` and `?` stay within one name, but `[!a]` is the     *)
(* class `[^a]`, and that takes a separator as well. A `[]` that a class of a  *)
(* later segment closes is left out.                                         *)
(***************************************************************************)
EXTENDS Naturals, Sequences, FiniteSets, SequencesExt, FiniteSetsExt

CONSTANTS
  Suites,      \* what the graders of a case may be, each a sequence
  Sessions,    \* what a session may have left
  VoteCounts,  \* eval.judge_votes
  DoubleStar,  \* the segment `**` of a glob
  Malformed,   \* a segment that does not compile
  Absent       \* no bound, no quotation, no readable text

\* The fields of a config, as far as its type has them.
Configured(g) ==
  /\ {"name", "standin", "broken", "type"} \subseteq DOMAIN g /\ g.broken \in BOOLEAN
  /\ g.type = "regex" =>
       /\ {"target", "match", "expected"} \subseteq DOMAIN g
       /\ g.target \in {"last_message", "file"}
  /\ g.type = "tool_used" =>
       /\ {"tool", "picky", "min", "max"} \subseteq DOMAIN g
       /\ g.min \in Nat /\ g.max \in Nat \cup {Absent}
  /\ g.type = "tool_order" => {"before", "after", "picky"} \subseteq DOMAIN g
  /\ g.type = "file_exists" =>
       /\ {"glob", "exists"} \subseteq DOMAIN g
       /\ g.exists \in BOOLEAN /\ Len(g.glob) \in Nat

ASSUME GradingAssumption ==
  /\ VoteCounts \subseteq Nat \ {0} /\ Absent \notin Nat
  /\ \A suite \in Suites : \A n \in DOMAIN suite : Configured(suite[n])
  /\ \A s \in Sessions :
       /\ {"text", "calls", "created", "material"} \subseteq DOMAIN s
       /\ s.text \in [{"last_message", "file"} -> Nat \cup {Absent}]
       /\ Len(s.calls) \in Nat /\ DOMAIN s.calls = 1 .. Len(s.calls)
       /\ \A path \in s.created : Len(path) \in Nat \ {0}

VARIABLES
  graders,  \* of the case
  session,  \* the document: the hits in each text (or Absent), the calls,
            \* the created files, and what a judge would be shown
  votes,    \* how often each judged grader is asked
  replies,  \* the replies to the grader that is being asked
  results,  \* the results of the graders so far
  raised    \* what a grader raised has ended the grading

gradingVars == <<graders, session, votes, replies, results, raised>>
-----------------------------------------------------------------------------
(* Globs.                                                                  *)

\* `_glob_segment`: a segment of names, one or (by a class) several, goes to the
\* end of the path exactly when it is the last.
Takes(glob, n, path, k) ==
  {j \in k + 1 .. Len(path) : /\ SubSeq(path, k + 1, j) \in glob[n]
                              /\ (j = Len(path)) = (n = Len(glob))}

\* Mutant of After: `**` is one directory at least.
AfterOneDirectory(glob, n, path, k) ==
  CASE glob[n] = DoubleStar /\ n = Len(glob) -> {Len(path)}
    [] glob[n] = DoubleStar /\ n < Len(glob) -> k + 1 .. Len(path) - 1
    [] OTHER -> Takes(glob, n, path, k)

\* `_full_match`: how much of a path may be behind the first n segments of a
\* glob when k of it were behind those before. Each but the last takes the
\* separator after it, so it leaves something.
After(glob, n, path, k) ==
  CASE glob[n] = DoubleStar /\ n = Len(glob) -> {Len(path)}
    [] glob[n] = DoubleStar /\ n < Len(glob) -> k .. Len(path) - 1
    [] OTHER -> Takes(glob, n, path, k)

FullMatch(path, glob) ==
  LET behind[n \in 0 .. Len(glob)] ==
        IF n = 0 THEN {0}
        ELSE UNION {After(glob, n, path, k) : k \in behind[n - 1]}
  IN Len(path) \in behind[Len(glob)]

\* The glob is one regular expression, so one segment spoils all of it.
Compiles(glob) == \A n \in DOMAIN glob : glob[n] # Malformed
-----------------------------------------------------------------------------
(* The structural graders. Each of them fails on what it cannot read.      *)

\* `_matching_calls`: by the name of the tool and the pattern on its input.
MatchingCalls(tool, picky, s) ==
  {n \in DOMAIN s.calls :
     s.calls[n].tool = tool /\ (picky => s.calls[n].matches)}

\* Mutant of Regex: a text that cannot be read has no match.
RegexOfNone(g, s) ==
  LET hits == IF s.text[g.target] = Absent THEN 0 ELSE s.text[g.target] IN
  CASE g.match = "contains" -> hits > 0
    [] g.match = "not_contains" -> hits = 0
    [] g.match = "count" -> hits = g.expected
    [] OTHER -> FALSE

Regex(g, s) ==
  /\ s.text[g.target] # Absent
  /\ CASE g.match = "contains" -> s.text[g.target] > 0
       [] g.match = "not_contains" -> s.text[g.target] = 0
       [] g.match = "count" -> s.text[g.target] = g.expected
       [] OTHER -> FALSE

ToolUsed(g, s) ==
  LET count == Cardinality(MatchingCalls(g.tool, g.picky, s)) IN
  count >= g.min /\ (g.max # Absent => count <= g.max)

\* `_tool_order`: the first call of each.
ToolOrder(g, s) ==
  LET before == MatchingCalls(g.before, g.picky, s)
      after == MatchingCalls(g.after, FALSE, s)
  IN before # {} /\ after # {} /\ Min(before) < Min(after)

\* `_file_exists`: the glob is first compiled for the first file that was created,
\* and nothing catches what that raises.
Raises(g, s) ==
  g.type = "file_exists" /\ ~g.broken /\ s.created # {} /\ ~Compiles(g.glob)

FileExists(g, s) == g.exists = (\E path \in s.created : FullMatch(path, g.glob))

\* `grade`: a config that does not validate, a pattern of a regex or tool grader
\* that does not compile and a type nothing knows are failures.
Structural(g, s) ==
  /\ ~g.broken
  /\ CASE g.type = "regex" -> Regex(g, s)
       [] g.type = "tool_used" -> ToolUsed(g, s)
       [] g.type = "tool_order" -> ToolOrder(g, s)
       [] g.type = "file_exists" -> FileExists(g, s)
       [] OTHER -> FALSE
-----------------------------------------------------------------------------
(* The judge.                                                              *)

Result(passed, skipped, from, said) ==
  [passed |-> passed, skipped |-> skipped, from |-> from, said |-> said,
   votes |-> [n \in DOMAIN from |-> from[n].vote = "PASS"]]

\* `read_reply` and `ask`: a call that did not start, did not end well, printed
\* no document or one that has neither word is lost; only a structured one has a
\* reason. What it cost is left out.
ReadReply ==
  [lost |-> [vote |-> "LOST", said |-> FALSE],
   barePass |-> [vote |-> "PASS", said |-> FALSE],
   bareFail |-> [vote |-> "FAIL", said |-> FALSE],
   pass |-> [vote |-> "PASS", said |-> TRUE],
   fail |-> [vote |-> "FAIL", said |-> TRUE]]

Cast(from, vote) == {n \in DOMAIN from : from[n].vote = vote}

\* Mutant of Tally: the majority of the votes that were cast.
TallyCast(from) ==
  LET passed == Cardinality(Cast(from, "PASS")) > Cardinality(Cast(from, "FAIL")) IN
  Result(passed, FALSE, from, Absent)

\* `tally`: a majority of those asked for, and what the winning side said. Where
\* all of them are lost the judge could not be asked.
Tally(from) ==
  LET passed == Cardinality(Cast(from, "PASS")) >= Len(from) \div 2 + 1
      side == {n \in Cast(from, IF passed THEN "PASS" ELSE "FAIL") : from[n].said}
  IN
  IF Cast(from, "LOST") = DOMAIN from THEN Result(FALSE, FALSE, <<>>, Absent)
  ELSE Result(passed, FALSE, from, IF side = {} THEN Absent ELSE Min(side))
-----------------------------------------------------------------------------
(* One case.                                                               *)

GradingInit ==
  /\ graders \in Suites /\ session \in Sessions /\ votes \in VoteCounts
  /\ replies = <<>> /\ results = <<>> /\ raised = FALSE

Left == Len(results) < Len(graders) /\ ~raised
This == graders[Len(results) + 1]

\* A stand-in serves no session: `grader_skips`, by the name of the grader.
StandIn(g) == \E n \in DOMAIN graders :
                graders[n].name = g.name /\ graders[n].standin

AsksJudge(g) == g.type \in {"llm", "baseline"}

\* `material`: what the judge is shown of the session, or why it cannot be.
Material(g) == IF g.type = "baseline" THEN g.recorded ELSE session.material

Give(result) ==
  /\ results' = Append(results, result)
  /\ replies' = <<>>
  /\ UNCHANGED <<graders, session, votes, raised>>

Skip ==
  /\ Left /\ StandIn(This)
  /\ Give(Result(FALSE, TRUE, <<>>, Absent))

GradeStructural ==
  /\ Left /\ ~StandIn(This) /\ ~AsksJudge(This) /\ ~Raises(This, session)
  /\ Give(Result(Structural(This, session), FALSE, <<>>, Absent))

\* A glob that does not compile ends the grading, and the run with it.
GradeRaises ==
  /\ Left /\ ~StandIn(This) /\ Raises(This, session)
  /\ raised' = TRUE
  /\ UNCHANGED <<graders, session, votes, replies, results>>

\* An image is a skip, and what cannot be shown is a failure; neither asks.
DoNotAsk ==
  /\ Left /\ ~StandIn(This) /\ AsksJudge(This)
  /\ This.broken \/ Material(This) # "text"
  /\ Give(Result(FALSE, ~This.broken /\ Material(This) = "image", <<>>, Absent))

Vote ==
  /\ Left /\ ~StandIn(This) /\ AsksJudge(This)
  /\ ~This.broken /\ Material(This) = "text"
  /\ Len(replies) < votes
  /\ \E stdout \in DOMAIN ReadReply :
       replies' = Append(replies, ReadReply[stdout])
  /\ UNCHANGED <<graders, session, votes, results, raised>>

Count ==
  /\ Left /\ Len(replies) = votes
  /\ Give(Tally(replies))

GradingNext == Skip \/ GradeStructural \/ GradeRaises \/ DoNotAsk \/ Vote \/ Count

GradingSpec == GradingInit /\ [][GradingNext]_gradingVars
-----------------------------------------------------------------------------
(* Properties.                                                             *)

\* The votes that a result records decide it: counting them again, a lost one for
\* the no it is recorded as, gives the same answer, there are as many as were
\* asked for, and what is quoted was said by a vote of the winning side. A result
\* without votes is not a judge's pass.
VotesDecide ==
  \A n \in DOMAIN results :
    LET r == results[n]
        yes == {k \in DOMAIN r.votes : r.votes[k]}
    IN
    AsksJudge(graders[n]) =>
      /\ r.votes # <<>> => /\ Len(r.votes) = votes
                           /\ r.passed = (2 * Cardinality(yes) > votes)
      /\ r.votes = <<>> => ~r.passed
      /\ r.said # Absent => r.from[r.said].vote = IF r.passed THEN "PASS" ELSE "FAIL"

\* The glob of the harness, as tests/unit/test_grader.py pins it: `**` is any
\* number of directories, and at the end one name at least; a segment is one name,
\* with a class or without.
Matches(path, glob) ==
  LET rest[at \in (1 .. Len(glob) + 1) \X (1 .. Len(path) + 1)] ==
        LET n == at[1]  k == at[2] IN
        IF n > Len(glob) \/ k > Len(path) THEN n > Len(glob) /\ k > Len(path)
        ELSE IF glob[n] = DoubleStar
             THEN n = Len(glob) \/ rest[<<n + 1, k>>] \/ rest[<<n, k + 1>>]
             ELSE <<path[k]>> \in glob[n] /\ rest[<<n + 1, k + 1>>]
  IN rest[<<1, 1>>]

\* No segment of a glob takes more than a name.
Confined(glob) ==
  \A n \in 1 .. Len(glob) :
    glob[n] # DoubleStar => \A names \in glob[n] : Len(names) = 1

\* The grader that asks for the opposite.
Negation(g) ==
  CASE g.type = "regex" ->
         [g EXCEPT !.match = IF @ = "contains" THEN "not_contains" ELSE "contains"]
    [] g.type = "tool_used" -> [g EXCEPT !.min = 0, !.max = g.min - 1]
    [] g.type = "file_exists" -> [g EXCEPT !.exists = ~@]

Negatable(g) ==
  \/ g.type = "regex" /\ g.match \in {"contains", "not_contains"}
  \/ g.type = "tool_used" /\ g.min > 0 /\ g.max = Absent
  \/ g.type = "file_exists"

\* Of a structural grader and its opposite exactly one passes, and neither does
\* when its config is broken or its text cannot be read: no grader passes for the
\* absence of what nobody looked for. One whose glob does not compile has no answer
\* once there is a file to look at. What the harness's glob matches, ours does; what
\* ours matches beyond that, a class has taken a separator for. Of two orders of two
\* tools at most one passes.
GradersAreExact ==
  \A n \in DOMAIN graders :
    LET g == graders[n]
        lost == \/ g.broken
                \/ g.type = "regex" /\ session.text[g.target] = Absent
    IN
    /\ Negatable(g) /\ ~Raises(g, session) =>
         (Structural(g, session) = Structural(Negation(g), session)) = lost
    /\ g.type = "file_exists" /\ Compiles(g.glob) =>
         \A path \in session.created :
           /\ Matches(path, g.glob) => FullMatch(path, g.glob)
           /\ Confined(g.glob) => (FullMatch(path, g.glob) => Matches(path, g.glob))
    /\ g.type = "tool_order" =>
         ~(/\ Structural(g, session)
           /\ Structural([g EXCEPT !.before = g.after, !.after = g.before], session))
=============================================================================
