------------------------------- MODULE Panel -------------------------------
(***************************************************************************)
(* The row of one case in the panel, src/cowork_evals/panel.py, over the    *)
(* history file that CaseHistory's processes write: `rows` reads the file   *)
(* and the case as they are when it is called, so a row is a function of    *)
(* the state, and the properties say what it is worth in every one.         *)
(***************************************************************************)
EXTENDS CaseHistory, FiniteSets

CONSTANTS
  Docker, CoWork,  \* the two backends
  Settings         \* whether the case carries no-cowork, and the backend and
                   \* the outcome of each invocation

Rows == [cells : [{Docker, CoWork} -> {"pass", "fail", "declared", "never run"}],
         record : Invocations \cup {Nothing},
         removed : BOOLEAN,
         flake : Nat \X Nat,
         stale : BOOLEAN]

ASSUME PanelAssumption ==
  /\ Settings \subseteq
       [tagged : BOOLEAN,
        of : [Invocations -> [backend : {Docker, CoWork},
                              outcome : {"pass", "fail", "declared"}]]]
  /\ Nothing \notin Rows

VARIABLES
  about,      \* the setting
  overlapped  \* history: two invocations on one backend were under way at once

panelVars == <<vars, about, overlapped>>

Backend(i) == about.of[i].backend
Outcome(i) == about.of[i].outcome

UnderWay(i) == inv[i].pc \notin {"new", "done", "failed"}

PanelInit == Init /\ about \in Settings /\ overlapped = FALSE

PanelNext ==
  /\ Next
  /\ UNCHANGED about
  /\ overlapped' = (overlapped \/ \E i, j \in Invocations :
       i # j /\ Backend(i) = Backend(j) /\ UnderWay(i)' /\ UnderWay(j)')
-----------------------------------------------------------------------------
(* What the panel reads.                                                   *)

\* `read`: every record that is a line of its own, oldest first.
Found ==
  FlattenSeq([n \in 1 .. Len(Content) |->
    LET i == Content[n][1] IN IF WholeAt(Content, i, n) THEN <<i>> ELSE <<>>])

On(b) == {i \in Invocations : Backend(i) = b}

\* The elements of s that are in set.
Only(s, set) ==
  FlattenSeq([n \in 1 .. Len(s) |-> IF s[n] \in set THEN <<s[n]>> ELSE <<>>])

\* `_newest`: the last record of the file.
Newest(b) == LET s == Only(Found, On(b)) IN IF s = <<>> THEN Nothing ELSE Last(s)

\* A record with no stamp is older than every record with one.
NoOlder(i, j) ==
  \/ inv[j].stamp = Nothing
  \/ inv[i].stamp # Nothing /\ inv[i].stamp >= inv[j].stamp

\* Mutant of MostRecent: the last record of the file, whichever backend it is of.
LastFound == IF Found = <<>> THEN Nothing ELSE Last(Found)

\* `_most_recent` of the two; the first of them when they are equal.
MostRecent ==
  LET d == Newest(Docker)  c == Newest(CoWork) IN
  CASE d = Nothing -> c
    [] d # Nothing /\ c = Nothing -> d
    [] OTHER -> IF NoOlder(d, c) THEN d ELSE c

\* `_cell`: the tag says that no record is expected, whatever was recorded.
Cell(b) ==
  CASE version # Nothing /\ about.tagged /\ b = CoWork -> "declared"
    [] Newest(b) = Nothing -> "never run"
    [] OTHER -> Outcome(Newest(b))

\* Mutant of Flake: a case that was not run is counted.
FlakeOfAll(b) ==
  LET ran == On(b)
      passed == {i \in ran : Outcome(i) = "pass"}
  IN <<Len(Only(Found, passed)), Len(Only(Found, ran))>>

\* `_flake`: how many of the records on a backend passed, of how many.
Flake(b) ==
  LET ran == {i \in On(b) : Outcome(i) # "declared"}
      passed == {i \in ran : Outcome(i) = "pass"}
  IN <<Len(Only(Found, passed)), Len(Only(Found, ran))>>

\* `_stale`: without a digest there is nothing to compare.
Stale(i) == version # Nothing /\ inv[i].digest \notin {Nothing, version}

\* `_row`, or `_removed_row` for a case that is gone and has a record.
Row ==
  LET r == MostRecent IN
  IF version = Nothing /\ r = Nothing THEN Nothing ELSE
    [cells |-> [b \in {Docker, CoWork} |-> Cell(b)],
     record |-> r,
     removed |-> version = Nothing,
     flake |-> IF r = Nothing THEN <<0, 0>> ELSE Flake(Backend(r)),
     stale |-> r # Nothing /\ Stale(r)]
-----------------------------------------------------------------------------
(* Properties.                                                             *)

Kept == Range(appended) \ dropped

Calm == ~raced /\ kills = 0 /\ \A p \in Pruners : ~Pruning(p)

\* As long as no prune raced with an append, a row is of the records that were
\* appended and not dropped and of all of them: there is one exactly when the
\* case is in the tree or has a record, a cell is empty only for a backend that
\* has none, the flake counts each once, and no record of the row's backend was
\* appended after the row's.
RowCountsEveryRecord ==
  Calm => LET r == MostRecent IN
    /\ (Row = Nothing) = (version = Nothing /\ Kept = {})
    /\ (r = Nothing) = (Kept = {})
    /\ \A b \in {Docker, CoWork} :
         Cell(b) = "never run" => \A i \in Kept : Backend(i) # b
    /\ r # Nothing =>
         /\ \A i \in Kept : Backend(i) = Backend(r) =>
              \E m, n \in DOMAIN appended :
                appended[m] = i /\ appended[n] = r /\ m <= n
         /\ Row.flake[2] = Cardinality({i \in Kept :
              Backend(i) = Backend(r) /\ Outcome(i) # "declared"})

\* `_newest` takes the order of the file for the order of the runs. So it is
\* while no two invocations on one backend overlapped: then, of records that all
\* carry a stamp, none that started after the row's is left out for it, and a row
\* that is not stale is of the files there are now, unless those changed while
\* the case ran.
RowIsMostRecent ==
  Calm /\ ~overlapped /\ Kept # {} /\ (\A i \in Kept : inv[i].stamp # Nothing) =>
    LET r == MostRecent IN
    /\ \A i \in Kept : inv[i].stamp <= inv[r].stamp
    /\ ~Row.stale /\ version # Nothing =>
         version = inv[r].ran \/ inv[r].digest # inv[r].ran

PanelSpec == PanelInit /\ [][PanelNext]_panelVars /\ Fairness
=============================================================================
