---------------------------- MODULE CaseHistory ----------------------------
(***************************************************************************)
(* The history file of one case, src/cowork_evals/panel.py: invocations     *)
(* append a record each under an exclusive lock, `prune --history` rewrites *)
(* or deletes the file and its directory without taking that lock, and      *)
(* both are processes that anybody may start at any time.                  *)
(*                                                                         *)
(* The file system is modelled as far as the outcome depends on it: a path  *)
(* names a file, an open file outlives its name, a write goes to the end of *)
(* the file (append) or to the writer's own offset (rewrite), and a record  *)
(* takes as many bytes as it takes, the last of them the newline.           *)
(***************************************************************************)
EXTENDS Naturals, Sequences, SequencesExt

CONSTANTS
  Invocations,  \* the invocations of `run` that append to this file
  LongLines,    \* the invocations whose record is longer than the others'
  Undated,      \* the invocations whose record may carry no stamp
  Pruners,      \* the invocations of `prune --history`
  KeepDays,     \* --older-than
  MaxDay,       \* bound: the last day
  MaxVersion,   \* bound: how often the case files are edited
  MaxKills,     \* bound: how many pruners are killed
  Nothing       \* no file, no holder, no stamp

ASSUME HistoryAssumption ==
  /\ LongLines \subseteq Invocations
  /\ Undated \subseteq Invocations
  /\ KeepDays \in Nat /\ MaxDay \in Nat
  /\ MaxVersion \in Nat /\ MaxKills \in Nat
  /\ Invocations \cap Pruners = {}
  /\ Nothing \notin Nat \cup Invocations \cup Pruners

VARIABLES
  day,      \* the clock
  version,  \* of the files that define the case, Nothing when they are gone
  folder,   \* whether the directory of the history file exists, its levels as one
  name,     \* the file the path names, or Nothing
  cells,    \* the bytes of each file ever made
  lock,     \* who holds the lock of each file
  inv,      \* each invocation: its step, open file and record
  prune,    \* each pruner: its step, open file and the bytes to keep
  kills,    \* how many pruners were killed
  appended, \* history: the invocations in the order they wrote
  dropped,  \* history: the records a prune chose to drop
  raced     \* history: an append or another prune overlapped a prune

disk == <<folder, name, cells, lock>>
vars == <<day, version, disk, inv, prune, kills, appended, dropped, raced>>

\* A process makes one file at most, which is named after it.
Files == Invocations \cup Pruners

Size(i) == IF i \in LongLines THEN 2 ELSE 1

\* The line of a record.
Bytes(i) == [k \in 1 .. Size(i) |-> <<i, k>>]

AllCells == UNION {{<<i, k>> : k \in 1 .. Size(i)} : i \in Invocations}

LineStart(c, n) == n = 1 \/ c[n - 1][2] = Size(c[n - 1][1])

\* The record of i is a line of its own, and so it parses.
WholeAt(c, i, n) ==
  /\ LineStart(c, n)
  /\ n + Size(i) - 1 <= Len(c)
  /\ SubSeq(c, n, n + Size(i) - 1) = Bytes(i)

\* `read`: what does not parse is skipped.
Readable(c) == {i \in Invocations : \E n \in 1 .. Len(c) : WholeAt(c, i, n)}

Content == IF name = Nothing THEN <<>> ELSE cells[name]

InvSteps == {"new", "running", "mkdir", "open", "lock", "write", "done",
             "failed"}

PruneSteps == {"new", "truncate", "rewrite", "unlink", "empty", "rmdir",
               "done", "failed", "killed"}

InvStates == [pc : InvSteps, file : Files \cup {Nothing},
              stamp : 0 .. MaxDay \cup {Nothing}, ran : 0 .. MaxVersion,
              digest : 0 .. MaxVersion \cup {Nothing}]

PruneStates == [pc : PruneSteps, file : Files \cup {Nothing}, kept : Seq(AllCells)]

Appending(i) == inv[i].pc \in {"open", "lock", "write"}

Pruning(p) ==
  prune[p].pc \in {"truncate", "rewrite", "unlink", "empty", "rmdir"}

Overlap ==
  \/ \E i \in Invocations, p \in Pruners : Appending(i) /\ Pruning(p)
  \/ \E p, q \in Pruners : p # q /\ Pruning(p) /\ Pruning(q)

\* The history variable sees every step.
Watch == raced' = (raced \/ Overlap')

Init ==
  /\ day = 0
  /\ version = 0
  /\ folder = FALSE
  /\ name = Nothing
  /\ cells = [f \in Files |-> <<>>]
  /\ lock = [f \in Files |-> Nothing]
  /\ inv = [i \in Invocations |-> [pc |-> "new", file |-> Nothing,
                                   stamp |-> Nothing, ran |-> 0, digest |-> 0]]
  /\ prune = [p \in Pruners |-> [pc |-> "new", file |-> Nothing, kept |-> <<>>]]
  /\ kills = 0
  /\ appended = <<>>
  /\ dropped = {}
  /\ raced = FALSE
-----------------------------------------------------------------------------
(* One invocation of `run`.                                                *)

\* The case starts: its document carries the stamp, and it is measured over the
\* files there are now.
Begin(i) ==
  /\ inv[i].pc = "new" /\ version # Nothing
  /\ \E stamp \in {day} \cup {Nothing : u \in Undated \cap {i}} :
       inv' = [inv EXCEPT ![i] = [@ EXCEPT !.pc = "running", !.ran = version,
                                           !.stamp = stamp]]
  /\ UNCHANGED <<day, version, disk, prune, kills, appended, dropped>>
  /\ Watch

\* `_record`, after the verdict: the digest is of the files there are now, and
\* absent when none defines the case.
Record(i) ==
  /\ inv[i].pc = "running"
  /\ inv' = [inv EXCEPT ![i] = [@ EXCEPT !.pc = "mkdir", !.digest = version]]
  /\ UNCHANGED <<day, version, disk, prune, kills, appended, dropped>>
  /\ Watch

\* Mutant of MakeParents: the parents are not made.
NoParents(i) ==
  /\ inv[i].pc = "mkdir"
  /\ inv' = [inv EXCEPT ![i].pc = "open"]
  /\ UNCHANGED <<day, version, disk, prune, kills, appended, dropped>>
  /\ Watch

MakeParents(i) ==
  /\ inv[i].pc = "mkdir"
  /\ inv' = [inv EXCEPT ![i].pc = "open"]
  /\ folder' = TRUE
  /\ UNCHANGED <<day, version, name, cells, lock, prune, kills, appended,
                 dropped>>
  /\ Watch

\* open("a"): the file is created when its name is absent.
Open(i) ==
  /\ inv[i].pc = "open"
  /\ folder
  /\ name' = IF name = Nothing THEN i ELSE name
  /\ inv' = [inv EXCEPT ![i] = [@ EXCEPT !.pc = "lock", !.file = name']]
  /\ UNCHANGED <<day, version, folder, cells, lock, prune, kills, appended,
                 dropped>>
  /\ Watch

OpenFails(i) ==
  /\ inv[i].pc = "open"
  /\ ~folder
  /\ inv' = [inv EXCEPT ![i].pc = "failed"]
  /\ UNCHANGED <<day, version, disk, prune, kills, appended, dropped>>
  /\ Watch

\* flock(LOCK_EX) waits.
Lock(i) ==
  /\ inv[i].pc = "lock"
  /\ lock[inv[i].file] = Nothing
  /\ lock' = [lock EXCEPT ![inv[i].file] = i]
  /\ inv' = [inv EXCEPT ![i].pc = "write"]
  /\ UNCHANGED <<day, version, folder, name, cells, prune, kills, appended,
                 dropped>>
  /\ Watch

\* Mutant of Write: the file is opened "w".
WriteAnew(i) ==
  /\ inv[i].pc = "write"
  /\ cells' = [cells EXCEPT ![inv[i].file] = Bytes(i)]
  /\ lock' = [lock EXCEPT ![inv[i].file] = Nothing]
  /\ inv' = [inv EXCEPT ![i].pc = "done"]
  /\ appended' = Append(appended, i)
  /\ UNCHANGED <<day, version, folder, name, prune, kills, dropped>>
  /\ Watch

\* Mutant of Write: the lock outlives the write.
WriteHoldsLock(i) ==
  /\ inv[i].pc = "write"
  /\ cells' = [cells EXCEPT ![inv[i].file] = @ \o Bytes(i)]
  /\ inv' = [inv EXCEPT ![i].pc = "done"]
  /\ appended' = Append(appended, i)
  /\ UNCHANGED <<day, version, folder, name, lock, prune, kills, dropped>>
  /\ Watch

\* The line goes to the end of the file, and closing releases the lock.
Write(i) ==
  LET f == inv[i].file IN
  /\ inv[i].pc = "write"
  /\ cells' = [cells EXCEPT ![f] = @ \o Bytes(i)]
  /\ lock' = [lock EXCEPT ![f] = Nothing]
  /\ inv' = [inv EXCEPT ![i].pc = "done"]
  /\ appended' = Append(appended, i)
  /\ UNCHANGED <<day, version, folder, name, prune, kills, dropped>>
  /\ Watch

Invocation(i) ==
  \/ Begin(i) \/ Record(i) \/ MakeParents(i)
  \/ Open(i) \/ OpenFails(i) \/ Lock(i) \/ Write(i)
-----------------------------------------------------------------------------
(* One `prune --history`.                                                  *)

\* `_older`: what carries no stamp is never old.
Older(i) == inv[i].stamp # Nothing /\ inv[i].stamp + KeepDays < day

\* The records of c a prune drops now. What does not parse is kept.
OldIn(c) == {i \in Readable(c) : Older(i)}

\* c without the lines of the records of set.
Without(c, set) ==
  FlattenSeq([n \in 1 .. Len(c) |->
    IF \E i \in set, k \in 1 .. 2 :
          k <= n /\ WholeAt(c, i, n - k + 1) /\ k <= Size(i)
    THEN <<>> ELSE <<c[n]>>])

\* Mutant of ReadLines: a file left with no record is written, and not deleted.
RewriteEmpty(p) ==
  LET old == OldIn(Content) IN
  /\ prune[p].pc = "new"
  /\ prune' = [prune EXCEPT ![p] = [@ EXCEPT
       !.pc = IF old = {} THEN "done" ELSE "truncate",
       !.kept = Without(Content, old)]]
  /\ dropped' = dropped \cup old
  /\ UNCHANGED <<day, version, disk, inv, kills, appended>>
  /\ Watch

\* No file is found where none is there, and none is touched that loses nothing.
ReadLines(p) ==
  LET old == OldIn(Content)
      kept == Without(Content, old)
  IN
  /\ prune[p].pc = "new"
  /\ prune' = [prune EXCEPT ![p] = [@ EXCEPT
       !.pc = CASE old = {} -> "done"
                [] old # {} /\ kept # <<>> -> "truncate"
                [] OTHER -> "unlink",
       !.kept = kept]]
  /\ dropped' = dropped \cup old
  /\ UNCHANGED <<day, version, disk, inv, kills, appended>>
  /\ Watch

PruneFails(p) ==
  /\ \/ prune[p].pc = "truncate" /\ ~folder
     \/ prune[p].pc = "unlink" /\ name = Nothing
     \/ prune[p].pc = "rmdir" /\ (~folder \/ name # Nothing)
  /\ prune' = [prune EXCEPT ![p].pc = "failed"]
  /\ UNCHANGED <<day, version, disk, inv, kills, appended, dropped>>
  /\ Watch

\* write_text opens "w": the file is emptied, or made anew when it is gone.
Truncate(p) ==
  /\ prune[p].pc = "truncate"
  /\ folder
  /\ name' = IF name = Nothing THEN p ELSE name
  /\ cells' = [cells EXCEPT ![name'] = <<>>]
  /\ prune' = [prune EXCEPT ![p] = [@ EXCEPT !.pc = "rewrite", !.file = name']]
  /\ UNCHANGED <<day, version, folder, lock, inv, kills, appended, dropped>>
  /\ Watch

\* ... and writes what it kept from offset 0, over whatever came in between. A line
\* that was torn by a race stays torn: the newline the code ends it with is left out.
Rewrite(p) ==
  LET f == prune[p].file
      kept == prune[p].kept
  IN
  /\ prune[p].pc = "rewrite"
  /\ cells' = [cells EXCEPT ![f] = kept \o SubSeq(@, Len(kept) + 1, Len(@))]
  /\ prune' = [prune EXCEPT ![p].pc = "done"]
  /\ UNCHANGED <<day, version, folder, name, lock, inv, kills, appended,
                 dropped>>
  /\ Watch

\* A process that holds the file open keeps the file, and not its name.
Unlink(p) ==
  /\ prune[p].pc = "unlink"
  /\ name # Nothing
  /\ name' = Nothing
  /\ prune' = [prune EXCEPT ![p].pc = "empty"]
  /\ UNCHANGED <<day, version, folder, cells, lock, inv, kills, appended,
                 dropped>>
  /\ Watch

\* `_empty` looks, and then removes.
LookEmpty(p) ==
  /\ prune[p].pc = "empty"
  /\ prune' = [prune EXCEPT
                 ![p].pc = IF folder /\ name = Nothing THEN "rmdir" ELSE "done"]
  /\ UNCHANGED <<day, version, disk, inv, kills, appended, dropped>>
  /\ Watch

RemoveFolder(p) ==
  /\ prune[p].pc = "rmdir"
  /\ folder /\ name = Nothing
  /\ folder' = FALSE
  /\ prune' = [prune EXCEPT ![p].pc = "done"]
  /\ UNCHANGED <<day, version, name, cells, lock, inv, kills, appended, dropped>>
  /\ Watch

Pruner(p) ==
  \/ ReadLines(p) \/ PruneFails(p) \/ Truncate(p) \/ Rewrite(p)
  \/ Unlink(p) \/ LookEmpty(p) \/ RemoveFolder(p)

Kill(p) ==
  /\ kills < MaxKills
  /\ Pruning(p)
  /\ kills' = kills + 1
  /\ prune' = [prune EXCEPT ![p].pc = "killed"]
  /\ UNCHANGED <<day, version, disk, inv, appended, dropped>>
  /\ Watch
-----------------------------------------------------------------------------
(* What passes outside.                                                    *)

Tick ==
  /\ day < MaxDay
  /\ day' = day + 1
  /\ UNCHANGED <<version, disk, inv, prune, kills, appended, dropped>>
  /\ Watch

\* A person edits the files of the case, or removes it.
Edit ==
  /\ version # Nothing
  /\ version' \in {version + 1, Nothing} \ {MaxVersion + 1}
  /\ UNCHANGED <<day, disk, inv, prune, kills, appended, dropped>>
  /\ Watch

Next ==
  \/ \E i \in Invocations : Invocation(i)
  \/ \E p \in Pruners : Pruner(p) \/ Kill(p)
  \/ Tick
  \/ Edit

\* A process that runs is scheduled; nobody is obliged to start one.
Fairness == \A i \in Invocations : WF_vars(Invocation(i) /\ inv[i].pc # "new")

Spec == Init /\ [][Next]_vars
FairSpec == Spec /\ Fairness
-----------------------------------------------------------------------------
(* Properties.                                                             *)

TypeOK ==
  /\ day \in 0 .. MaxDay /\ version \in 0 .. MaxVersion \cup {Nothing}
  /\ folder \in BOOLEAN /\ raced \in BOOLEAN
  /\ name \in Files \cup {Nothing}
  /\ cells \in [Files -> Seq(AllCells)]
  /\ lock \in [Files -> Invocations \cup {Nothing}]
  /\ inv \in [Invocations -> InvStates]
  /\ prune \in [Pruners -> PruneStates]
  /\ kills \in 0 .. MaxKills
  /\ appended \in Seq(Invocations)
  /\ dropped \subseteq Invocations

\* The lines of the invocations of s, in that order, less those of set.
Lines(s, set) ==
  FlattenSeq([n \in 1 .. Len(s) |-> IF s[n] \in set THEN <<>> ELSE Bytes(s[n])])

\* While no append and no other prune overlapped a prune, and none was killed,
\* the file is the records that were appended, in that order, less those a
\* prune dropped: nothing is lost, torn, duplicated or reordered by any number
\* of concurrent appends and later prunes.
SerialHistoryIsExact ==
  ~raced /\ kills = 0 /\ (\A p \in Pruners : ~Pruning(p)) =>
    Content = Lines(appended, dropped)

\* An append or a prune that fails for a missing path was in a race.
FailuresNeedRace ==
  \/ raced
  \/ /\ \A i \in Invocations : inv[i].pc # "failed"
     /\ \A p \in Pruners : prune[p].pc # "failed"

Ended ==
  /\ \A i \in Invocations : inv[i].pc \in {"new", "running", "done", "failed"}
  /\ \A p \in Pruners : prune[p].pc \in {"new", "done", "failed"}

\* However appends and prunes race, once they have ended no empty history file
\* and no empty directory is left under the root.
NoHuskLeft ==
  Ended => /\ name # Nothing => Content # <<>>
           /\ folder => name # Nothing

\* A prune drops a record only for its age (`prune`'s docstring). Stated of what
\* a reader finds once every process has ended.
OnlyOldDropped ==
  Ended /\ kills = 0 =>
    \A i \in Invocations :
      inv[i].pc = "done" => i \in Readable(Content) \/ i \in dropped

\* Edited case files never leave the row current over a result that was
\* measured on the files before the edit (`digest`'s docstring).
StaleSeesEdits ==
  \A i \in Range(appended) : inv[i].ran # version => inv[i].digest # version

\* Every invocation that has begun finishes its append, lock and all.
AppendsEnd ==
  \A i \in Invocations :
    inv[i].pc = "running" ~> inv[i].pc \in {"done", "failed"}
=============================================================================
