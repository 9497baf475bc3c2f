------------------------------ MODULE LogRoot ------------------------------
(***************************************************************************)
(* The log root, src/cowork_evals/logs.py: every invocation of `run` first  *)
(* prunes it, then makes a directory of its own in it and points the link   *)
(* `latest` at that; `prune --logs` removes old directories and repairs the *)
(* link. Nothing takes a lock, and each call of the file system is a step   *)
(* between which any other process may act.                                 *)
(*                                                                         *)
(* The invocations are of one scope, which is when their names can clash: a *)
(* directory is named by the second it was started in and a suffix. Names   *)
(* are ordered as their text is, for suffixes of one digit.                 *)
(***************************************************************************)
EXTENDS Integers, FiniteSets

CONSTANTS
  Sweeps,       \* the invocations of `run` that get as far as their directory
  Prunes,       \* the invocations of `prune --logs`, and refusals of `run`
  RunPruneDays, \* what `run` prunes at
  OlderThan,    \* the values of --older-than
  MaxNow,       \* bound: the last second
  MaxKills,     \* bound: how many processes are killed
  None          \* no link, no directory

Procs == Sweeps \cup Prunes

ASSUME LogRootAssumption ==
  /\ Sweeps \cap Prunes = {}
  /\ RunPruneDays \in Nat /\ OlderThan \subseteq Nat
  /\ MaxNow \in Nat /\ MaxKills \in Nat
  /\ None \notin Nat \X Nat

VARIABLES
  now,      \* the clock, in seconds
  entries,  \* the run directories there are, and what is in each
  latest,   \* the directory `latest` names, or None
  fresh,    \* the directory the temporary link names, or None
  pc,       \* the step of each process
  cutoff,   \* what a prune compares the stamps with
  todo,     \* the children of the root a prune has not looked at
  at,       \* the directory a process is about
  doomed,   \* the entries a prune still has to remove of that directory
  mine,     \* the directory a sweep made, or None
  kills,    \* how many processes were killed
  removing, \* history: the directories a prune began to remove
  raced,    \* history: the processes that overlapped another
  settled   \* history: the last process ended of itself

files == <<entries, latest, fresh>>
pruning == <<cutoff, todo, doomed>>
vars == <<now, files, pc, pruning, at, mine, kills, removing, raced, settled>>

Names == (0 .. MaxNow) \X (1 .. Cardinality(Sweeps) + 1)
\* `env.txt` is written right after `run.log` is opened, in the same directory.
Contents == {"run.log", "plugin", "verdict.txt"}

Exists(n) == n \in DOMAIN entries
Before(m, n) == m[1] < n[1] \/ (m[1] = n[1] /\ m[2] < n[2])
Least(S) == CHOOSE m \in S : \A n \in S \ {m} : Before(m, n)
Newest(S) == CHOOSE m \in S : \A n \in S \ {m} : Before(n, m)

Busy(p) == pc[p] \notin {"idle", "done", "failed", "killed"}

\* An earlier invocation may have left its directory, under the link.
Init ==
  /\ now = 1
  /\ \E earlier \in SUBSET {<<0, 1>>} :
       /\ entries = [n \in earlier |-> Contents]
       /\ latest = IF earlier = {} THEN None ELSE <<0, 1>>
  /\ fresh = None
  /\ pc = [p \in Procs |-> "idle"]
  /\ cutoff = [p \in Procs |-> 0]
  /\ todo = [p \in Procs |-> {}]
  /\ at = [p \in Procs |-> None]
  /\ doomed = [p \in Procs |-> {}]
  /\ mine = [p \in Procs |-> None]
  /\ kills = 0
  /\ removing = {}
  /\ raced = {}
  /\ settled = TRUE

Goto(p, step) == pc' = [pc EXCEPT ![p] = step]

\* The end of a call: by itself, or by an exception nobody catches.
Finish(p) == Goto(p, "done") /\ settled' = TRUE
Fail(p) == Goto(p, "failed") /\ settled' = FALSE
-----------------------------------------------------------------------------
(* prune.                                                                  *)

\* The root is listed once. A root that is not there yet has nothing in it.
BeginPrune(p) ==
  /\ pc[p] = "idle"
  /\ \E days \in IF p \in Sweeps THEN {RunPruneDays} ELSE OlderThan :
       cutoff' = [cutoff EXCEPT ![p] = now - days]
  /\ todo' = [todo EXCEPT ![p] = DOMAIN entries]
  /\ raced' = IF \E q \in Procs : Busy(q)
              THEN raced \cup {p} \cup {q \in Procs : Busy(q)} ELSE raced
  /\ settled' = FALSE
  /\ Goto(p, "consider")
  /\ UNCHANGED <<now, files, at, doomed, mine, kills, removing>>

\* `_stamp` of the next child: what is gone by now, or young, is passed over.
Consider(p) ==
  /\ pc[p] = "consider" /\ todo[p] # {}
  /\ LET child == Least(todo[p])
         old == Exists(child) /\ child[1] < cutoff[p]
     IN /\ todo' = [todo EXCEPT ![p] = @ \ {child}]
        /\ Goto(p, IF old THEN "scan" ELSE "consider")
        /\ at' = [at EXCEPT ![p] = IF old THEN child ELSE @]
        /\ removing' = IF old THEN removing \cup {child} ELSE removing
  /\ UNCHANGED <<now, files, cutoff, doomed, mine, kills, raced, settled>>

\* `remove_tree`: what is in the directory, then each of those, then itself.
Scan(p) ==
  /\ pc[p] = "scan"
  /\ \/ /\ Exists(at[p])
        /\ doomed' = [doomed EXCEPT ![p] = entries[at[p]]]
        /\ Goto(p, "unlink") /\ UNCHANGED settled
     \/ /\ ~Exists(at[p])
        /\ Fail(p) /\ UNCHANGED doomed
  /\ UNCHANGED <<now, files, cutoff, todo, at, mine, kills, removing, raced>>

Holds(n, e) == Exists(n) /\ e \in entries[n]

\* An entry another process removed is an error or none, by the version of Python.
Unlink(p) ==
  /\ pc[p] = "unlink"
  /\ \E e \in doomed[p] :
       /\ doomed' = [doomed EXCEPT ![p] = @ \ {e}]
       /\ entries' = IF Holds(at[p], e)
                     THEN [entries EXCEPT ![at[p]] = @ \ {e}] ELSE entries
       /\ \/ UNCHANGED <<pc, settled>>
          \/ ~Holds(at[p], e) /\ Fail(p)
  /\ UNCHANGED <<now, latest, fresh, cutoff, todo, at, mine, kills, removing, raced>>

RemoveDirectory(p) ==
  /\ pc[p] = "unlink" /\ doomed[p] = {}
  /\ \/ /\ Exists(at[p]) /\ entries[at[p]] = {}
        /\ entries' = [n \in DOMAIN entries \ {at[p]} |-> entries[n]]
        /\ Goto(p, "consider") /\ UNCHANGED settled
     \/ /\ ~(Exists(at[p]) /\ entries[at[p]] = {})
        /\ Fail(p) /\ UNCHANGED entries
  /\ UNCHANGED <<now, latest, fresh, pruning, at, mine, kills, removing, raced>>

\* What follows a prune: the end, or the directory of the invocation.
AfterPrune(p) ==
  IF p \in Sweeps THEN Goto(p, "name") /\ UNCHANGED settled ELSE Finish(p)

\* Mutant of LookAtLatest: the link is looked at, and not where it leads.
LookAtLink(p) ==
  /\ pc[p] = "consider" /\ todo[p] = {}
  /\ AfterPrune(p)
  /\ UNCHANGED <<now, files, pruning, at, mine, kills, removing, raced>>

\* `_repoint_latest`: a link that leads to a directory stays.
LookAtLatest(p) ==
  /\ pc[p] = "consider" /\ todo[p] = {}
  /\ \/ /\ latest = None \/ Exists(latest)
        /\ AfterPrune(p) /\ UNCHANGED at
     \/ /\ latest # None /\ ~Exists(latest)
        /\ IF DOMAIN entries = {}
           THEN Goto(p, "unlink latest") /\ UNCHANGED at
           ELSE /\ at' = [at EXCEPT ![p] = Newest(DOMAIN entries)]
                /\ Goto(p, "unlink fresh")
        /\ UNCHANGED settled
  /\ UNCHANGED <<now, files, pruning, mine, kills, removing, raced>>

\* The link goes, whatever it names by now; it is an error if it is gone.
UnlinkLatest(p) ==
  /\ pc[p] = "unlink latest"
  /\ \/ latest # None /\ AfterPrune(p)
     \/ latest = None /\ Fail(p)
  /\ latest' = None
  /\ UNCHANGED <<now, entries, fresh, pruning, at, mine, kills, removing, raced>>
-----------------------------------------------------------------------------
(* run_dir.                                                                *)

\* `run_dir_name`: the second it is, and no suffix yet.
Name(p) ==
  /\ pc[p] = "name"
  /\ at' = [at EXCEPT ![p] = <<now, 1>>]
  /\ Goto(p, "probe")
  /\ UNCHANGED <<now, files, pruning, mine, kills, removing, raced, settled>>

\* `_unique` looks for a free name,
Probe(p) ==
  /\ pc[p] = "probe"
  /\ IF Exists(at[p])
     THEN at' = [at EXCEPT ![p] = <<@[1], @[2] + 1>>] /\ UNCHANGED pc
     ELSE Goto(p, "mkdir") /\ UNCHANGED at
  /\ UNCHANGED <<now, files, pruning, mine, kills, removing, raced, settled>>

\* Mutant of MakeDirectory: mkdir(exist_ok=True).
MakeOrTakeDirectory(p) ==
  /\ pc[p] = "mkdir"
  /\ entries' = [n \in DOMAIN entries \cup {at[p]} |->
                   IF Exists(n) THEN entries[n] ELSE {}]
  /\ mine' = [mine EXCEPT ![p] = at[p]]
  /\ Goto(p, "unlink fresh")
  /\ UNCHANGED <<now, latest, fresh, pruning, at, kills, removing, raced, settled>>

\* and makes it: an error if it is no longer free.
MakeDirectory(p) ==
  /\ pc[p] = "mkdir"
  /\ \/ /\ ~Exists(at[p])
        /\ entries' = [n \in DOMAIN entries \cup {at[p]} |->
                         IF n = at[p] THEN {} ELSE entries[n]]
        /\ mine' = [mine EXCEPT ![p] = at[p]]
        /\ Goto(p, "unlink fresh") /\ UNCHANGED settled
     \/ /\ Exists(at[p])
        /\ Fail(p) /\ UNCHANGED <<entries, mine>>
  /\ UNCHANGED <<now, latest, fresh, pruning, at, kills, removing, raced>>
-----------------------------------------------------------------------------
(* point_latest, to the directory a process is about.                      *)

\* Mutant of UnlinkFresh: what a killed process left under the name stays.
KeepFresh(p) ==
  /\ pc[p] = "unlink fresh"
  /\ Goto(p, "symlink")
  /\ UNCHANGED <<now, files, pruning, at, mine, kills, removing, raced, settled>>

\* Mutant of UnlinkFresh: the link itself is removed before it is made anew.
UnlinkBoth(p) ==
  /\ pc[p] = "unlink fresh"
  /\ fresh' = None /\ latest' = None
  /\ Goto(p, "symlink")
  /\ UNCHANGED <<now, entries, pruning, at, mine, kills, removing, raced, settled>>

UnlinkFresh(p) ==
  /\ pc[p] = "unlink fresh"
  /\ fresh' = None
  /\ Goto(p, "symlink")
  /\ UNCHANGED <<now, entries, latest, pruning, at, mine, kills, removing, raced, settled>>

Symlink(p) ==
  /\ pc[p] = "symlink"
  /\ \/ fresh = None /\ fresh' = at[p] /\ Goto(p, "replace") /\ UNCHANGED settled
     \/ fresh # None /\ Fail(p) /\ UNCHANGED fresh
  /\ UNCHANGED <<now, entries, latest, pruning, at, mine, kills, removing, raced>>

\* `os.replace` moves whatever has the temporary name by now.
Replace(p) ==
  /\ pc[p] = "replace"
  /\ \/ /\ fresh # None
        /\ latest' = fresh /\ fresh' = None
        /\ IF mine[p] = None THEN AfterPrune(p)
                             ELSE Goto(p, "run.log") /\ UNCHANGED settled
     \/ /\ fresh = None
        /\ Fail(p) /\ UNCHANGED <<latest, fresh>>
  /\ UNCHANGED <<now, entries, pruning, at, mine, kills, removing, raced>>
-----------------------------------------------------------------------------
(* The sweep: what it writes into its directory, in this order.            *)

After == [e \in Contents |->
  CASE e = "run.log" -> "plugin" [] e = "plugin" -> "verdict.txt"
    [] OTHER -> "end"]

\* A file is opened in a directory that has to be there. `plugin_dir` makes the
\* directory it needs, with the parents that are missing.
Write(p) ==
  /\ pc[p] \in Contents
  /\ LET e == pc[p]
         held == IF Exists(mine[p]) THEN entries[mine[p]] ELSE {}
     IN \/ /\ Exists(mine[p]) \/ e = "plugin"
           /\ entries' = [n \in DOMAIN entries \cup {mine[p]} |->
                            IF n = mine[p] THEN held \cup {e} ELSE entries[n]]
           /\ Goto(p, After[e]) /\ UNCHANGED settled
        \/ /\ ~Exists(mine[p]) /\ e # "plugin"
           /\ Fail(p) /\ UNCHANGED entries
  /\ UNCHANGED <<now, latest, fresh, pruning, at, mine, kills, removing, raced>>

EndSweep(p) ==
  /\ pc[p] = "end"
  /\ Finish(p)
  /\ UNCHANGED <<now, files, pruning, at, mine, kills, removing, raced>>
-----------------------------------------------------------------------------
Step(p) ==
  \/ BeginPrune(p) \/ Consider(p) \/ Scan(p) \/ Unlink(p) \/ RemoveDirectory(p)
  \/ LookAtLatest(p) \/ UnlinkLatest(p)
  \/ Name(p) \/ Probe(p) \/ MakeDirectory(p)
  \/ UnlinkFresh(p) \/ Symlink(p) \/ Replace(p)
  \/ Write(p) \/ EndSweep(p)

Kill(p) ==
  /\ Busy(p) /\ kills < MaxKills
  /\ kills' = kills + 1
  /\ pc' = [pc EXCEPT ![p] = "killed"]
  /\ settled' = FALSE
  /\ UNCHANGED <<now, files, pruning, at, mine, removing, raced>>

Tick ==
  /\ now < MaxNow
  /\ now' = now + 1
  /\ UNCHANGED <<files, pc, pruning, at, mine, kills, removing, raced, settled>>

Next == (\E p \in Procs : Step(p) \/ Kill(p)) \/ Tick

Spec == Init /\ [][Next]_vars
-----------------------------------------------------------------------------
(* Properties.                                                             *)

TypeOK ==
  /\ now \in 0 .. MaxNow
  /\ DOMAIN entries \subseteq Names
  /\ \A n \in DOMAIN entries : entries[n] \subseteq Contents
  /\ {latest, fresh} \subseteq Names \cup {None}
  /\ pc \in [Procs -> {"idle", "consider", "scan", "unlink", "unlink latest", "name",
                       "probe", "mkdir", "unlink fresh", "symlink", "replace", "end",
                       "done", "failed", "killed"} \cup Contents]
  /\ cutoff \in [Procs -> Int]
  /\ todo \in [Procs -> SUBSET Names]
  /\ at \in [Procs -> Names \cup {None}]
  /\ doomed \in [Procs -> SUBSET Contents]
  /\ mine \in [Procs -> Names \cup {None}]
  /\ kills \in 0 .. MaxKills
  /\ removing \subseteq Names
  /\ raced \subseteq Procs
  /\ settled \in BOOLEAN

\* What a sweep has written by the step it is at.
Written(p) ==
  CASE pc[p] = "plugin" -> {"run.log"}
    [] pc[p] = "verdict.txt" -> Contents \ {"verdict.txt"}
    [] pc[p] \in {"end", "done"} -> Contents
    [] OTHER -> {}

\* A prune was told to remove what is as old as this sweep's directory.
Condemned(p) == \E q \in Procs : mine[p][1] < cutoff[q]

\* Whatever the other invocations do at the same time, a sweep has a directory that
\* is no other's, and everything it wrote is in it, unless a prune was given an age
\* its directory had reached: `_unique` and the cutoff of `prune`.
RunsLeaveRunsAlone ==
  \A p \in Sweeps : mine[p] # None /\ ~Condemned(p) =>
    /\ Exists(mine[p])
    /\ Written(p) \subseteq entries[mine[p]]
    /\ \A q \in Sweeps \ {p} : mine[q] # mine[p]

\* An invocation only fails in its log root when another was at work in it: no state
\* that an earlier one left, killed or not, makes `prune` or `run_dir` raise.
FailuresNeedRace == \A p \in Procs : pc[p] = "failed" => p \in raced

\* As long as no directory is removed, `latest` leads to one from the first time it
\* was pointed on, however the invocations overlap: the replacement is atomic.
LatestIsNeverAbsent ==
  removing = {} /\ (\E p \in Sweeps : pc[p] \in Contents \cup {"end", "done"}) =>
    latest # None /\ Exists(latest)

\* Invocations one after the other: when one ends of itself, `latest` is the newest
\* directory, and absent when there is none; after a kill, it is at least no dead end.
LatestIsRepaired ==
  settled /\ raced = {} =>
    /\ latest # None => Exists(latest)
    /\ kills = 0 =>
         latest = IF DOMAIN entries = {} THEN None ELSE Newest(DOMAIN entries)

\* What logs.py:127-128 says of two invocations within a second: the second one gets
\* the next suffix. It fails instead when both found the name free.
SecondGetsSuffix ==
  removing = {} => \A p \in Sweeps : pc[p] = "failed" => mine[p] # None

\* What `_repoint_latest` says it does: the link goes when no run directory is left.
\* It also goes when one was made, and linked, since it looked.
RemovedWhenNoneIsLeft ==
  (\A p \in Procs : pc[p] \in {"idle", "done"}) /\ latest = None =>
    DOMAIN entries = {}
=============================================================================
