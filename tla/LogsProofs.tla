----------------------------- MODULE LogsProofs -----------------------------
(***************************************************************************)
(* The log root, for any number of invocations in it, and the copy of a     *)
(* sweep's output, for a pipe of any size.                                  *)
(*                                                                         *)
(* A sweep keeps its directory and what it wrote there, unless a prune was  *)
(* given an age that the directory had reached. The property is inductive   *)
(* with what a process knows of the directory it is about: nothing is       *)
(* removed that was not condemned first, and once condemned a directory     *)
(* stays so. An invocation that fails was overlapped: one that was not      *)
(* finds, at each step, what it left (Own), whatever others had left before *)
(* it began. As long as none removes a directory, no link is a dead end;    *)
(* and of invocations one after the other the last leaves `latest` at the   *)
(* newest directory, because the suffixes of a second are taken in order    *)
(* and the link is never older than a directory that is left.               *)
(*                                                                         *)
(* The log is never behind the terminal by more than a read, and when `tee` *)
(* is left without a failure both have everything. Neither is inductive:    *)
(* the invariant says where each piece is, which is the log, the chunk, the *)
(* pipe or the buffer, and which step keeps which descriptor open.          *)
(***************************************************************************)
EXTENDS LogRoot, Tee, DataLemmas, SequenceTheorems


Types ==
  /\ now \in Nat
  /\ DOMAIN pc = Procs /\ DOMAIN at = Procs /\ DOMAIN cutoff = Procs /\ DOMAIN mine = Procs
  /\ \A p \in Procs : cutoff[p] \in Int /\ mine[p] \in (Nat \X Nat) \cup {None}

\* A name to make is a second and a suffix; a directory to remove is older than what
\* the prune compares with, which is nothing before it began.
About(p) ==
  /\ pc[p] \in {"probe", "mkdir"} => at[p] \in Nat \X Nat
  /\ pc[p] \in {"scan", "unlink"} => at[p][1] < cutoff[p]
  /\ pc[p] = "idle" => cutoff[p] = 0

RootInv == Types /\ (\A p \in Procs : About(p)) /\ RunsLeaveRunsAlone

\* No process but p takes a step.
Alone(p) ==
  /\ now' = now
  /\ DOMAIN pc' = Procs /\ DOMAIN at' = Procs /\ DOMAIN cutoff' = Procs /\ DOMAIN mine' = Procs
  /\ \A q \in Procs \ {p} :
       pc'[q] = pc[q] /\ at'[q] = at[q] /\ cutoff'[q] = cutoff[q] /\ mine'[q] = mine[q]

\* What no prune may remove stays, with what is in it.
Kept ==
  \A n \in Nat \X Nat :
    Exists(n) /\ (\A q \in Procs : ~(n[1] < cutoff[q])) =>
      n \in DOMAIN entries' /\ entries[n] \subseteq entries'[n]

\* What a sweep has written is no more than before.
NoMore(p) == p \in Sweeps => Written(p)' = {} \/ Written(p)' = Written(p)

LEMMA WrittenIs ==
  ASSUME NEW p
  PROVE  /\ pc[p] = "plugin" => Written(p) = {"run.log"}
         /\ pc[p] = "verdict.txt" => Written(p) = {"run.log", "plugin"}
         /\ pc[p] \in {"end", "done"} => Written(p) = Contents
         /\ pc[p] \notin {"plugin", "verdict.txt", "end", "done"} => Written(p) = {}
BY DEF Written, Contents

LEMMA WrittenIsThen ==
  ASSUME NEW p
  PROVE  /\ pc'[p] = "plugin" => Written(p)' = {"run.log"}
         /\ pc'[p] = "verdict.txt" => Written(p)' = {"run.log", "plugin"}
         /\ pc'[p] \in {"end", "done"} => Written(p)' = Contents
         /\ pc'[p] \notin {"plugin", "verdict.txt", "end", "done"} => Written(p)' = {}
BY DEF Written, Contents
-----------------------------------------------------------------------------
(* What each kind of step does to the directories.                         *)

\* Most steps leave the run directories, the cutoffs and the owners as they are.
Quiet(p) == UNCHANGED <<entries, cutoff, mine>> /\ Alone(p) /\ NoMore(p) /\ About(p)'

\* The steps at which a sweep has written nothing.
Early == {"idle", "consider", "scan", "unlink", "unlink latest", "name", "probe", "mkdir",
          "unlink fresh", "symlink", "replace", "failed", "killed", "run.log"}

LEMMA EarlyQuiet ==
  ASSUME Types, NEW p \in Procs, UNCHANGED <<entries, cutoff, mine>>, Alone(p),
         p \in Sweeps => pc'[p] \in Early,
         pc'[p] \notin {"probe", "mkdir", "scan", "unlink", "idle"}
  PROVE  Quiet(p)
<1>1. NoMore(p)
  BY WrittenIsThen DEF NoMore, Early
<1>2. About(p)'
  BY DEF About
<1> QED BY <1>1, <1>2 DEF Quiet

LEMMA AfterPruneQuiet ==
  ASSUME Types, NEW p \in Procs, AfterPrune(p), UNCHANGED <<now, entries, cutoff, mine, at>>
  PROVE  Quiet(p)
<1>1. Alone(p)
  BY DEF Alone, AfterPrune, Goto, Finish, Types
<1>2. (p \in Sweeps => pc'[p] = "name") /\ pc'[p] \in {"name", "done"}
  BY DEF AfterPrune, Goto, Finish, Types
<1> QED BY <1>1, <1>2, EarlyQuiet DEF Early

LEMMA FailQuiet ==
  ASSUME Types, NEW p \in Procs, Fail(p), UNCHANGED <<now, entries, cutoff, mine, at>>
  PROVE  Quiet(p)
<1>1. Alone(p) /\ pc'[p] = "failed"
  BY DEF Alone, Fail, Goto, Types
<1> QED BY <1>1, EarlyQuiet DEF Early

\* The steps that look, and those of the links.
LEMMA LookingIsQuiet ==
  ASSUME RootInv, NEW p \in Procs,
         \/ Consider(p) \/ Scan(p) \/ LookAtLatest(p) \/ UnlinkLatest(p) \/ Name(p)
         \/ Probe(p) \/ UnlinkFresh(p) \/ Symlink(p) \/ Replace(p) \/ EndSweep(p) \/ Kill(p)
  PROVE  Quiet(p)
<1> USE DEF RootInv
<1>1. CASE Consider(p)
  <2> DEFINE first == Least(todo[p])
             old == Exists(first) /\ first[1] < cutoff[p]
  <2>1. UNCHANGED <<now, entries, cutoff, mine>>
    BY <1>1 DEF Consider, files
  <2>2. /\ pc' = [pc EXCEPT ![p] = IF old THEN "scan" ELSE "consider"]
        /\ at' = [at EXCEPT ![p] = IF old THEN first ELSE @]
    BY <1>1 DEF Consider, Goto
  <2> HIDE DEF first
  <2>3. Alone(p)
    BY <2>1, <2>2 DEF Alone, Types
  <2>4. NoMore(p)
    BY <2>2, WrittenIsThen DEF NoMore, Types
  <2>5. About(p)'
    BY <2>1, <2>2 DEF About, Types
  <2> QED BY <2>1, <2>3, <2>4, <2>5 DEF Quiet
<1>2. CASE Scan(p)
  <2>1. UNCHANGED <<now, entries, cutoff, mine, at>> /\ pc[p] = "scan"
    BY <1>2 DEF Scan, files
  <2>2. CASE Fail(p) BY <2>1, <2>2, FailQuiet
  <2>3. CASE Goto(p, "unlink")
    <3>1. Alone(p) /\ pc'[p] = "unlink"
      BY <2>1, <2>3 DEF Alone, Goto, Types
    <3>2. NoMore(p) /\ About(p)'
      BY <2>1, <3>1, WrittenIsThen DEF NoMore, About
    <3> QED BY <2>1, <3>1, <3>2 DEF Quiet
  <2> QED BY <1>2, <2>2, <2>3 DEF Scan
<1>3. CASE LookAtLatest(p)
  <2>1. UNCHANGED <<now, entries, cutoff, mine>>
    BY <1>3 DEF LookAtLatest, files, pruning
  <2>2. CASE AfterPrune(p) /\ UNCHANGED at
    BY <2>1, <2>2, AfterPruneQuiet
  <2>3. CASE ~(AfterPrune(p) /\ UNCHANGED at)
    <3>1. /\ pc' = [pc EXCEPT ![p] = "unlink latest"] \/ pc' = [pc EXCEPT ![p] = "unlink fresh"]
          /\ UNCHANGED at \/ at' = [at EXCEPT ![p] = Newest(DOMAIN entries)]
      BY <1>3, <2>3 DEF LookAtLatest, Goto
    <3>2. Alone(p)
      BY <2>1, <3>1 DEF Alone, Types
    <3> QED BY <2>1, <3>1, <3>2, EarlyQuiet DEF Early, Types
  <2> QED BY <2>2, <2>3
<1>4. CASE UnlinkLatest(p)
  <2>1. UNCHANGED <<now, entries, cutoff, mine, at>> /\ (AfterPrune(p) \/ Fail(p))
    BY <1>4 DEF UnlinkLatest, pruning
  <2> QED BY <2>1, AfterPruneQuiet, FailQuiet
<1>5. CASE Name(p)
  <2>1. /\ UNCHANGED <<now, entries, cutoff, mine>>
        /\ pc' = [pc EXCEPT ![p] = "probe"] /\ at' = [at EXCEPT ![p] = <<now, 1>>]
    BY <1>5 DEF Name, files, pruning, Goto
  <2>2. Alone(p) /\ pc'[p] = "probe" /\ at'[p] = <<now, 1>>
    BY <2>1 DEF Alone, Types
  <2>3. NoMore(p) /\ About(p)'
    BY <2>2, WrittenIsThen DEF NoMore, About, Types
  <2> QED BY <2>1, <2>2, <2>3 DEF Quiet
<1>6. CASE Probe(p)
  <2>1. /\ UNCHANGED <<now, entries, cutoff, mine>>
        /\ pc' = pc \/ pc' = [pc EXCEPT ![p] = "mkdir"]
        /\ at' = at \/ at' = [at EXCEPT ![p] = <<at[p][1], at[p][2] + 1>>]
        /\ pc[p] = "probe" /\ at[p] \in Nat \X Nat
    BY <1>6 DEF Probe, files, pruning, Goto, About
  <2>2. Alone(p) /\ pc'[p] \in {"probe", "mkdir"} /\ at'[p] \in Nat \X Nat
    BY <2>1 DEF Alone, Types
  <2>3. NoMore(p) /\ About(p)'
    BY <2>2, WrittenIsThen DEF NoMore, About
  <2> QED BY <2>1, <2>2, <2>3 DEF Quiet
<1>7. CASE UnlinkFresh(p)
  <2>1. UNCHANGED <<now, entries, cutoff, mine, at>> /\ pc' = [pc EXCEPT ![p] = "symlink"]
    BY <1>7 DEF UnlinkFresh, pruning, Goto
  <2>2. Alone(p) /\ pc'[p] = "symlink"
    BY <2>1 DEF Alone, Types
  <2> QED BY <2>1, <2>2, EarlyQuiet DEF Early
<1>8. CASE Symlink(p)
  <2>1. UNCHANGED <<now, entries, cutoff, mine, at>>
    BY <1>8 DEF Symlink, pruning
  <2>2. CASE Goto(p, "replace")
    <3>1. Alone(p) /\ pc'[p] = "replace"
      BY <2>1, <2>2 DEF Alone, Goto, Types
    <3> QED BY <2>1, <3>1, EarlyQuiet DEF Early
  <2> QED BY <1>8, <2>1, <2>2, FailQuiet DEF Symlink
<1>9. CASE Replace(p)
  <2>1. UNCHANGED <<now, entries, cutoff, mine, at>>
    BY <1>9 DEF Replace, pruning
  <2>2. CASE Goto(p, "run.log")
    <3>1. Alone(p) /\ pc'[p] = "run.log"
      BY <2>1, <2>2 DEF Alone, Goto, Types
    <3> QED BY <2>1, <3>1, EarlyQuiet DEF Early
  <2> QED BY <1>9, <2>1, <2>2, FailQuiet, AfterPruneQuiet DEF Replace
<1>10. CASE EndSweep(p)
  <2>1. UNCHANGED <<now, entries, cutoff, mine, at>> /\ pc[p] = "end" /\ Finish(p)
    BY <1>10 DEF EndSweep, files, pruning
  <2>2. Alone(p) /\ pc'[p] = "done"
    BY <2>1 DEF Alone, Finish, Goto, Types
  <2>3. NoMore(p) /\ About(p)'
    BY <2>1, <2>2, WrittenIs, WrittenIsThen DEF NoMore, About
  <2> QED BY <2>1, <2>2, <2>3 DEF Quiet
<1>11. CASE Kill(p)
  <2>1. UNCHANGED <<now, entries, cutoff, mine, at>> /\ pc' = [pc EXCEPT ![p] = "killed"]
    BY <1>11 DEF Kill, files, pruning
  <2>2. Alone(p) /\ pc'[p] = "killed"
    BY <2>1 DEF Alone, Types
  <2> QED BY <2>1, <2>2, EarlyQuiet DEF Early
<1> QED
  BY <1>1, <1>2, <1>3, <1>4, <1>5, <1>6, <1>7, <1>8, <1>9, <1>10, <1>11

\* A step that removes nothing but what is condemned, and makes no directory a
\* process's own, keeps every sweep's directory.
LEMMA KeptIsLeftAlone ==
  ASSUME RootInv, NEW p \in Procs, Alone(p), Kept, mine' = mine,
         cutoff'[p] \in Int, cutoff'[p] = cutoff[p] \/ cutoff[p] = 0,
         NoMore(p), About(p)'
  PROVE  RootInv'
<1> USE DEF RootInv
<1>1. Types'
  BY DEF Types, Alone
<1>2. \A q \in Procs : About(q)'
  BY DEF About, Alone
<1>3. ASSUME NEW q \in Sweeps, mine'[q] # None, ~Condemned(q)'
      PROVE  /\ Exists(mine[q])' /\ Written(q)' \subseteq entries'[mine'[q]]
             /\ \A r \in Sweeps \ {q} : mine'[r] # mine'[q]
  <2>1. q \in Procs /\ mine[q] \in Nat \X Nat /\ mine[q] # None
    BY <1>3, LogRootAssumption DEF Procs, Types
  <2>2. \A r \in Procs : ~(mine[q][1] < cutoff'[r])
    BY <1>3 DEF Condemned
  <2>3. \A r \in Procs : ~(mine[q][1] < cutoff[r])
    <3>1. mine[q][1] \in Nat
      BY <2>1
    <3> QED BY <2>2, <3>1 DEF Alone, Types
  <2>4. ~Condemned(q)
    BY <2>3 DEF Condemned
  <2>5. /\ Exists(mine[q]) /\ Written(q) \subseteq entries[mine[q]]
        /\ \A r \in Sweeps \ {q} : mine[r] # mine[q]
    BY <2>1, <2>4 DEF RunsLeaveRunsAlone
  <2>6. mine[q] \in DOMAIN entries' /\ entries[mine[q]] \subseteq entries'[mine[q]]
    BY <2>1, <2>3, <2>5 DEF Kept
  <2>7. Written(q)' = {} \/ Written(q)' = Written(q)
    <3>1. CASE q = p BY <3>1 DEF NoMore
    <3>2. CASE q # p
      <4>1. pc'[q] = pc[q]
        BY <2>1, <3>2 DEF Alone
      <4> QED BY <4>1, WrittenIs, WrittenIsThen
    <3> QED BY <3>1, <3>2
  <2> QED BY <2>5, <2>6, <2>7 DEF Exists
<1>4. RunsLeaveRunsAlone'
  BY <1>3 DEF RunsLeaveRunsAlone
<1> QED BY <1>1, <1>2, <1>4

LEMMA QuietIsLeftAlone ==
  ASSUME RootInv, NEW p \in Procs, Quiet(p)
  PROVE  RootInv'
<1>1. Kept
  BY DEF Quiet, Kept, Exists
<1>2. cutoff'[p] \in Int /\ cutoff'[p] = cutoff[p]
  BY DEF Quiet, RootInv, Types
<1> QED
  BY <1>1, <1>2, KeptIsLeftAlone DEF Quiet
-----------------------------------------------------------------------------
(* The steps that prune.                                                   *)

LEMMA BeginPruneLeavesAlone ==
  ASSUME RootInv, NEW p \in Procs, BeginPrune(p)
  PROVE  RootInv'
<1> USE DEF RootInv
<1>1. PICK days \in (IF p \in Sweeps THEN {RunPruneDays} ELSE OlderThan) :
        cutoff' = [cutoff EXCEPT ![p] = now - days]
  BY DEF BeginPrune
<1>2. /\ UNCHANGED <<now, entries, mine, at>> /\ pc[p] = "idle"
      /\ pc' = [pc EXCEPT ![p] = "consider"]
  BY DEF BeginPrune, files, Goto
<1>3. days \in Nat
  BY LogRootAssumption
<1>4. Alone(p) /\ pc'[p] = "consider" /\ cutoff'[p] \in Int /\ cutoff[p] = 0
  BY <1>1, <1>2, <1>3 DEF Alone, Types, About
<1>5. Kept
  BY <1>2 DEF Kept, Exists
<1>6. NoMore(p) /\ About(p)'
  BY <1>4, WrittenIsThen DEF NoMore, About
<1> QED
  BY <1>2, <1>4, <1>5, <1>6, KeptIsLeftAlone

\* Whatever is removed is older than the cutoff of the process that removes it.
LEMMA RemovingLeavesAlone ==
  ASSUME RootInv, NEW p \in Procs, Unlink(p) \/ RemoveDirectory(p)
  PROVE  RootInv'
<1> USE DEF RootInv
<1>1. UNCHANGED <<now, mine, cutoff, at>> /\ pc[p] = "unlink"
  BY DEF Unlink, RemoveDirectory, pruning
<1>2. /\ \A n \in DOMAIN entries : n # at[p] => n \in DOMAIN entries' /\ entries'[n] = entries[n]
  <2>1. CASE Unlink(p)
    BY <2>1 DEF Unlink
  <2>2. CASE RemoveDirectory(p)
    BY <2>2 DEF RemoveDirectory
  <2> QED BY <2>1, <2>2
<1>3. Kept
  BY <1>1, <1>2 DEF Kept, Exists, About
<1>4. pc' = pc \/ pc' = [pc EXCEPT ![p] = "failed"] \/ pc' = [pc EXCEPT ![p] = "consider"]
  <2>1. CASE Unlink(p)
    BY <2>1 DEF Unlink, Fail, Goto
  <2>2. CASE RemoveDirectory(p)
    BY <2>2 DEF RemoveDirectory, Fail, Goto
  <2> QED BY <2>1, <2>2
<1>5. Alone(p) /\ pc'[p] \in {"unlink", "failed", "consider"}
  BY <1>1, <1>4 DEF Alone, Types
<1>6. NoMore(p) /\ About(p)'
  BY <1>1, <1>5, WrittenIsThen DEF NoMore, About
<1> QED
  BY <1>1, <1>3, <1>5, <1>6, KeptIsLeftAlone DEF Types
-----------------------------------------------------------------------------
(* The steps of a sweep in its directory.                                  *)

LEMMA MakingLeavesAlone ==
  ASSUME RootInv, NEW p \in Procs, MakeDirectory(p)
  PROVE  RootInv'
<1> USE DEF RootInv
<1>1. UNCHANGED <<now, cutoff, at>> /\ pc[p] = "mkdir" /\ at[p] \in Nat \X Nat
  BY DEF MakeDirectory, pruning, About
<1>2. CASE Exists(at[p])
  <2>1. Fail(p) /\ UNCHANGED <<entries, mine>>
    BY <1>2 DEF MakeDirectory
  <2> QED BY <1>1, <2>1, FailQuiet, QuietIsLeftAlone
<1>3. CASE ~Exists(at[p])
  <2>1. /\ entries' = [n \in DOMAIN entries \cup {at[p]} |-> IF n = at[p] THEN {} ELSE entries[n]]
        /\ mine' = [mine EXCEPT ![p] = at[p]] /\ pc' = [pc EXCEPT ![p] = "unlink fresh"]
    BY <1>3 DEF MakeDirectory, Goto
  <2>2. Alone(p) /\ pc'[p] = "unlink fresh" /\ mine'[p] = at[p]
    BY <1>1, <2>1 DEF Alone, Types
  <2>3. Types'
    BY <1>1, <2>2 DEF Types, Alone
  <2>4. \A q \in Procs : About(q)'
    BY <2>2 DEF About, Alone
  <2>5. \A q \in Sweeps \ {p} : mine[q] = at[p] => Condemned(q)
    <3>1. at[p] # None
      BY <1>1, LogRootAssumption
    <3> QED BY <1>3, <3>1 DEF RunsLeaveRunsAlone
  <2>6. ASSUME NEW q \in Sweeps, mine'[q] # None, ~Condemned(q)'
        PROVE  /\ Exists(mine[q])' /\ Written(q)' \subseteq entries'[mine'[q]]
               /\ \A r \in Sweeps \ {q} : mine'[r] # mine'[q]
    <3>1. q \in Procs
      BY DEF Procs
    <3>2. CASE q = p
      <4>1. Written(q)' = {} /\ at[p] \in DOMAIN entries'
        BY <2>1, <2>2, <3>2, WrittenIsThen
      <4>2. ASSUME NEW r \in Sweeps \ {q} PROVE mine'[r] # at[p]
        <5>1. r \in Procs /\ mine'[r] = mine[r]
          BY <2>2, <3>2 DEF Alone, Procs
        <5>2. mine[r] = at[p] => Condemned(q)'
          BY <1>1, <2>2, <2>5, <3>2 DEF Condemned
        <5> QED BY <2>6, <5>1, <5>2
      <4> QED BY <2>2, <3>2, <4>1, <4>2 DEF Exists
    <3>3. CASE q # p
      <4>1. mine'[q] = mine[q] /\ pc'[q] = pc[q] /\ ~Condemned(q)
        BY <1>1, <2>2, <2>6, <3>1, <3>3 DEF Alone, Condemned
      <4>2. /\ Exists(mine[q]) /\ Written(q) \subseteq entries[mine[q]]
            /\ \A r \in Sweeps \ {q} : mine[r] # mine[q]
        BY <2>6, <4>1 DEF RunsLeaveRunsAlone
      <4>3. mine[q] # at[p]
        BY <1>3, <4>2
      <4>4. mine[q] \in DOMAIN entries' /\ entries'[mine[q]] = entries[mine[q]]
        BY <2>1, <4>2, <4>3 DEF Exists
      <4>5. Written(q)' = Written(q)
        BY <4>1, WrittenIs, WrittenIsThen
      <4>6. \A r \in Sweeps \ {q} : mine'[r] # mine[q]
        BY <2>2, <4>2, <4>3 DEF Alone, Procs
      <4> QED BY <4>1, <4>2, <4>4, <4>5, <4>6 DEF Exists
    <3> QED BY <3>2, <3>3
  <2>7. RunsLeaveRunsAlone'
    BY <2>6 DEF RunsLeaveRunsAlone
  <2> QED BY <2>3, <2>4, <2>7
<1> QED BY <1>2, <1>3

LEMMA WritingLeavesAlone ==
  ASSUME RootInv, NEW p \in Procs, Write(p)
  PROVE  RootInv'
<1> USE DEF RootInv
<1>1. UNCHANGED <<now, cutoff, at, mine>> /\ pc[p] \in Contents
  BY DEF Write, pruning
<1>2. CASE Fail(p) /\ UNCHANGED entries
  BY <1>1, <1>2, FailQuiet, QuietIsLeftAlone
<1>3. CASE ~(Fail(p) /\ UNCHANGED entries)
  <2> DEFINE held == IF Exists(mine[p]) THEN entries[mine[p]] ELSE {}
  <2>1. /\ entries' = [n \in DOMAIN entries \cup {mine[p]} |->
                         IF n = mine[p] THEN held \cup {pc[p]} ELSE entries[n]]
        /\ pc' = [pc EXCEPT ![p] = After[pc[p]]]
    BY <1>3 DEF Write, Goto
  <2>2. /\ pc[p] = "run.log" => After[pc[p]] = "plugin"
        /\ pc[p] = "plugin" => After[pc[p]] = "verdict.txt"
        /\ pc[p] = "verdict.txt" => After[pc[p]] = "end"
    BY DEF After, Contents
  <2>3. Alone(p) /\ pc'[p] = After[pc[p]]
    BY <1>1, <2>1 DEF Alone, Types
  <2>4. Kept
    BY <2>1 DEF Kept, Exists
  <2>5. Types'
    BY <1>1, <2>3 DEF Types, Alone
  <2>6. \A q \in Procs : About(q)'
    BY <1>1, <2>2, <2>3 DEF About, Alone, Contents
  <2>7. ASSUME NEW q \in Sweeps, mine'[q] # None, ~Condemned(q)'
        PROVE  /\ Exists(mine[q])' /\ Written(q)' \subseteq entries'[mine'[q]]
               /\ \A r \in Sweeps \ {q} : mine'[r] # mine'[q]
    <3>1. q \in Procs /\ mine[q] \in Nat \X Nat /\ mine'[q] = mine[q] /\ ~Condemned(q)
      BY <1>1, <2>7 DEF Procs, Types, Condemned
    <3>2. /\ Exists(mine[q]) /\ Written(q) \subseteq entries[mine[q]]
          /\ \A r \in Sweeps \ {q} : mine[r] # mine[q]
      BY <2>7, <3>1 DEF RunsLeaveRunsAlone
    <3>3. mine[q] \in DOMAIN entries' /\ entries[mine[q]] \subseteq entries'[mine[q]]
      BY <2>1, <3>2 DEF Exists
    <3>4. Written(q)' \subseteq entries'[mine[q]]
      <4>1. CASE q # p
        <5>1. pc'[q] = pc[q]
          BY <2>3, <3>1, <4>1 DEF Alone
        <5> QED BY <3>2, <3>3, <5>1, WrittenIs, WrittenIsThen
      <4>2. CASE q = p
        <5>1. pc[p] \in entries'[mine[q]]
          BY <2>1, <4>2
        <5>2. Written(q)' \subseteq Written(q) \cup {pc[p]}
          BY <1>1, <2>2, <2>3, <4>2, WrittenIs, WrittenIsThen DEF Contents
        <5> QED BY <3>2, <3>3, <5>1, <5>2
      <4> QED BY <4>1, <4>2
    <3> QED BY <1>1, <3>1, <3>2, <3>3, <3>4 DEF Exists
  <2>8. RunsLeaveRunsAlone'
    BY <2>7 DEF RunsLeaveRunsAlone
  <2> QED BY <2>5, <2>6, <2>8
<1> QED BY <1>2, <1>3
-----------------------------------------------------------------------------
LEMMA RootInit == ASSUME Init PROVE RootInv
<1>1. Types /\ \A p \in Procs : About(p)
  BY DEF Init, Types, About
<1>2. \A p \in Sweeps : mine[p] = None
  BY DEF Init, Procs
<1> QED BY <1>1, <1>2 DEF RootInv, RunsLeaveRunsAlone

LEMMA RootNext == ASSUME RootInv, [Next]_vars PROVE RootInv'
<1>1. ASSUME NEW p \in Procs, Step(p) PROVE RootInv'
  BY <1>1, LookingIsQuiet, QuietIsLeftAlone, BeginPruneLeavesAlone, RemovingLeavesAlone,
    MakingLeavesAlone, WritingLeavesAlone DEF Step
<1>2. ASSUME NEW p \in Procs, Kill(p) PROVE RootInv'
  BY <1>2, LookingIsQuiet, QuietIsLeftAlone
<1>3. CASE Tick
  <2>1. UNCHANGED <<entries, pc, cutoff, at, mine>> /\ now' = now + 1
    BY <1>3 DEF Tick, files, pruning
  <2>2. \A p \in Procs : Written(p)' = Written(p) /\ Condemned(p)' = Condemned(p)
    BY <2>1, WrittenIs, WrittenIsThen DEF Condemned
  <2> QED
    BY <2>1, <2>2 DEF RootInv, Types, About, RunsLeaveRunsAlone, Exists, Procs
<1>4. CASE UNCHANGED vars
  <2>1. UNCHANGED <<entries, pc, cutoff, at, mine, now>>
    BY <1>4 DEF vars, files, pruning
  <2>2. \A p \in Procs : Written(p)' = Written(p) /\ Condemned(p)' = Condemned(p)
    BY <2>1, WrittenIs, WrittenIsThen DEF Condemned
  <2> QED
    BY <2>1, <2>2 DEF RootInv, Types, About, RunsLeaveRunsAlone, Exists, Procs
<1> QED BY <1>1, <1>2, <1>3, <1>4 DEF Next

\* Whatever other invocations do at the same time, for any number of them, a sweep
\* has a directory of its own with everything it wrote in it, unless a prune was
\* given an age that the directory had reached.
THEOREM RunsAreLeftAlone == Spec => []RunsLeaveRunsAlone
<1>1. Init => RootInv
  BY RootInit
<1>2. RootInv /\ [Next]_vars => RootInv'
  BY RootNext
<1>3. RootInv => RunsLeaveRunsAlone
  BY DEF RootInv
<1> QED BY <1>1, <1>2, <1>3, PTL DEF Spec

-----------------------------------------------------------------------------
(* An invocation that no other overlapped.                                 *)

\* The steps before a sweep has a directory, and those of the link.
Unmade == {"idle", "consider", "scan", "unlink", "unlink latest", "name", "probe", "mkdir"}
Linking == {"unlink fresh", "symlink", "replace"}

Places == Nat \X (Nat \ {0})

Shape ==
  /\ IsFiniteSet(DOMAIN entries) /\ DOMAIN entries \subseteq Places
  /\ DOMAIN doomed = Procs
  /\ \A p \in Procs :
       /\ pc[p] \in {"probe", "mkdir"} => at[p] \in Places
       /\ mine[p] \in Places \cup {None}
       /\ pc[p] \in Unmade => mine[p] = None
       /\ pc[p] \in Contents => mine[p] # None

Lone(p) == Busy(p) /\ p \notin raced

Solo == \A p \in Procs : Lone(p) => \A q \in Procs \ {p} : ~Busy(q)

\* It finds what it left: the directory it removes, the name it took, the links.
Own(p) ==
  /\ pc[p] = "scan" => Exists(at[p])
  /\ pc[p] = "unlink" => Exists(at[p]) /\ entries[at[p]] = doomed[p]
  /\ pc[p] = "unlink latest" => latest # None /\ DOMAIN entries = {}
  /\ pc[p] = "mkdir" => ~Exists(at[p])
  /\ pc[p] \in Linking => Exists(at[p]) /\ mine[p] \in {None, at[p]}
  /\ pc[p] = "symlink" => fresh = None
  /\ pc[p] = "replace" => fresh = at[p]
  /\ pc[p] \in Contents \cup {"end"} => Exists(mine[p]) /\ latest = mine[p]

SoloInv == Shape /\ Solo /\ FailuresNeedRace /\ \A p \in Procs : Lone(p) => Own(p)

\* Which steps change what: everything but the process's own is another's.
LEMMA StepIsAlone ==
  ASSUME RootInv, NEW p \in Procs, Step(p) \/ Kill(p)
  PROVE  /\ Alone(p)
         /\ (raced' = raced /\ Busy(p)) \/ BeginPrune(p)
<1> USE DEF RootInv
<1>1. CASE \/ Consider(p) \/ Scan(p) \/ LookAtLatest(p) \/ UnlinkLatest(p) \/ Name(p)
           \/ Probe(p) \/ UnlinkFresh(p) \/ Symlink(p) \/ Replace(p) \/ EndSweep(p) \/ Kill(p)
  <2>1. Alone(p)
    BY <1>1, LookingIsQuiet DEF Quiet
  <2>2. raced' = raced /\ Busy(p)
    BY <1>1 DEF Busy, Consider, Scan, LookAtLatest, UnlinkLatest, Name, Probe, UnlinkFresh,
      Symlink, Replace, EndSweep, Kill
  <2> QED BY <2>1, <2>2
<1>2. CASE BeginPrune(p)
  <2>1. PICK days : cutoff' = [cutoff EXCEPT ![p] = now - days]
    BY <1>2 DEF BeginPrune
  <2> QED BY <1>2, <2>1 DEF BeginPrune, Alone, Types, Goto
<1>3. CASE Unlink(p) \/ RemoveDirectory(p)
  BY <1>3 DEF Unlink, RemoveDirectory, Alone, Types, Goto, Fail, pruning, Busy
<1>4. CASE MakeDirectory(p)
  BY <1>4 DEF MakeDirectory, Alone, Types, Goto, Fail, pruning, Busy
<1>5. CASE Write(p)
  BY <1>5 DEF Write, Alone, Types, Goto, Fail, pruning, Busy, Contents
<1> QED BY <1>1, <1>2, <1>3, <1>4, <1>5 DEF Step

\* A step leaves no other process lone, and none beside a lone one.
LEMMA OthersAreNotLone ==
  ASSUME RootInv, Solo, NEW p \in Procs, Step(p) \/ Kill(p)
  PROVE  /\ \A q \in Procs \ {p} : ~Lone(q)' /\ Busy(q)' = Busy(q)
         /\ Solo'
         /\ Lone(p)' => Lone(p) \/ BeginPrune(p)
<1>1. Alone(p) /\ ((raced' = raced /\ Busy(p)) \/ BeginPrune(p))
  BY StepIsAlone
<1>2. \A q \in Procs \ {p} : Busy(q)' = Busy(q)
  BY <1>1 DEF Alone, Busy
<1>3. BeginPrune(p) => raced' = IF \E q \in Procs : Busy(q)
                                THEN raced \cup {p} \cup {q \in Procs : Busy(q)} ELSE raced
  BY DEF BeginPrune
<1>4. ASSUME NEW q \in Procs \ {p} PROVE ~Lone(q)'
  <2>1. CASE BeginPrune(p)
    BY <1>2, <1>3, <2>1 DEF Lone
  <2>2. CASE raced' = raced /\ Busy(p)
    BY <1>2, <2>2 DEF Lone, Solo
  <2> QED BY <1>1, <2>1, <2>2
<1>5. ASSUME Lone(p)' PROVE \A q \in Procs \ {p} : ~Busy(q)'
  <2>1. CASE BeginPrune(p)
    BY <1>2, <1>3, <1>5, <2>1 DEF Lone
  <2>2. CASE raced' = raced /\ Busy(p)
    BY <1>2, <1>5, <2>2 DEF Lone, Solo
  <2> QED BY <1>1, <2>1, <2>2
<1>6. Solo'
  BY <1>4, <1>5 DEF Solo
<1>7. Lone(p)' => Lone(p) \/ BeginPrune(p)
  BY <1>1 DEF Lone
<1> QED BY <1>2, <1>4, <1>6, <1>7

-----------------------------------------------------------------------------
(* The newest of some directories.                                         *)

IsNewest(m, S) == m \in S /\ \A n \in S \ {m} : Before(n, m)

LEMMA BeforeIsOrder ==
  /\ \A m, n \in Places : m # n => Before(m, n) \/ Before(n, m)
  /\ \A m, n \in Places : ~(Before(m, n) /\ Before(n, m))
  /\ \A l, m, n \in Places : Before(l, m) /\ Before(m, n) => Before(l, n)
BY DEF Before, Places

LEMMA NewestIs ==
  ASSUME NEW S \in SUBSET Places
  PROVE  /\ \A m : IsNewest(m, S) => Newest(S) = m
         /\ IsFiniteSet(S) /\ S # {} => IsNewest(Newest(S), S)
<1>1. ASSUME NEW m, IsNewest(m, S) PROVE Newest(S) = m
  <2>1. \A n \in S : IsNewest(n, S) => n = m
    BY <1>1, BeforeIsOrder DEF IsNewest
  <2> QED BY <1>1, <2>1 DEF Newest, IsNewest
<1>2. ASSUME IsFiniteSet(S), S # {} PROVE \E m : IsNewest(m, S)
  <2> DEFINE F == {R \in SUBSET S : R = {} \/ \E m : IsNewest(m, R)}
  <2>1. ASSUME NEW R \in SUBSET S, NEW x \in R, R \ {x} \in F PROVE R \in F
    <3>1. CASE R \ {x} = {}
      BY <3>1 DEF IsNewest
    <3>2. CASE R \ {x} # {}
      <4>1. PICK m : IsNewest(m, R \ {x})
        BY <2>1, <3>2
      <4>2. CASE Before(m, x)
        <5>1. \A n \in R \ {x} : Before(n, x)
          BY <4>1, <4>2, BeforeIsOrder DEF IsNewest
        <5> QED BY <5>1 DEF IsNewest
      <4>3. CASE ~Before(m, x)
        <5>1. Before(x, m)
          BY <4>1, <4>3, BeforeIsOrder DEF IsNewest
        <5>2. IsNewest(m, R)
          BY <4>1, <5>1 DEF IsNewest
        <5> QED BY <5>2
      <4> QED BY <4>2, <4>3
    <3> QED BY <3>1, <3>2
  <2>2. S \in F
    <3> HIDE DEF F
    <3>1. {} \in F
      BY DEF F
    <3> QED BY <1>2, <2>1, <3>1, EveryFiniteSet
  <2> QED BY <1>2, <2>2
<1> QED
  BY <1>1, <1>2
-----------------------------------------------------------------------------
(* What a lone process does.                                               *)

LEMMA LoneStep ==
  ASSUME RootInv, SoloInv, NEW p \in Procs, Step(p), Lone(p)
  PROVE  pc'[p] # "failed" /\ Own(p)'
<1> USE DEF RootInv, SoloInv
<1>1. Own(p) /\ p \in DOMAIN pc /\ p \in DOMAIN at /\ p \in DOMAIN doomed /\ p \in DOMAIN mine
  BY DEF Types, Shape
<1>2. mine[p] \in Places \cup {None} /\ (pc[p] \in Unmade => mine[p] = None)
  BY DEF Shape
<1>3. None \notin Places
  BY LogRootAssumption DEF Places
<1>4. CASE BeginPrune(p)
  BY <1>4 DEF BeginPrune, Lone, Busy
<1>5. CASE Consider(p)
  <2> DEFINE first == Least(todo[p])
             old == Exists(first) /\ first[1] < cutoff[p]
  <2>1. /\ pc' = [pc EXCEPT ![p] = IF old THEN "scan" ELSE "consider"]
        /\ at' = [at EXCEPT ![p] = IF old THEN first ELSE @] /\ entries' = entries
    BY <1>5 DEF Consider, Goto, files
  <2> HIDE DEF first
  <2>2. pc'[p] = "scan" => Exists(at[p])'
    BY <1>1, <2>1 DEF Exists
  <2> QED BY <1>1, <2>1, <2>2 DEF Own, Linking, Contents
<1>6. CASE Scan(p)
  BY <1>1, <1>6 DEF Scan, Own, Goto, Fail, Exists, Linking, Contents, files
<1>7. CASE Unlink(p)
  <2>1. /\ pc[p] = "unlink" /\ Exists(at[p]) /\ entries[at[p]] = doomed[p] /\ at' = at
    BY <1>1, <1>7 DEF Unlink, Own
  <2>2. PICK e \in doomed[p] :
          /\ doomed' = [doomed EXCEPT ![p] = @ \ {e}]
          /\ entries' = IF Holds(at[p], e)
                        THEN [entries EXCEPT ![at[p]] = @ \ {e}] ELSE entries
          /\ UNCHANGED <<pc, settled>> \/ (~Holds(at[p], e) /\ Fail(p))
    BY <1>7 DEF Unlink
  <2>3. Holds(at[p], e)
    BY <2>1, <2>2 DEF Holds
  <2>4. /\ pc' = pc /\ entries' = [entries EXCEPT ![at[p]] = @ \ {e}]
    BY <2>2, <2>3
  <2> QED BY <1>1, <2>1, <2>2, <2>4 DEF Own, Exists, Linking, Contents
<1>8. CASE RemoveDirectory(p)
  <2>1. Exists(at[p]) /\ entries[at[p]] = {}
    BY <1>1, <1>8 DEF RemoveDirectory, Own
  <2>2. pc' = [pc EXCEPT ![p] = "consider"]
    BY <1>8, <2>1 DEF RemoveDirectory, Goto
  <2> QED BY <1>1, <2>2 DEF Own, Linking, Contents
<1>9. CASE LookAtLatest(p)
  <2>1. CASE AfterPrune(p)
    BY <1>1, <2>1 DEF AfterPrune, Finish, Goto, Own, Linking, Contents
  <2>2. CASE ~AfterPrune(p)
    <3>1. /\ latest # None /\ ~Exists(latest) /\ entries' = entries /\ latest' = latest
          /\ mine' = mine /\ pc[p] = "consider"
      BY <1>9, <2>2 DEF LookAtLatest, files
    <3>2. CASE DOMAIN entries = {}
      <4>1. pc' = [pc EXCEPT ![p] = "unlink latest"]
        BY <1>9, <2>2, <3>2 DEF LookAtLatest, Goto
      <4> QED BY <1>1, <3>1, <3>2, <4>1 DEF Own, Linking, Contents
    <3>3. CASE DOMAIN entries # {}
      <4>1. /\ pc' = [pc EXCEPT ![p] = "unlink fresh"]
            /\ at' = [at EXCEPT ![p] = Newest(DOMAIN entries)]
        BY <1>9, <2>2, <3>3 DEF LookAtLatest, Goto
      <4>2. Newest(DOMAIN entries) \in DOMAIN entries
        BY <3>3, NewestIs DEF Shape, IsNewest
      <4>3. mine[p] = None
        BY <1>2, <3>1 DEF Unmade
      <4> QED BY <1>1, <3>1, <4>1, <4>2, <4>3 DEF Own, Exists, Linking, Contents
    <3> QED BY <3>2, <3>3
  <2> QED BY <2>1, <2>2
<1>10. CASE UnlinkLatest(p)
  <2>1. AfterPrune(p)
    BY <1>1, <1>10 DEF UnlinkLatest, Own
  <2> QED BY <1>1, <2>1 DEF AfterPrune, Finish, Goto, Own, Linking, Contents
<1>11. CASE Name(p) \/ EndSweep(p)
  BY <1>1, <1>11 DEF Name, EndSweep, Finish, Goto, Own, Linking, Contents
<1>12. CASE Probe(p)
  <2>1. pc[p] = "probe" /\ entries' = entries
    BY <1>12 DEF Probe, files
  <2>2. CASE Exists(at[p])
    BY <1>1, <1>12, <2>1, <2>2 DEF Probe, Own, Linking, Contents
  <2>3. CASE ~Exists(at[p])
    BY <1>1, <1>12, <2>1, <2>3 DEF Probe, Goto, Own, Exists, Linking, Contents
  <2> QED BY <2>2, <2>3
<1>13. CASE MakeDirectory(p)
  <2>1. ~Exists(at[p])
    BY <1>1, <1>13 DEF MakeDirectory, Own
  <2>2. /\ entries' = [n \in DOMAIN entries \cup {at[p]} |-> IF n = at[p] THEN {} ELSE entries[n]]
        /\ mine' = [mine EXCEPT ![p] = at[p]] /\ pc' = [pc EXCEPT ![p] = "unlink fresh"]
        /\ at' = at
    BY <1>13, <2>1 DEF MakeDirectory, Goto
  <2> QED BY <1>1, <2>2 DEF Own, Exists, Linking, Contents
<1>14. CASE UnlinkFresh(p)
  BY <1>1, <1>14 DEF UnlinkFresh, Goto, Own, Exists, Linking, Contents
<1>15. CASE Symlink(p)
  <2>1. fresh = None /\ pc[p] = "symlink"
    BY <1>1, <1>15 DEF Symlink, Own
  <2>2. fresh' = at[p] /\ Goto(p, "replace") /\ UNCHANGED <<entries, at, mine>>
    BY <1>15, <2>1 DEF Symlink, Fail
  <2> QED BY <1>1, <2>1, <2>2 DEF Goto, Own, Exists, Linking, Contents
<1>16. CASE Replace(p)
  <2>1. fresh = at[p] /\ Exists(at[p]) /\ mine[p] \in {None, at[p]} /\ fresh # None
    BY <1>1, <1>3, <1>16 DEF Replace, Own, Linking, Shape, Exists
  <2>2. latest' = at[p] /\ UNCHANGED <<entries, at, mine>>
    BY <1>16, <2>1 DEF Replace
  <2>3. CASE mine[p] = None
    <3>1. AfterPrune(p)
      BY <1>16, <2>1, <2>3 DEF Replace
    <3> QED BY <1>1, <3>1 DEF AfterPrune, Finish, Goto, Own, Linking, Contents
  <2>4. CASE mine[p] # None
    <3>1. pc' = [pc EXCEPT ![p] = "run.log"]
      BY <1>16, <2>1, <2>4 DEF Replace, Goto
    <3> QED BY <1>1, <2>1, <2>2, <2>4, <3>1 DEF Own, Exists, Linking, Contents
  <2> QED BY <2>3, <2>4
<1>17. CASE Write(p)
  <2>1. Exists(mine[p]) /\ latest = mine[p] /\ pc[p] \in Contents
    BY <1>1, <1>17 DEF Write, Own
  <2>2. /\ DOMAIN entries' = DOMAIN entries \cup {mine[p]} /\ UNCHANGED <<latest, mine>>
        /\ pc' = [pc EXCEPT ![p] = After[pc[p]]]
    BY <1>17, <2>1 DEF Write, Goto
  <2>3. After[pc[p]] \in {"plugin", "verdict.txt", "end"}
    BY <2>1 DEF After, Contents
  <2> QED BY <1>1, <2>1, <2>2, <2>3 DEF Own, Exists, Linking, Contents
<1> QED
  BY <1>4, <1>5, <1>6, <1>7, <1>8, <1>9, <1>10, <1>11, <1>12, <1>13, <1>14, <1>15, <1>16,
    <1>17 DEF Step


\* The directories stay finitely many, each with a name.
LEMMA ShapeStep ==
  ASSUME RootInv, Shape, NEW p \in Procs, Step(p) \/ Kill(p)
  PROVE  Shape'
<1>1. Alone(p)
  BY StepIsAlone
<1>2. None \notin Places
  BY LogRootAssumption DEF Places
<1>3. IsFiniteSet(DOMAIN entries) /\ DOMAIN entries \subseteq Places
  BY DEF Shape
<1>4. IsFiniteSet(DOMAIN entries)' /\ (DOMAIN entries \subseteq Places)'
  <2>1. CASE \/ DOMAIN entries' = DOMAIN entries
             \/ DOMAIN entries' \subseteq DOMAIN entries
    BY <1>3, <2>1, FS_Subset
  <2>2. CASE \E x \in Places : DOMAIN entries' = DOMAIN entries \cup {x}
    BY <1>3, <2>2, FS_AddElement
  <2>3. CASE MakeDirectory(p)
    <3>1. at[p] \in Places
      BY <2>3 DEF MakeDirectory, Shape
    <3>2. DOMAIN entries' = DOMAIN entries \/ DOMAIN entries' = DOMAIN entries \cup {at[p]}
      BY <2>3 DEF MakeDirectory
    <3> QED BY <2>1, <2>2, <3>1, <3>2
  <2>4. CASE Write(p)
    <3>1. mine[p] \in Places
      BY <2>4 DEF Write, Shape
    <3>2. DOMAIN entries' = DOMAIN entries \/ DOMAIN entries' = DOMAIN entries \cup {mine[p]}
      BY <2>4 DEF Write
    <3> QED BY <2>1, <2>2, <3>1, <3>2
  <2>5. CASE Unlink(p) \/ RemoveDirectory(p)
    BY <2>1, <2>5 DEF Unlink, RemoveDirectory
  <2>6. CASE ~(MakeDirectory(p) \/ Write(p) \/ Unlink(p) \/ RemoveDirectory(p))
    <3>1. entries' = entries
      BY <2>6 DEF Step, Kill, BeginPrune, Consider, Scan, LookAtLatest, UnlinkLatest, Name, Probe,
        UnlinkFresh, Symlink, Replace, EndSweep, files
    <3> QED BY <2>1, <3>1
  <2> QED BY <2>3, <2>4, <2>5, <2>6
<1>5. DOMAIN doomed' = Procs
  BY DEF Shape, Step, Kill, BeginPrune, Consider, Scan, Unlink, RemoveDirectory, LookAtLatest,
    UnlinkLatest, Name, Probe, MakeDirectory, UnlinkFresh, Symlink, Replace, Write, EndSweep,
    pruning
<1>6. ASSUME NEW q \in Procs
      PROVE  /\ pc'[q] \in {"probe", "mkdir"} => at'[q] \in Places
             /\ mine'[q] \in Places \cup {None}
             /\ pc'[q] \in Unmade => mine'[q] = None
             /\ pc'[q] \in Contents => mine'[q] # None
  <2>1. CASE q # p
    BY <1>1, <2>1 DEF Alone, Shape
  <2>2. CASE q = p
    <3> DEFINE Good == /\ pc'[p] \in {"probe", "mkdir"} => at'[p] \in Places
                       /\ mine'[p] \in Places \cup {None}
                       /\ pc'[p] \in Unmade => mine'[p] = None
                       /\ pc'[p] \in Contents => mine'[p] # None
    <3> SUFFICES Good
      BY <2>2
    <3>1. /\ pc[p] \in {"probe", "mkdir"} => at[p] \in Places
          /\ mine[p] \in Places \cup {None}
          /\ pc[p] \in Unmade => mine[p] = None
          /\ pc[p] \in Contents => mine[p] # None
          /\ DOMAIN pc = Procs /\ DOMAIN at = Procs /\ DOMAIN mine = Procs /\ now \in Nat
      BY DEF Shape, RootInv, Types
    <3>2. CASE mine' = mine /\ pc'[p] \notin {"probe", "mkdir"} /\ pc'[p] \notin Contents
               /\ (pc'[p] \in Unmade => pc[p] \in Unmade \/ mine[p] = None)
      BY <3>1, <3>2
    <3>3. CASE BeginPrune(p) \/ Consider(p)
      BY <3>1, <3>2, <3>3 DEF BeginPrune, Consider, Goto, Unmade, Contents
    <3>4. CASE Scan(p) \/ RemoveDirectory(p)
      BY <3>1, <3>2, <3>4 DEF Scan, RemoveDirectory, Goto, Fail, Unmade, Contents
    <3>5. CASE Unlink(p)
      BY <3>1, <3>2, <3>5 DEF Unlink, Goto, Fail, Unmade, Contents
    <3>6. CASE LookAtLatest(p) \/ UnlinkLatest(p)
      BY <3>1, <3>2, <3>6 DEF LookAtLatest, UnlinkLatest, AfterPrune, Finish, Goto, Fail,
        Unmade, Contents
    <3>7. CASE Name(p)
      BY <3>1, <3>7 DEF Name, Goto, Unmade, Contents, Places
    <3>8. CASE Probe(p)
      BY <3>1, <3>8 DEF Probe, Goto, Unmade, Contents, Places
    <3>9. CASE MakeDirectory(p)
      BY <1>2, <3>1, <3>9 DEF MakeDirectory, Goto, Fail, Unmade, Contents
    <3>10. CASE UnlinkFresh(p) \/ Symlink(p) \/ EndSweep(p) \/ Kill(p)
      BY <3>1, <3>2, <3>10 DEF UnlinkFresh, Symlink, EndSweep, Kill, Finish, Goto, Fail,
        Unmade, Contents
    <3>11. CASE Replace(p)
      BY <3>1, <3>11 DEF Replace, AfterPrune, Finish, Goto, Fail, Unmade, Contents
    <3>12. CASE Write(p)
      BY <3>1, <3>12 DEF Write, After, Goto, Fail, Unmade, Contents
    <3> QED
      BY <1>1, <3>3, <3>4, <3>5, <3>6, <3>7, <3>8, <3>9, <3>10, <3>11, <3>12 DEF Step
  <2> QED BY <2>1, <2>2
<1> QED BY <1>4, <1>5, <1>6 DEF Shape

LEMMA SoloInit == ASSUME Init PROVE SoloInv
<1>1. IsFiniteSet(DOMAIN entries) /\ DOMAIN entries \subseteq Places
  <2>1. PICK earlier \in SUBSET {<<0, 1>>} : entries = [n \in earlier |-> Contents]
    BY DEF Init
  <2>2. earlier \subseteq {<<0, 1>>} /\ IsFiniteSet({<<0, 1>>})
    BY <2>1, FS_Singleton
  <2> QED BY <2>1, <2>2, FS_Subset DEF Places
<1>2. \A p \in Procs : pc[p] = "idle" /\ mine[p] = None
  BY DEF Init
<1> QED
  BY <1>1, <1>2 DEF Init, SoloInv, Shape, Solo, Lone, Busy, FailuresNeedRace, Contents

\* No variable the invariant is about changes.
LEMMA SoloStutter ==
  ASSUME SoloInv, UNCHANGED <<files, pc, doomed, at, mine, raced>>
  PROVE  SoloInv'
BY DEF SoloInv, Shape, Solo, FailuresNeedRace, Lone, Busy, Own, Exists, files

LEMMA SoloNext == ASSUME RootInv, SoloInv, [Next]_vars PROVE SoloInv'
<1>1. ASSUME NEW p \in Procs, Step(p) \/ Kill(p) PROVE SoloInv'
  <2>1. /\ \A q \in Procs \ {p} : ~Lone(q)'
        /\ Solo'
        /\ Lone(p)' => Lone(p) \/ BeginPrune(p)
    BY <1>1, OthersAreNotLone DEF SoloInv
  <2>2. Shape'
    BY <1>1, ShapeStep DEF SoloInv
  <2>3. Alone(p) /\ ((raced' = raced /\ Busy(p)) \/ BeginPrune(p)) /\ p \in DOMAIN pc
    BY <1>1, StepIsAlone DEF RootInv, Types
  <2>4. raced \subseteq raced'
    BY <2>3 DEF BeginPrune
  <2>5. Lone(p)' => Own(p)'
    <3>1. CASE BeginPrune(p)
      <4>1. pc'[p] = "consider"
        BY <2>3, <3>1 DEF BeginPrune, Goto
      <4> QED BY <4>1 DEF Own, Linking, Contents
    <3>2. CASE Kill(p)
      BY <2>3, <3>2 DEF Kill, Lone, Busy
    <3>3. CASE Lone(p) /\ Step(p)
      BY <3>3, LoneStep
    <3> QED BY <1>1, <2>1, <3>1, <3>2, <3>3
  <2>6. pc'[p] = "failed" => p \in raced'
    <3>1. CASE BeginPrune(p) \/ Kill(p)
      BY <2>3, <3>1 DEF BeginPrune, Kill, Goto
    <3>2. CASE Step(p) /\ Lone(p)
      BY <3>2, LoneStep
    <3>3. CASE ~Lone(p) /\ Busy(p)
      BY <2>4, <3>3 DEF Lone
    <3> QED BY <1>1, <2>3, <3>1, <3>2, <3>3
  <2>7. FailuresNeedRace'
    BY <2>3, <2>4, <2>6 DEF FailuresNeedRace, Alone, SoloInv
  <2> QED BY <2>1, <2>2, <2>5, <2>7 DEF SoloInv
<1>2. CASE Tick
  BY <1>2, SoloStutter DEF Tick, pruning
<1>3. CASE UNCHANGED vars
  BY <1>3, SoloStutter DEF vars, pruning
<1> QED BY <1>1, <1>2, <1>3 DEF Next

\* For any number of invocations, one that fails in the log root was overlapped by
\* another: nothing an earlier one left, killed or not, makes it fail.
THEOREM FailuresAreRaces == Spec => []FailuresNeedRace
<1>1. Init => RootInv /\ SoloInv
  BY RootInit, SoloInit
<1>2. RootInv /\ SoloInv /\ [Next]_vars => (RootInv /\ SoloInv)'
  BY RootNext, SoloNext
<1>3. SoloInv => FailuresNeedRace
  BY DEF SoloInv
<1> QED BY <1>1, <1>2, <1>3, PTL DEF Spec

-----------------------------------------------------------------------------
(* While no directory is removed.                                          *)

\* Nobody is about to remove anything, and whatever a link names, or will, is there.
NoneGone == removing = {} =>
  /\ \A p \in Procs : pc[p] \notin {"scan", "unlink", "unlink latest"}
  /\ \A p \in Procs : pc[p] \in Linking => Exists(at[p])
  /\ latest # None => Exists(latest)
  /\ fresh # None => Exists(fresh)
  /\ (\E p \in Sweeps : pc[p] \in Contents \cup {"end", "done"}) => latest # None

\* What a step does while none is removed: a directory stays, a link stays one, and
\* both links name what they named, what the other did, or what the process is about.
LEMMA NoneGoneStep ==
  ASSUME RootInv, NoneGone, NEW p \in Procs, Step(p) \/ Kill(p), removing' = {}
  PROVE  /\ removing = {} /\ DOMAIN entries \subseteq DOMAIN entries'
         /\ pc'[p] \notin {"scan", "unlink", "unlink latest"}
         /\ pc'[p] \in Linking => at'[p] \in DOMAIN entries'
         /\ latest' # latest => latest' = fresh /\ fresh # None
         /\ fresh' \notin {fresh, None} => pc[p] = "symlink" /\ fresh' = at[p]
         /\ p \in Sweeps /\ pc'[p] \in Contents \cup {"end", "done"} =>
              pc[p] \in Contents \cup {"end"} \/ (pc[p] = "replace" /\ latest' # None)
<1> DEFINE Good ==
      /\ DOMAIN entries \subseteq DOMAIN entries'
      /\ pc'[p] \notin {"scan", "unlink", "unlink latest"}
      /\ pc'[p] \in Linking => at'[p] \in DOMAIN entries'
      /\ latest' # latest => latest' = fresh /\ fresh # None
      /\ fresh' \notin {fresh, None} => pc[p] = "symlink" /\ fresh' = at[p]
      /\ p \in Sweeps /\ pc'[p] \in Contents \cup {"end", "done"} =>
           pc[p] \in Contents \cup {"end"} \/ (pc[p] = "replace" /\ latest' # None)
<1>1. removing = {}
  BY DEF Step, Kill, BeginPrune, Consider, Scan, Unlink, RemoveDirectory, LookAtLatest,
    UnlinkLatest, Name, Probe, MakeDirectory, UnlinkFresh, Symlink, Replace, Write, EndSweep
<1>2. /\ pc[p] \notin {"scan", "unlink", "unlink latest"}
      /\ pc[p] \in Linking => Exists(at[p])
      /\ latest # None => Exists(latest)
      /\ fresh # None => Exists(fresh)
      /\ DOMAIN pc = Procs /\ DOMAIN at = Procs
  BY <1>1 DEF NoneGone, RootInv, Types
<1>3. CASE BeginPrune(p) \/ Name(p) \/ Kill(p)
  BY <1>1, <1>3 DEF BeginPrune, Name, Kill, Goto, files, Linking, Contents, RootInv, Types
<1>4. CASE Consider(p)
  <2> DEFINE first == Least(todo[p])
             old == Exists(first) /\ first[1] < cutoff[p]
  <2>1. /\ pc' = [pc EXCEPT ![p] = IF old THEN "scan" ELSE "consider"]
        /\ removing' = IF old THEN removing \cup {first} ELSE removing
        /\ UNCHANGED files
    BY <1>4 DEF Consider, Goto
  <2> HIDE DEF first
  <2>2. pc' = [pc EXCEPT ![p] = "consider"]
    BY <2>1
  <2> QED BY <1>1, <1>2, <2>1, <2>2 DEF files, Linking, Contents
<1>5. CASE LookAtLatest(p)
  <2>1. AfterPrune(p) /\ UNCHANGED <<files, at>>
    BY <1>2, <1>5 DEF LookAtLatest
  <2> QED BY <1>1, <1>2, <2>1 DEF AfterPrune, Finish, Goto, files, Linking, Contents
<1>6. CASE Probe(p)
  BY <1>1, <1>2, <1>6 DEF Probe, Goto, files, Linking, Contents
<1>7. CASE MakeDirectory(p)
  BY <1>1, <1>2, <1>7 DEF MakeDirectory, Goto, Fail, Linking, Contents
<1>8. CASE UnlinkFresh(p) \/ Symlink(p)
  BY <1>1, <1>2, <1>8 DEF UnlinkFresh, Symlink, Goto, Fail, Linking, Contents, Exists
<1>9. CASE Replace(p)
  <2>1. CASE fresh = None
    BY <1>1, <1>2, <1>9, <2>1 DEF Replace, Fail, Goto, Linking, Contents
  <2>2. CASE fresh # None /\ mine[p] = None
    BY <1>1, <1>2, <1>9, <2>2 DEF Replace, AfterPrune, Finish, Goto, Linking, Contents
  <2>3. CASE fresh # None /\ mine[p] # None
    BY <1>1, <1>2, <1>9, <2>3 DEF Replace, Goto, Linking, Contents
  <2> QED BY <2>1, <2>2, <2>3
<1>10. CASE Write(p)
  <2>1. /\ pc[p] \in Contents /\ DOMAIN entries \subseteq DOMAIN entries'
        /\ UNCHANGED <<latest, fresh>> /\ pc' \in {[pc EXCEPT ![p] = After[pc[p]]], [pc EXCEPT ![p] = "failed"]}
    BY <1>10 DEF Write, Fail, Goto
  <2>2. After[pc[p]] \in {"plugin", "verdict.txt", "end"}
    BY <2>1 DEF After, Contents
  <2> QED BY <1>1, <1>2, <2>1, <2>2 DEF Linking, Contents
<1>11. CASE EndSweep(p)
  BY <1>1, <1>2, <1>11 DEF EndSweep, Finish, Goto, files, Linking, Contents
<1>12. CASE Scan(p) \/ Unlink(p) \/ RemoveDirectory(p) \/ UnlinkLatest(p)
  BY <1>2, <1>12 DEF Scan, Unlink, RemoveDirectory, UnlinkLatest
<1> QED
  BY <1>1, <1>3, <1>4, <1>5, <1>6, <1>7, <1>8, <1>9, <1>10, <1>11, <1>12 DEF Step

LEMMA NoneGoneNext == ASSUME RootInv, NoneGone, [Next]_vars PROVE NoneGone'
<1>1. ASSUME NEW p \in Procs, Step(p) \/ Kill(p), removing' = {}
      PROVE  /\ \A q \in Procs : pc'[q] \notin {"scan", "unlink", "unlink latest"}
             /\ \A q \in Procs : pc'[q] \in Linking => at'[q] \in DOMAIN entries'
             /\ latest' # None => latest' \in DOMAIN entries'
             /\ fresh' # None => fresh' \in DOMAIN entries'
             /\ (\E q \in Sweeps : pc'[q] \in Contents \cup {"end", "done"}) => latest' # None
  <2>1. /\ removing = {} /\ DOMAIN entries \subseteq DOMAIN entries'
        /\ pc'[p] \notin {"scan", "unlink", "unlink latest"}
        /\ pc'[p] \in Linking => at'[p] \in DOMAIN entries'
        /\ latest' # latest => latest' = fresh /\ fresh # None
        /\ fresh' \notin {fresh, None} => pc[p] = "symlink" /\ fresh' = at[p]
        /\ p \in Sweeps /\ pc'[p] \in Contents \cup {"end", "done"} =>
             pc[p] \in Contents \cup {"end"} \/ (pc[p] = "replace" /\ latest' # None)
    BY <1>1, NoneGoneStep
  <2>2. Alone(p)
    BY <1>1, StepIsAlone
  <2>3. /\ \A q \in Procs : pc[q] \notin {"scan", "unlink", "unlink latest"}
        /\ \A q \in Procs : pc[q] \in Linking => at[q] \in DOMAIN entries
        /\ latest # None => latest \in DOMAIN entries
        /\ fresh # None => fresh \in DOMAIN entries
        /\ (\E q \in Sweeps : pc[q] \in Contents \cup {"end", "done"}) => latest # None
    BY <2>1 DEF NoneGone, Exists
  <2>4. /\ \A q \in Procs : pc'[q] \notin {"scan", "unlink", "unlink latest"}
        /\ \A q \in Procs : pc'[q] \in Linking => at'[q] \in DOMAIN entries'
    BY <2>1, <2>2, <2>3 DEF Alone
  <2>5. fresh' # None => fresh' \in DOMAIN entries'
    BY <2>1, <2>3 DEF Linking
  <2>6. latest' # None => latest' \in DOMAIN entries'
    BY <2>1, <2>3
  <2>7. latest # None => latest' # None
    BY <2>1
  <2>8. ASSUME NEW q \in Sweeps, pc'[q] \in Contents \cup {"end", "done"} PROVE latest' # None
    <3>1. CASE q = p
      BY <2>1, <2>3, <2>7, <2>8, <3>1
    <3>2. CASE q # p
      BY <2>2, <2>3, <2>7, <2>8, <3>2 DEF Alone, Procs
    <3> QED BY <3>1, <3>2
  <2> QED BY <2>4, <2>5, <2>6, <2>8
<1>2. ASSUME NEW p \in Procs, Step(p) \/ Kill(p) PROVE NoneGone'
  BY <1>1, <1>2 DEF NoneGone, Exists
<1>3. CASE UNCHANGED <<files, pc, at, removing>>
  BY <1>3 DEF NoneGone, Exists, files
<1> QED BY <1>2, <1>3 DEF Next, Tick, vars, pruning

\* For any number of invocations, as long as none removes a directory, `latest` leads
\* to one from the first time it was pointed on.
THEOREM LatestStays == Spec => []LatestIsNeverAbsent
<1>1. ASSUME Init PROVE RootInv /\ NoneGone
  <2>1. PICK earlier \in SUBSET {<<0, 1>>} :
          /\ entries = [n \in earlier |-> Contents]
          /\ latest = IF earlier = {} THEN None ELSE <<0, 1>>
    BY <1>1 DEF Init
  <2>2. fresh = None /\ \A p \in Procs : pc[p] = "idle"
    BY <1>1 DEF Init
  <2>3. latest # None => Exists(latest)
    BY <2>1 DEF Exists
  <2> QED BY <1>1, <2>2, <2>3, RootInit DEF NoneGone, Linking, Contents, Procs
<1>2. RootInv /\ NoneGone /\ [Next]_vars => (RootInv /\ NoneGone)'
  BY RootNext, NoneGoneNext
<1>3. NoneGone => LatestIsNeverAbsent
  BY DEF NoneGone, LatestIsNeverAbsent
<1> QED BY <1>1, <1>2, <1>3, PTL DEF Spec

-----------------------------------------------------------------------------
(* Invocations one after the other.                                        *)

\* The suffixes of a second are taken in order.
Full(s) ==
  \A n \in DOMAIN entries : n[1] = s => \A j \in 1 .. n[2] : <<s, j>> \in DOMAIN entries

Trim == IF DOMAIN entries = {} THEN latest = None ELSE IsNewest(latest, DOMAIN entries)

\* What a process has left of that: a prune, of what it has not removed yet.
Repairing(p) ==
  /\ pc[p] \in {"consider", "scan", "unlink"} =>
       \A n \in DOMAIN entries : latest # None /\ (n = latest \/ Before(n, latest))
  /\ pc[p] \in Linking => IsNewest(at[p], DOMAIN entries)
  /\ pc[p] \in Contents \cup {"end"} => IsNewest(mine[p], DOMAIN entries)
  /\ pc[p] \in {"probe", "mkdir"} =>
       /\ \A n \in DOMAIN entries : n[1] <= at[p][1]
       /\ Full(at[p][1])
       /\ \A j \in 1 .. at[p][2] - 1 : <<at[p][1], j>> \in DOMAIN entries
       /\ at[p][1] <= now

\* Without a kill, the newest directory is the one of the last sweep.
InOrder ==
  /\ \A n \in DOMAIN entries : n[1] <= now
  /\ Full(now)
  /\ (\A p \in Procs : ~Busy(p)) => Trim
  /\ \A p \in Procs : Busy(p) => Repairing(p)

NoDeadEnd == settled => (\A p \in Procs : ~Busy(p)) /\ (latest # None => Exists(latest))

RepairInv ==
  /\ kills \in Nat /\ settled \in BOOLEAN
  /\ \A p \in Procs : cutoff[p] <= now
  /\ raced = {} => NoDeadEnd /\ (kills = 0 => InOrder)

\* A process that ends of itself leaves no dead end.
LEMMA FinishRepairs ==
  ASSUME RootInv, SoloInv, RepairInv, NEW p \in Procs, Step(p), Lone(p), raced = {}, settled'
  PROVE  ~Busy(p)' /\ (latest' # None => Exists(latest)')
<1>1. ~settled /\ DOMAIN pc = Procs /\ Own(p)
  BY DEF RepairInv, NoDeadEnd, Lone, RootInv, Types, SoloInv
<1>2. CASE AfterPrune(p)
  <2>1. Finish(p)
    BY <1>1, <1>2 DEF AfterPrune
  <2>2. ~Busy(p)'
    BY <1>1, <2>1 DEF Finish, Goto, Busy
  <2>3. CASE LookAtLatest(p)
    <3>1. UNCHANGED files
      BY <2>3 DEF LookAtLatest
    <3>2. latest = None \/ Exists(latest)
      BY <1>1, <2>1, <2>3 DEF LookAtLatest, Finish
    <3> QED BY <2>2, <3>1, <3>2 DEF Exists, files
  <2>4. CASE UnlinkLatest(p)
    BY <2>2, <2>4 DEF UnlinkLatest
  <2>5. CASE Replace(p)
    <3>1. latest' = fresh /\ fresh = at[p] /\ Exists(at[p]) /\ entries' = entries
      <4>1. fresh = at[p] /\ Exists(at[p])
        BY <1>1, <2>5 DEF Replace, Own, Linking
      <4>2. fresh # None
        BY <1>1, <2>1, <2>5 DEF Replace, Fail, Finish
      <4> QED BY <2>5, <4>1, <4>2 DEF Replace
    <3> QED BY <2>2, <3>1 DEF Exists
  <2>6. CASE ~(LookAtLatest(p) \/ UnlinkLatest(p) \/ Replace(p))
    <3>1. pc' = [pc EXCEPT ![p] = "done"]
      BY <2>1 DEF Finish, Goto
    <3>2. pc'[p] = "done"
      BY <1>1, <3>1
    <3>3. EndSweep(p)
      <4>1. ~BeginPrune(p) /\ ~Consider(p)
        BY <1>1, <3>2 DEF BeginPrune, Consider, Goto
      <4>2. ~Scan(p) /\ ~Unlink(p) /\ ~RemoveDirectory(p)
        BY <1>1, <2>1, <3>2 DEF Scan, Unlink, RemoveDirectory, Goto, Finish, Fail
      <4>3. ~Name(p) /\ ~Probe(p) /\ ~MakeDirectory(p) /\ ~UnlinkFresh(p) /\ ~Symlink(p)
        BY <1>1, <2>1, <3>2 DEF Name, Probe, MakeDirectory, UnlinkFresh, Symlink, Goto, Finish, Fail
      <4>4. ~Write(p)
        BY <1>1, <2>1, <3>2 DEF Write, Finish, Fail
      <4> QED BY <2>6, <4>1, <4>2, <4>3, <4>4 DEF Step
    <3>4. latest' = latest /\ entries' = entries /\ Exists(latest)
      BY <1>1, <3>3 DEF EndSweep, files, Own, Contents
    <3> QED BY <2>2, <3>4 DEF Exists
  <2> QED BY <2>3, <2>4, <2>5, <2>6
<1>3. CASE ~AfterPrune(p)
  <2>1. EndSweep(p)
    BY <1>1, <1>3 DEF Step, BeginPrune, Consider, Scan, Unlink, RemoveDirectory, LookAtLatest,
      UnlinkLatest, Name, Probe, MakeDirectory, UnlinkFresh, Symlink, Replace, Write, Fail
  <2>2. latest' = latest /\ entries' = entries /\ Exists(latest) /\ ~Busy(p)'
    BY <1>1, <2>1 DEF EndSweep, Finish, Goto, files, Own, Contents, Busy
  <2> QED BY <2>2 DEF Exists
<1> QED BY <1>2, <1>3


LEMMA NewestStays ==
  ASSUME NEW m, NEW S, NEW T, T \subseteq S, m \in T, IsNewest(m, S)
  PROVE  IsNewest(m, T)
BY DEF IsNewest

\* What is below the link, when the link leads somewhere, makes it the newest; and
\* when it is absent there is nothing.
LEMMA BelowIsTrim ==
  ASSUME \A n \in DOMAIN entries : latest # None /\ (n = latest \/ Before(n, latest)),
         latest = None \/ Exists(latest)
  PROVE  Trim
BY DEF Trim, IsNewest, Exists

\* The end of a prune: what follows is trimmed, or a sweep that has no name yet.
LEMMA AfterPruneInOrder ==
  ASSUME RootInv, NEW p \in Procs, AfterPrune(p), Trim'
  PROVE  (Busy(p)' => Repairing(p)') /\ (~Busy(p)' => Trim')
<1>1. pc'[p] \in {"name", "done"}
  BY DEF AfterPrune, Finish, Goto, RootInv, Types
<1> QED BY <1>1 DEF Repairing, Linking, Contents

LEMMA InOrderStep ==
  ASSUME RootInv, SoloInv, RepairInv, InOrder, NEW p \in Procs, Step(p), Lone(p)
  PROVE  /\ \A n \in DOMAIN entries' : n[1] <= now'
         /\ Full(now)'
         /\ (Busy(p)' => Repairing(p)') /\ (~Busy(p)' => Trim')
<1> DEFINE Good == (Busy(p)' => Repairing(p)') /\ (~Busy(p)' => Trim')
<1>1. /\ Own(p) /\ Repairing(p) /\ Busy(p) /\ pc'[p] # "failed"
      /\ now' = now /\ now \in Nat /\ DOMAIN entries \subseteq Places
      /\ DOMAIN pc = Procs /\ DOMAIN at = Procs /\ DOMAIN mine = Procs
  <2>1. now' = now
    BY StepIsAlone DEF Alone
  <2> QED BY <2>1, LoneStep DEF RootInv, SoloInv, Types, Shape, Lone, InOrder
<1>2. (\A n \in DOMAIN entries : n[1] <= now) /\ Full(now)
  BY DEF InOrder
<1>3. CASE entries' = entries /\ Good
  BY <1>1, <1>2, <1>3 DEF Full
<1>4. CASE BeginPrune(p)
  BY <1>1, <1>4 DEF BeginPrune, Busy
<1>5. CASE Consider(p) \/ Scan(p)
  <2>1. pc[p] \in {"consider", "scan"} /\ UNCHANGED files
    BY <1>5 DEF Consider, Scan
  <2>2. pc'[p] \in {"consider", "scan", "unlink"}
    <3>1. CASE Scan(p)
      BY <1>1, <3>1 DEF Scan, Goto, Fail
    <3>2. CASE Consider(p)
      <4>1. \E s \in {"consider", "scan"} : pc' = [pc EXCEPT ![p] = s]
        BY <3>2 DEF Consider, Goto
      <4> QED BY <1>1, <4>1
    <3> QED BY <1>5, <3>1, <3>2
  <2>3. Good
    BY <1>1, <2>1, <2>2 DEF Repairing, Busy, Linking, Contents, files
  <2> QED BY <1>3, <2>1, <2>3 DEF files
<1>6. CASE Unlink(p)
  <2>1. pc[p] = "unlink" /\ DOMAIN entries' = DOMAIN entries /\ latest' = latest
    BY <1>6 DEF Unlink
  <2>2. pc'[p] = "unlink"
    BY <1>1, <1>6, <2>1 DEF Unlink, Fail, Goto
  <2>3. Good
    BY <1>1, <2>1, <2>2 DEF Repairing, Busy, Linking, Contents
  <2> QED BY <1>1, <1>2, <2>1, <2>3 DEF Full
<1>7. CASE RemoveDirectory(p)
  <2>1. pc[p] = "unlink" /\ at[p][1] < cutoff[p] /\ cutoff[p] <= now /\ Exists(at[p])
    BY <1>1, <1>7 DEF RemoveDirectory, RootInv, About, RepairInv, Own
  <2>2. DOMAIN entries' = DOMAIN entries \ {at[p]} /\ latest' = latest
        /\ pc' = [pc EXCEPT ![p] = "consider"]
    BY <1>1, <1>7 DEF RemoveDirectory, Goto, Fail
  <2>3. Good
    BY <1>1, <2>1, <2>2 DEF Repairing, Busy, Linking, Contents
  <2>4. at[p][1] < now
    BY <1>1, <2>1 DEF Exists, Places, RootInv, Types
  <2>5. Full(now)'
    <3> SUFFICES ASSUME NEW n \in DOMAIN entries', n[1] = now, NEW j \in 1 .. n[2]
                 PROVE  <<now, j>> \in DOMAIN entries'
      BY <1>1 DEF Full
    <3>1. <<now, j>> \in DOMAIN entries
      BY <1>2, <2>2 DEF Full
    <3>2. <<now, j>> # at[p]
      BY <1>1, <2>4
    <3> QED BY <2>2, <3>1, <3>2
  <2> QED BY <1>1, <1>2, <2>2, <2>3, <2>5
<1>8. CASE LookAtLatest(p)
  <2>1. pc[p] = "consider" /\ UNCHANGED files
    BY <1>8 DEF LookAtLatest
  <2>2. CASE latest = None \/ Exists(latest)
    <3>1. Trim /\ AfterPrune(p)
      BY <1>1, <1>8, <2>1, <2>2, BelowIsTrim DEF LookAtLatest, Repairing
    <3>2. Trim'
      BY <2>1, <3>1 DEF Trim, files
    <3> QED BY <1>3, <2>1, <3>1, <3>2, AfterPruneInOrder DEF files
  <2>3. CASE ~(latest = None \/ Exists(latest)) /\ DOMAIN entries = {}
    <3>1. pc'[p] = "unlink latest"
      BY <1>1, <1>8, <2>3 DEF LookAtLatest, Goto
    <3>2. Good
      BY <3>1 DEF Repairing, Busy, Linking, Contents
    <3> QED BY <1>3, <2>1, <3>2 DEF files
  <2>4. CASE ~(latest = None \/ Exists(latest)) /\ DOMAIN entries # {}
    <3>1. pc'[p] = "unlink fresh" /\ at'[p] = Newest(DOMAIN entries)
      BY <1>1, <1>8, <2>4 DEF LookAtLatest, Goto
    <3>2. IsNewest(Newest(DOMAIN entries), DOMAIN entries)
      BY <2>4, NewestIs DEF SoloInv, Shape
    <3>3. Good
      BY <2>1, <3>1, <3>2 DEF Repairing, Busy, Linking, Contents, files
    <3> QED BY <1>3, <2>1, <3>3 DEF files
  <2> QED BY <2>2, <2>3, <2>4
<1>9. CASE UnlinkLatest(p)
  <2>1. AfterPrune(p) /\ latest' = None /\ entries' = entries /\ DOMAIN entries = {}
    BY <1>1, <1>9 DEF UnlinkLatest, Own, Fail, Goto
  <2>2. Trim'
    BY <2>1 DEF Trim
  <2> QED BY <1>3, <2>1, <2>2, AfterPruneInOrder
<1>10. CASE Name(p)
  <2>1. UNCHANGED files /\ pc'[p] = "probe" /\ at'[p] = <<now, 1>>
    BY <1>1, <1>10 DEF Name, Goto
  <2>2. at'[p][1] = now /\ at'[p][2] = 1 /\ 1 .. (1 - 1) = {}
    BY <2>1
  <2>3. Full(now)'
    BY <1>1, <1>2, <2>1 DEF Full, files
  <2>4. Full(at[p][1])'
    BY <1>1, <2>2, <2>3 DEF Full
  <2>5. /\ \A n \in DOMAIN entries' : n[1] <= at'[p][1]
        /\ \A j \in 1 .. at'[p][2] - 1 : <<at'[p][1], j>> \in DOMAIN entries'
        /\ at'[p][1] <= now'
    BY <1>1, <1>2, <2>1, <2>2 DEF files
  <2>6. Good
    BY <2>1, <2>4, <2>5 DEF Repairing, Busy, Linking, Contents
  <2> QED BY <1>3, <2>1, <2>6 DEF files
<1>11. CASE Probe(p)
  <2>1. pc[p] = "probe" /\ UNCHANGED files /\ at[p] \in Places
    BY <1>11 DEF Probe, SoloInv, Shape
  <2>2. /\ \A n \in DOMAIN entries : n[1] <= at[p][1]
        /\ Full(at[p][1])
        /\ \A j \in 1 .. at[p][2] - 1 : <<at[p][1], j>> \in DOMAIN entries
        /\ at[p][1] <= now
    BY <1>1, <2>1 DEF Repairing
  <2>3. CASE Exists(at[p])
    <3>1. pc' = pc /\ at'[p] = <<at[p][1], at[p][2] + 1>>
      BY <1>1, <1>11, <2>3 DEF Probe
    <3>2. at[p] = <<at[p][1], at[p][2]>> /\ at[p][1] \in Nat /\ at[p][2] \in Nat
      BY <2>1 DEF Places
    <3>3. \A j \in 1 .. at[p][2] : <<at[p][1], j>> \in DOMAIN entries
      BY <2>2, <2>3, <3>2 DEF Exists
    <3>4. Good
      BY <1>1, <2>1, <2>2, <3>1, <3>2, <3>3 DEF Repairing, Busy, Linking, Contents, files, Full
    <3> QED BY <1>3, <2>1, <3>4 DEF files
  <2>4. CASE ~Exists(at[p])
    <3>1. pc'[p] = "mkdir" /\ at' = at
      BY <1>1, <1>11, <2>4 DEF Probe, Goto
    <3>2. Good
      BY <1>1, <2>1, <2>2, <3>1 DEF Repairing, Busy, Linking, Contents, files, Full
    <3> QED BY <1>3, <2>1, <3>2 DEF files
  <2> QED BY <2>3, <2>4
<1>12. CASE MakeDirectory(p)
  <2>1. pc[p] = "mkdir" /\ at[p] \in Places /\ ~Exists(at[p]) /\ at' = at
    BY <1>1, <1>12 DEF MakeDirectory, SoloInv, Shape, Own
  <2>2. DOMAIN entries' = DOMAIN entries \cup {at[p]} /\ pc'[p] = "unlink fresh"
    BY <1>1, <1>12, <2>1 DEF MakeDirectory, Goto
  <2>3. /\ \A n \in DOMAIN entries : n[1] <= at[p][1]
        /\ Full(at[p][1])
        /\ \A j \in 1 .. at[p][2] - 1 : <<at[p][1], j>> \in DOMAIN entries
        /\ at[p][1] <= now
    BY <1>1, <2>1 DEF Repairing
  <2>4. at[p] = <<at[p][1], at[p][2]>> /\ at[p][1] \in Nat /\ at[p][2] \in Nat \ {0}
    BY <2>1 DEF Places
  <2>5. ASSUME NEW n \in DOMAIN entries PROVE Before(n, at[p])
    <3>1. n \in Places /\ n[1] \in Nat /\ n[2] \in Nat /\ n[1] <= at[p][1]
      BY <1>1, <2>3, <2>5 DEF Places
    <3>2. n[1] = at[p][1] => n[2] < at[p][2]
      <4> SUFFICES ASSUME n[1] = at[p][1], at[p][2] <= n[2] PROVE FALSE
        BY <2>4, <3>1
      <4>1. at[p][2] \in 1 .. n[2]
        BY <2>4, <3>1
      <4>2. <<at[p][1], at[p][2]>> \in DOMAIN entries
        BY <2>3, <4>1 DEF Full
      <4> QED BY <2>1, <2>4, <4>2 DEF Exists
    <3> QED BY <2>4, <3>1, <3>2 DEF Before
  <2>6. IsNewest(at[p], DOMAIN entries')
    BY <2>2, <2>5 DEF IsNewest
  <2>7. Good
    BY <2>1, <2>2, <2>6 DEF Repairing, Busy, Linking, Contents
  <2>8. Full(now)'
    <3> SUFFICES ASSUME NEW n \in DOMAIN entries', n[1] = now, NEW j \in 1 .. n[2]
                 PROVE  <<now, j>> \in DOMAIN entries'
      BY <1>1 DEF Full
    <3>1. CASE n \in DOMAIN entries
      BY <1>2, <2>2, <3>1 DEF Full
    <3>2. CASE n = at[p]
      <4>1. j \in 1 .. at[p][2] - 1 \/ j = at[p][2]
        BY <2>4, <3>2
      <4>2. <<at[p][1], j>> \in DOMAIN entries \cup {at[p]}
        BY <2>3, <2>4, <4>1
      <4> QED BY <2>2, <3>2, <4>2
    <3> QED BY <2>2, <3>1, <3>2
  <2> QED BY <1>1, <1>2, <2>2, <2>3, <2>7, <2>8
<1>13. CASE UnlinkFresh(p) \/ Symlink(p)
  <2>1. pc[p] \in Linking /\ entries' = entries /\ latest' = latest /\ at' = at
    BY <1>13 DEF UnlinkFresh, Symlink, Linking
  <2>2. pc'[p] \in Linking
    BY <1>1, <1>13 DEF UnlinkFresh, Symlink, Goto, Fail, Linking
  <2>3. Good
    BY <1>1, <2>1, <2>2 DEF Repairing, Busy, Linking, Contents
  <2> QED BY <1>3, <2>1, <2>3
<1>14. CASE Replace(p)
  <2>1. /\ entries' = entries /\ mine' = mine /\ fresh = at[p] /\ mine[p] \in {None, at[p]}
        /\ IsNewest(at[p], DOMAIN entries)
    BY <1>1, <1>14 DEF Replace, Own, Repairing, Linking
  <2>2. latest' = at[p]
    BY <1>1, <1>14, <2>1 DEF Replace, Fail, Goto
  <2>3. Trim'
    BY <2>1, <2>2 DEF Trim, IsNewest
  <2>4. CASE mine[p] = None
    <3>1. AfterPrune(p)
      BY <1>1, <1>14, <2>4 DEF Replace, Fail, Goto
    <3> QED BY <1>3, <2>1, <2>3, <3>1, AfterPruneInOrder
  <2>5. CASE mine[p] # None
    <3>1. pc'[p] = "run.log"
      BY <1>1, <1>14, <2>5 DEF Replace, Fail, Goto
    <3>2. Good
      BY <2>1, <2>5, <3>1 DEF Repairing, Busy, Linking, Contents
    <3> QED BY <1>3, <2>1, <3>2
  <2> QED BY <2>4, <2>5
<1>15. CASE Write(p)
  <2>1. /\ Exists(mine[p]) /\ pc[p] \in Contents /\ mine' = mine
        /\ IsNewest(mine[p], DOMAIN entries)
    BY <1>1, <1>15 DEF Write, Own, Repairing
  <2>2. DOMAIN entries' = DOMAIN entries /\ pc'[p] = After[pc[p]]
    BY <1>1, <1>15, <2>1 DEF Write, Goto, Exists
  <2>3. pc'[p] \in {"plugin", "verdict.txt", "end"}
    BY <2>1, <2>2 DEF After, Contents
  <2>4. Good
    BY <2>1, <2>2, <2>3 DEF Repairing, Busy, Linking, Contents
  <2> QED BY <1>1, <1>2, <2>2, <2>4 DEF Full
<1>16. CASE EndSweep(p)
  <2>1. UNCHANGED files /\ pc'[p] = "done" /\ latest = mine[p]
        /\ IsNewest(mine[p], DOMAIN entries)
    BY <1>1, <1>16 DEF EndSweep, Finish, Goto, Own, Repairing, Contents
  <2>2. Good
    BY <2>1 DEF Busy, Trim, IsNewest, files
  <2> QED BY <1>3, <2>1, <2>2 DEF files
<1> QED
  BY <1>4, <1>5, <1>6, <1>7, <1>8, <1>9, <1>10, <1>11, <1>12, <1>13, <1>14, <1>15, <1>16
    DEF Step


LEMMA RepairInit == ASSUME Init PROVE RepairInv
<1>1. PICK earlier \in SUBSET {<<0, 1>>} :
        /\ entries = [n \in earlier |-> Contents]
        /\ latest = IF earlier = {} THEN None ELSE <<0, 1>>
  BY DEF Init
<1>2. /\ now = 1 /\ kills = 0 /\ settled = TRUE
      /\ \A p \in Procs : pc[p] = "idle" /\ cutoff[p] = 0
  BY DEF Init
<1>3. DOMAIN entries \subseteq {<<0, 1>>} /\ latest = IF DOMAIN entries = {} THEN None ELSE <<0, 1>>
  BY <1>1
<1>4. Trim
  BY <1>3 DEF Trim, IsNewest
<1>5. NoDeadEnd
  BY <1>2, <1>3 DEF NoDeadEnd, Busy, Exists
<1>6. \A n \in DOMAIN entries : n[1] <= now /\ n[1] # now
  BY <1>2, <1>3
<1>7. InOrder
  BY <1>2, <1>4, <1>6 DEF InOrder, Busy, Full
<1> QED BY <1>2, <1>5, <1>7 DEF RepairInv

LEMMA RepairStep ==
  ASSUME RootInv, SoloInv, RepairInv, NEW p \in Procs, Step(p)
  PROVE  RepairInv'
<1>1. /\ Alone(p) /\ now' = now /\ now \in Nat /\ p \in DOMAIN pc /\ p \in DOMAIN cutoff
      /\ (raced' = raced /\ Busy(p)) \/ BeginPrune(p)
  BY StepIsAlone DEF Alone, RootInv, Types
<1>2. kills' = kills /\ settled' \in BOOLEAN
  BY DEF RepairInv, Step, BeginPrune, Consider, Scan, Unlink, RemoveDirectory, LookAtLatest,
    UnlinkLatest, Name, Probe, MakeDirectory, UnlinkFresh, Symlink, Replace, Write, EndSweep,
    AfterPrune, Finish, Fail
<1>3. ASSUME NEW q \in Procs PROVE cutoff'[q] <= now'
  <2>1. CASE BeginPrune(p)
    <3>1. PICK days \in (IF p \in Sweeps THEN {RunPruneDays} ELSE OlderThan) :
            cutoff' = [cutoff EXCEPT ![p] = now - days]
      BY <2>1 DEF BeginPrune
    <3>2. days \in Nat
      BY LogRootAssumption
    <3> QED BY <1>1, <3>1, <3>2 DEF RepairInv
  <2>2. CASE ~BeginPrune(p)
    <3>1. cutoff' = cutoff
      BY <2>2 DEF Step, Consider, Scan, Unlink, RemoveDirectory, LookAtLatest, UnlinkLatest,
        Name, Probe, MakeDirectory, UnlinkFresh, Symlink, Replace, Write, EndSweep, pruning
    <3> QED BY <1>1, <3>1 DEF RepairInv
  <2> QED BY <2>1, <2>2
<1>4. ASSUME raced' = {} PROVE NoDeadEnd' /\ (kills = 0 => InOrder')
  <2>1. CASE BeginPrune(p)
    <3>1. raced = {} /\ \A q \in Procs : ~Busy(q)
      BY <1>4, <2>1 DEF BeginPrune
    <3>2. UNCHANGED files /\ settled' = FALSE /\ pc'[p] = "consider"
      BY <1>1, <2>1 DEF BeginPrune, Goto
    <3>3. \A q \in Procs \ {p} : ~Busy(q)'
      BY <1>1, <3>1 DEF Alone, Busy
    <3>4. Busy(p)' /\ NoDeadEnd'
      BY <3>2 DEF Busy, NoDeadEnd
    <3>5. ASSUME kills = 0 PROVE InOrder'
      <4>1. InOrder /\ Trim
        BY <3>1, <3>5 DEF RepairInv, InOrder
      <4>2. \A n \in DOMAIN entries : latest # None /\ (n = latest \/ Before(n, latest))
        <5>1. None \notin DOMAIN entries
          BY LogRootAssumption DEF SoloInv, Shape, Places
        <5> QED BY <4>1, <5>1 DEF Trim, IsNewest
      <4>3. Repairing(p)'
        BY <3>2, <4>2 DEF Repairing, Linking, Contents, files
      <4>4. Full(now)' /\ \A n \in DOMAIN entries' : n[1] <= now'
        BY <1>1, <3>2, <4>1 DEF InOrder, Full, files
      <4> QED BY <3>3, <3>4, <4>3, <4>4 DEF InOrder
    <3> QED BY <3>4, <3>5
  <2>2. CASE raced' = raced /\ Busy(p)
    <3>1. Lone(p) /\ raced = {}
      BY <1>4, <2>2 DEF Lone
    <3>2. \A q \in Procs \ {p} : ~Busy(q) /\ ~Busy(q)'
      BY <1>1, <3>1 DEF SoloInv, Solo, Alone, Busy
    <3>3. NoDeadEnd'
      BY <3>1, <3>2, FinishRepairs DEF NoDeadEnd
    <3>4. ASSUME kills = 0 PROVE InOrder'
      <4>1. InOrder
        BY <3>1, <3>4 DEF RepairInv
      <4>2. /\ \A n \in DOMAIN entries' : n[1] <= now'
            /\ Full(now)'
            /\ (Busy(p)' => Repairing(p)') /\ (~Busy(p)' => Trim')
        BY <3>1, <4>1, InOrderStep
      <4> QED BY <3>2, <4>2 DEF InOrder
    <3> QED BY <3>3, <3>4
  <2> QED BY <1>1, <2>1, <2>2
<1> QED BY <1>2, <1>3, <1>4 DEF RepairInv

LEMMA RepairNext == ASSUME RootInv, SoloInv, RepairInv, [Next]_vars PROVE RepairInv'
<1>1. ASSUME NEW p \in Procs, Kill(p) PROVE RepairInv'
  <2>1. kills' = kills + 1 /\ settled' = FALSE /\ UNCHANGED <<now, cutoff, raced>>
    BY <1>1 DEF Kill, pruning
  <2>2. kills' \in Nat /\ kills' # 0
    BY <2>1 DEF RepairInv
  <2> QED BY <2>1, <2>2 DEF RepairInv, NoDeadEnd
<1>2. CASE Tick
  <2>1. now' = now + 1 /\ now \in Nat /\ UNCHANGED <<files, pc, at, mine, cutoff, kills, raced, settled>>
    BY <1>2 DEF Tick, pruning, RootInv, Types
  <2>2. \A p \in Procs : cutoff'[p] <= now'
    BY <2>1 DEF RepairInv, RootInv, Types
  <2>3. NoDeadEnd => NoDeadEnd'
    BY <2>1 DEF NoDeadEnd, Busy, Exists, files
  <2>4. ASSUME InOrder PROVE InOrder'
    <3>1. DOMAIN entries \subseteq Places /\ entries' = entries
      BY <2>1 DEF SoloInv, Shape, files
    <3>2. \A n \in DOMAIN entries : n[1] \in Nat /\ n[1] <= now
      BY <2>4, <3>1 DEF InOrder, Places
    <3>3. \A n \in DOMAIN entries' : n[1] <= now' /\ n[1] # now'
      BY <2>1, <3>1, <3>2
    <3>4. Full(now)'
      BY <3>3 DEF Full
    <3>5. (\A p \in Procs : ~Busy(p))' => Trim'
      BY <2>1, <2>4 DEF InOrder, Busy, Trim, files
    <3>6. ASSUME NEW p \in Procs, Busy(p)' PROVE Repairing(p)'
      <4>1. Repairing(p)
        BY <2>1, <2>4, <3>6 DEF InOrder, Busy
      <4>2. pc[p] \in {"probe", "mkdir"} => at[p][1] \in Nat
        BY DEF SoloInv, Shape, Places
      <4> QED BY <2>1, <4>1, <4>2 DEF Repairing, Full, files
    <3> QED BY <3>3, <3>4, <3>5, <3>6 DEF InOrder
  <2> QED BY <2>1, <2>2, <2>3, <2>4 DEF RepairInv
<1>3. CASE UNCHANGED vars
  BY <1>3 DEF vars, files, pruning, RepairInv, NoDeadEnd, InOrder, Busy, Exists, Full, Trim,
    Repairing
<1>4. ASSUME NEW p \in Procs, Step(p) PROVE RepairInv'
  BY <1>4, RepairStep
<1> QED BY <1>1, <1>2, <1>3, <1>4 DEF Next

\* For any number of invocations one after the other: when one ends of itself, `latest`
\* is the newest directory, and absent when there is none; after a kill, it is at least
\* no dead end.
THEOREM LatestIsLeftRepaired == Spec => []LatestIsRepaired
<1>1. Init => RootInv /\ SoloInv /\ RepairInv
  BY RootInit, SoloInit, RepairInit
<1>2. RootInv /\ SoloInv /\ RepairInv /\ [Next]_vars => (RootInv /\ SoloInv /\ RepairInv)'
  BY RootNext, SoloNext, RepairNext
<1>3. ASSUME SoloInv, RepairInv PROVE LatestIsRepaired
  <2>1. ASSUME settled, raced = {} PROVE latest # None => Exists(latest)
    BY <1>3, <2>1 DEF RepairInv, NoDeadEnd
  <2>2. ASSUME settled, raced = {}, kills = 0
        PROVE  latest = IF DOMAIN entries = {} THEN None ELSE Newest(DOMAIN entries)
    <3>1. Trim
      BY <1>3, <2>2 DEF RepairInv, NoDeadEnd, InOrder
    <3>2. DOMAIN entries \in SUBSET Places
      BY <1>3 DEF SoloInv, Shape
    <3> QED BY <3>1, <3>2, NewestIs DEF Trim
  <2> QED BY <2>1, <2>2 DEF LatestIsRepaired
<1> QED BY <1>1, <1>2, <1>3, PTL DEF Spec
-----------------------------------------------------------------------------
(* The copy of the output.                                                 *)
Shown == Pieces \cup {Earlier}

\* What was read and is not in the log.
Pending == IF pump \in {"to terminal", "to log"} THEN chunk ELSE <<>>

\* What the sweep's thread relies on at each step, and the end of the pump.
Control ==
  /\ stage = "flush" => buffer \in {<<>>, <<Earlier>>} /\ terminal = <<>>
  /\ stage \in {"flush", "redirect"} =>
       /\ pump = "read" /\ pipe = <<>> /\ log = <<>> /\ written = <<>>
       /\ "write_fd" \in writers /\ child = "none" /\ prints = 0
  /\ stage \notin {"flush", "killed"} => buffer \in Seq(Pieces)
  /\ stage \in {"sweep", "flush again", "restore"} => "1" \in writers
  /\ stage \in {"restore", "join", "closed"} => buffer = <<>>
  /\ stage = "closed" => pump \in {"ended", "dead"}
  /\ child = "running" => "child" \in writers
  /\ pump = "ended" => writers = {} /\ pipe = <<>>

Copied == pump # "dead" => written = (log \o Pending) \o pipe

Showing ==
  /\ pump \in {"read", "to terminal", "ended"} => Shows(log)
  /\ pump = "to log" => Shows(log \o chunk)
  /\ pump = "dead" => Shows(log) \/ Shows(log \o chunk)

NothingAround == \A k \in 1 .. prints : Printed(k) \in Range(buffer) \cup Range(written)

TeeInv == TeeTypeOK /\ Control /\ Copied /\ Showing /\ NothingAround
-----------------------------------------------------------------------------
(* Sequences.                                                              *)

LEMMA PieceSequences ==
  ASSUME NEW s \in Seq(Pieces)
  PROVE  s \in Seq(Shown)
BY DEF Shown

LEMMA Associative ==
  \A x, y, z \in Seq(Shown) : (x \o y) \o z = x \o (y \o z)
BY ConcatAssociative

LEMMA ConcatAppend ==
  ASSUME NEW s \in Seq(Pieces), NEW t \in Seq(Pieces), NEW e \in Pieces
  PROVE  s \o Append(t, e) = Append(s \o t, e)
<1>1. Append(t, e) = t \o <<e>> /\ Append(s \o t, e) = (s \o t) \o <<e>>
  BY AppendIsConcat, ConcatProperties
<1>2. s \o (t \o <<e>>) = (s \o t) \o <<e>>
  <2>1. <<e>> \in Seq(Pieces)
    OBVIOUS
  <2> QED BY <2>1, ConcatAssociative
<1> QED BY <1>1, <1>2

LEMMA RangeOfAppend ==
  ASSUME NEW s \in Seq(Shown), NEW e \in Shown
  PROVE  Range(Append(s, e)) = Range(s) \cup {e}
<1> DEFINE n == Len(s)
<1>1. n \in Nat /\ DOMAIN s = 1 .. n /\ DOMAIN Append(s, e) = 1 .. (n + 1)
      /\ (\A i \in 1 .. n : Append(s, e)[i] = s[i]) /\ Append(s, e)[n + 1] = e
  BY AppendProperties, LenProperties
<1>2. 1 .. (n + 1) = (1 .. n) \cup {n + 1}
  BY <1>1
<1> HIDE DEF n
<1>3. {Append(s, e)[i] : i \in 1 .. (n + 1)} = {s[i] : i \in 1 .. n} \cup {e}
  BY <1>1, <1>2, ZenonT(40)
<1> QED BY <1>1, <1>3, Zenon DEF Range

LEMMA RangeOfTail ==
  ASSUME NEW s \in Seq(Shown), s # <<>>
  PROVE  Range(s) = {Head(s)} \cup Range(Tail(s))
<1>1. s = <<Head(s)>> \o Tail(s) /\ Head(s) \in Shown /\ Tail(s) \in Seq(Shown)
  BY HeadTailProperties
<1> DEFINE n == Len(Tail(s))
<1>2. n \in Nat /\ DOMAIN Tail(s) = 1 .. n /\ DOMAIN s = 1 .. (n + 1)
      /\ s[1] = Head(s) /\ \A i \in 1 .. n : Tail(s)[i] = s[i + 1]
  BY <1>1, HeadTailProperties, LenProperties
<1> HIDE DEF n
<1>3. \A i \in 1 .. (n + 1) : i = 1 \/ \E j \in 1 .. n : i = j + 1
  <2> TAKE i \in 1 .. (n + 1)
  <2>1. i # 1 => i - 1 \in 1 .. n /\ i = (i - 1) + 1
    BY <1>2
  <2> QED BY <2>1
<1>4. 1 \in 1 .. (n + 1) /\ \A j \in 1 .. n : j + 1 \in 1 .. (n + 1)
  BY <1>2
<1>5. {s[i] : i \in 1 .. (n + 1)} = {s[1]} \cup {s[j + 1] : j \in 1 .. n}
  BY <1>3, <1>4, Zenon
<1>6. {Tail(s)[j] : j \in 1 .. n} = {s[j + 1] : j \in 1 .. n}
  BY <1>2, Zenon
<1> QED BY <1>2, <1>5, <1>6, Zenon DEF Range

LEMMA ShowsMore ==
  ASSUME NEW shown \in Seq(Shown), NEW p \in Seq(Pieces), NEW c \in Seq(Pieces),
         NEW before \in {<<>>, <<Earlier>>}, shown = before \o p
  PROVE  shown \o c = before \o (p \o c)
<1>1. p \in Seq(Shown) /\ c \in Seq(Shown)
  BY PieceSequences
<1>2. before \in Seq(Shown)
  BY DEF Shown
<1> QED BY <1>1, <1>2, Associative, Zenon
-----------------------------------------------------------------------------
(* Each piece.                                                             *)

LEMMA TypesAndControl ==
  ASSUME TeeTypeOK, Control, [TeeNext]_teeVars
  PROVE  TeeTypeOK' /\ Control'
<1>a. PipeSize \in Nat /\ PipeSize >= 1 /\ MaxPrints \in Nat /\ MaxWrites \in Nat
  BY TeeAssumption
<1>b. /\ pipe \in Seq(Pieces) /\ chunk \in Seq(Pieces) /\ written \in Seq(Pieces)
      /\ log \in Seq(Pieces) /\ terminal \in Seq(Shown) /\ buffer \in Seq(Shown)
      /\ prints \in 0 .. MaxPrints /\ writes \in 0 .. MaxWrites /\ Len(pipe) <= PipeSize
  BY DEF TeeTypeOK, Shown
<1> USE DEF sinks, source
<1>1. CASE FlushBefore
  BY <1>1 DEF FlushBefore, TeeTypeOK, Control
<1>2. CASE Redirect
  BY <1>2 DEF Redirect, TeeTypeOK, Control
<1>3. CASE FlushPiece
  <2>1. stage \in {"sweep", "flush again"} /\ buffer # <<>> /\ buffer \in Seq(Pieces) /\ "1" \in writers
    BY <1>3 DEF FlushPiece, Control
  <2>2. Head(buffer) \in Pieces /\ Tail(buffer) \in Seq(Pieces)
    BY <2>1, HeadTailProperties
  <2>3. buffer' \in Seq(Pieces) /\ buffer' \in Seq(Shown)
    BY <1>3, <2>2, PieceSequences DEF FlushPiece
  <2>4. pipe' \in Seq(Pieces) /\ Len(pipe') = Len(pipe) + 1 /\ written' \in Seq(Pieces)
    BY <1>3, <1>b, <2>2, AppendProperties DEF FlushPiece, Send, sinks, source
  <2>5. Len(pipe') <= PipeSize
    <3>1. Len(pipe) < PipeSize /\ Len(pipe) \in Nat
      BY <1>3, <1>b, LenProperties DEF FlushPiece, Send
    <3> QED BY <1>a, <2>4, <3>1
  <2>6. /\ pump # "ended"
        /\ UNCHANGED <<stage, writers, pump, chunk, terminal, log, child, prints, writes, broken>>
    BY <1>3, <2>1 DEF FlushPiece, Control
  <2> QED BY <2>1, <2>3, <2>4, <2>5, <2>6 DEF TeeTypeOK, Control, Shown
<1>4. CASE SweepEnds
  BY <1>4 DEF SweepEnds, TeeTypeOK, Control
<1>5. CASE FlushedAgain
  BY <1>5 DEF FlushedAgain, TeeTypeOK, Control
<1>6. CASE Restore
  BY <1>6 DEF Restore, TeeTypeOK, Control
<1>7. CASE Join
  <2>1. stage = "join" /\ buffer = <<>> /\ buffer' = <<>> /\ pump \in {"ended", "dead"}
    BY <1>7 DEF Join, Control
  <2>2. terminal \o <<>> = terminal /\ <<>> \in Seq(Pieces) /\ <<>> \in Seq(Shown)
    BY <1>b, ConcatEmptySeq, EmptySeq
  <2>3. terminal' = terminal
    BY <1>7, <2>1, <2>2 DEF Join
  <2>4. stage' = "closed" /\ UNCHANGED <<writers, pipe, pump, chunk, log, child, prints, writes, broken, written>>
    BY <1>7 DEF Join
  <2> QED BY <2>1, <2>2, <2>3, <2>4 DEF TeeTypeOK, Control, Shown
<1>8. CASE Read
  <2>1. pump = "read" /\ pump' = "to terminal" /\ chunk' = pipe /\ pipe' = <<>>
        /\ stage \notin {"flush", "redirect", "closed"}
    BY <1>8 DEF Read, Control
  <2>2. pipe' \in Seq(Pieces) /\ Len(pipe') <= PipeSize
    <3>1. <<>> \in Seq(Pieces) /\ Len(<<>>) = 0
      BY EmptySeq
    <3>2. 0 <= PipeSize
      BY <1>a
    <3>3. pipe' = <<>>
      BY <2>1
    <3> QED BY <3>1, <3>2, <3>3
  <2>3. UNCHANGED <<stage, buffer, writers, terminal, log, child, prints, writes, broken, written>>
    BY <1>8 DEF Read
  <2> QED BY <2>1, <2>2, <2>3 DEF TeeTypeOK, Control
<1>9. CASE ReadEnd
  BY <1>9 DEF ReadEnd, TeeTypeOK, Control
<1>10. CASE CopyToTerminal
  <2>1. /\ pump = "to terminal" /\ pump' \in {"to log", "dead"}
        /\ stage \notin {"flush", "redirect", "closed"}
    BY <1>10 DEF CopyToTerminal, Control
  <2>2. terminal' \in Seq(Shown)
    <3>1. chunk \in Seq(Shown)
      BY <1>b, PieceSequences
    <3>2. terminal \o chunk \in Seq(Shown)
      BY <1>b, <3>1, ConcatProperties
    <3> QED BY <1>10, <1>b, <3>1, <3>2 DEF CopyToTerminal
  <2>3. UNCHANGED <<stage, buffer, writers, pipe, chunk, log, child, prints, writes, broken, written>>
    BY <1>10 DEF CopyToTerminal
  <2> QED BY <2>1, <2>2, <2>3 DEF TeeTypeOK, Control, Shown
<1>11. CASE CopyToLog
  <2>1. /\ pump = "to log" /\ pump' \in {"read", "dead"}
        /\ stage \notin {"flush", "redirect", "closed"}
    BY <1>11 DEF CopyToLog, Control
  <2>2. log' \in Seq(Pieces)
    BY <1>11, <1>b, ConcatProperties DEF CopyToLog
  <2>3. UNCHANGED <<stage, buffer, writers, pipe, chunk, terminal, child, prints, writes, broken, written>>
    BY <1>11 DEF CopyToLog
  <2> QED BY <2>1, <2>2, <2>3 DEF TeeTypeOK, Control
<1>12. CASE PrintPiece
  <2>1. stage = "sweep" /\ prints < MaxPrints /\ prints' = prints + 1 /\ buffer \in Seq(Pieces)
    BY <1>12 DEF PrintPiece, Control
  <2>2. prints' \in 1 .. MaxPrints /\ prints' \in 0 .. MaxPrints
    BY <2>1, <1>a, <1>b
  <2>3. Printed(prints + 1) \in Pieces
    BY <2>1, <2>2 DEF Printed, Pieces
  <2>4. buffer' \in Seq(Pieces) /\ buffer' \in Seq(Shown)
    BY <1>12, <2>1, <2>3, AppendProperties, PieceSequences DEF PrintPiece
  <2>5. UNCHANGED <<stage, writers, pipe, pump, chunk, terminal, log, child, writes, broken, written>>
    BY <1>12 DEF PrintPiece
  <2> QED BY <2>1, <2>2, <2>4, <2>5 DEF TeeTypeOK, Control, Shown
<1>13. CASE Spawn
  BY <1>13 DEF Spawn, TeeTypeOK, Control
<1>14. CASE ChildWrites
  <2>1. child = "running" /\ writes < MaxWrites /\ writes' = writes + 1 /\ "child" \in writers
        /\ Send(<<"child", writes + 1>>)
    BY <1>14 DEF ChildWrites, Control
  <2>2. writes' \in 1 .. MaxWrites /\ writes' \in 0 .. MaxWrites
    BY <2>1, <1>a, <1>b
  <2>3. <<"child", writes + 1>> \in Pieces
    BY <2>1, <2>2 DEF Pieces
  <2>4. pipe' \in Seq(Pieces) /\ Len(pipe') = Len(pipe) + 1 /\ written' \in Seq(Pieces)
    BY <2>1, <1>b, <2>3, AppendProperties DEF Send
  <2>5. Len(pipe') <= PipeSize
    BY <2>1, <1>a, <1>b, <2>4, LenProperties DEF Send
  <2>6. /\ stage \notin {"flush", "redirect"} /\ pump # "ended"
        /\ UNCHANGED <<stage, buffer, writers, pump, chunk, terminal, log, child, prints, broken>>
    BY <1>14, <2>1 DEF ChildWrites, Control
  <2> QED BY <2>1, <2>2, <2>4, <2>5, <2>6 DEF TeeTypeOK, Control
<1>15. CASE ChildExits
  BY <1>15 DEF ChildExits, TeeTypeOK, Control
<1>16. CASE Break
  BY <1>16, ZenonT(40) DEF Break, TeeTypeOK, Control
<1>17. CASE KillTee
  BY <1>17 DEF KillTee, TeeTypeOK, Control
<1>18. CASE UNCHANGED teeVars
  BY <1>18 DEF teeVars, TeeTypeOK, Control
<1> QED
  BY <1>1, <1>2, <1>3, <1>4, <1>5, <1>6, <1>7, <1>8, <1>9, <1>10, <1>11, <1>12, <1>13, <1>14, <1>15, <1>16, <1>17, <1>18 DEF TeeNext, Sweep, Pump

LEMMA EveryPieceIsCopied ==
  ASSUME TeeTypeOK, Control, Copied, [TeeNext]_teeVars
  PROVE  Copied'
<1>b. /\ pipe \in Seq(Pieces) /\ chunk \in Seq(Pieces) /\ written \in Seq(Pieces)
      /\ log \in Seq(Pieces) /\ Pending \in Seq(Pieces) /\ log \o Pending \in Seq(Pieces)
  <2>1. Pending \in Seq(Pieces)
    BY EmptySeq DEF TeeTypeOK, Pending
  <2> QED BY <2>1, ConcatProperties DEF TeeTypeOK
<1>c. ASSUME NEW e \in Pieces, Send(e), UNCHANGED <<pump, chunk, log>>
      PROVE  Copied'
  <2>1. (log \o Pending) \o Append(pipe, e) = Append((log \o Pending) \o pipe, e)
    BY <1>b, ConcatAppend
  <2> QED BY <1>c, <2>1 DEF Copied, Pending, Send
<1>d. ASSUME UNCHANGED <<pump, chunk, log, pipe, written>>
      PROVE  Copied'
  BY <1>d DEF Copied, Pending
<1> USE DEF sinks, source
<1>1. CASE FlushBefore
  BY <1>1, <1>d DEF FlushBefore
<1>2. CASE Redirect
  BY <1>2, <1>d DEF Redirect
<1>3. CASE FlushPiece
  <2>1. buffer # <<>> /\ buffer \in Seq(Pieces)
    BY <1>3 DEF FlushPiece, Control
  <2>2. Head(buffer) \in Pieces
    BY <2>1, HeadTailProperties
  <2> QED BY <1>3, <1>c, <2>2 DEF FlushPiece
<1>4. CASE SweepEnds
  BY <1>4, <1>d DEF SweepEnds
<1>5. CASE FlushedAgain
  BY <1>5, <1>d DEF FlushedAgain
<1>6. CASE Restore
  BY <1>6, <1>d DEF Restore
<1>7. CASE Join
  BY <1>7, <1>d DEF Join
<1>8. CASE Read
  <2>1. Pending = <<>> /\ Pending' = pipe /\ pipe' = <<>> /\ log' = log /\ written' = written
    BY <1>8 DEF Read, Pending
  <2>2. log \o <<>> = log /\ log \o pipe \in Seq(Pieces)
    BY <1>b, ConcatEmptySeq, ConcatProperties
  <2>3. (log \o pipe) \o <<>> = log \o pipe
    BY <2>2, ConcatEmptySeq
  <2>4. written = (log \o Pending) \o pipe
    BY <1>8 DEF Read, Copied
  <2>5. written' = (log' \o Pending') \o pipe'
    BY <2>1, <2>2, <2>3, <2>4
  <2> QED BY <2>5 DEF Copied
<1>9. CASE ReadEnd
  BY <1>9 DEF ReadEnd, Copied, Pending, TeeTypeOK, Control
<1>10. CASE CopyToTerminal
  BY <1>10 DEF CopyToTerminal, Copied, Pending, TeeTypeOK, Control
<1>11. CASE CopyToLog
  <2>1. CASE "log" \notin broken
    <3>1. /\ Pending = chunk /\ Pending' = <<>> /\ log' = log \o chunk
          /\ pipe' = pipe /\ written' = written
      BY <1>11, <2>1 DEF CopyToLog, Pending
    <3>2. (log \o chunk) \o <<>> = log \o chunk
      <4>1. log \o chunk \in Seq(Pieces)
        BY <1>b, ConcatProperties
      <4> QED BY <4>1, ConcatEmptySeq
    <3>3. written = (log \o Pending) \o pipe
      BY <1>11 DEF CopyToLog, Copied
    <3>4. written' = (log' \o Pending') \o pipe'
      BY <3>1, <3>2, <3>3
    <3> QED BY <3>4 DEF Copied
  <2>2. CASE "log" \in broken
    BY <1>11, <2>2 DEF CopyToLog, Copied
  <2> QED BY <2>1, <2>2
<1>12. CASE PrintPiece
  BY <1>12, <1>d DEF PrintPiece
<1>13. CASE Spawn
  BY <1>13, <1>d DEF Spawn
<1>14. CASE ChildWrites
  <2>1. <<"child", writes + 1>> \in Pieces
    <3>1. writes \in 0 .. MaxWrites /\ MaxWrites \in Nat /\ writes < MaxWrites
      BY <1>14, TeeAssumption DEF ChildWrites, TeeTypeOK
    <3>2. writes + 1 \in 1 .. MaxWrites
      BY <3>1
    <3> QED BY <3>2 DEF Pieces
  <2> QED BY <1>14, <1>c, <2>1 DEF ChildWrites
<1>15. CASE ChildExits
  BY <1>15, <1>d DEF ChildExits
<1>16. CASE Break
  BY <1>16, <1>d DEF Break
<1>17. CASE KillTee
  BY <1>17 DEF KillTee, Copied, Pending, TeeTypeOK, Control
<1>18. CASE UNCHANGED teeVars
  BY <1>18, <1>d DEF teeVars
<1> QED
  BY <1>1, <1>2, <1>3, <1>4, <1>5, <1>6, <1>7, <1>8, <1>9, <1>10, <1>11, <1>12, <1>13, <1>14, <1>15, <1>16, <1>17, <1>18 DEF TeeNext, Sweep, Pump

LEMMA TheTerminalIsShown ==
  ASSUME TeeTypeOK, Control, Showing, [TeeNext]_teeVars
  PROVE  Showing'
<1>b. /\ chunk \in Seq(Pieces) /\ log \in Seq(Pieces) /\ terminal \in Seq(Shown)
  BY DEF TeeTypeOK, Shown
<1>c. ASSUME UNCHANGED <<pump, terminal, log, chunk>>
      PROVE  Showing'
  BY <1>c DEF Showing, Shows
<1> USE DEF sinks, source
<1>1. CASE FlushBefore
  <2>1. pump = "read" /\ pump' = pump /\ log = <<>> /\ log' = log
        /\ terminal = <<>> /\ buffer \in {<<>>, <<Earlier>>} /\ terminal' = terminal \o buffer
    BY <1>1 DEF FlushBefore, Control
  <2>2. buffer \in Seq(Shown)
    BY DEF TeeTypeOK, Shown
  <2>3. terminal' = buffer \o <<>>
    BY <2>1, <2>2, ConcatEmptySeq
  <2> QED BY <2>1, <2>3 DEF Showing, Shows
<1>2. CASE Redirect
  BY <1>2, <1>c DEF Redirect
<1>3. CASE FlushPiece
  BY <1>3, <1>c DEF FlushPiece
<1>4. CASE SweepEnds
  BY <1>4, <1>c DEF SweepEnds
<1>5. CASE FlushedAgain
  BY <1>5, <1>c DEF FlushedAgain
<1>6. CASE Restore
  BY <1>6, <1>c DEF Restore
<1>7. CASE Join
  <2>1. buffer = <<>>
    BY <1>7 DEF Join, Control
  <2>2. terminal \o <<>> = terminal
    BY <1>b, ConcatEmptySeq
  <2>3. UNCHANGED <<pump, terminal, log, chunk>>
    BY <1>7, <2>1, <2>2 DEF Join
  <2> QED BY <1>c, <2>3
<1>8. CASE Read
  BY <1>8 DEF Read, Showing, Shows
<1>9. CASE ReadEnd
  BY <1>9 DEF ReadEnd, Showing, Shows
<1>10. CASE CopyToTerminal
  <2>1. PICK before \in {<<>>, <<Earlier>>} : terminal = before \o log
    BY <1>10 DEF CopyToTerminal, Showing, Shows
  <2>2. terminal \o chunk = before \o (log \o chunk)
    BY <1>b, <2>1, ShowsMore
  <2> QED BY <1>10, <2>1, <2>2 DEF CopyToTerminal, Showing, Shows
<1>11. CASE CopyToLog
  BY <1>11 DEF CopyToLog, Showing, Shows
<1>12. CASE PrintPiece
  BY <1>12, <1>c DEF PrintPiece
<1>13. CASE Spawn
  BY <1>13, <1>c DEF Spawn
<1>14. CASE ChildWrites
  BY <1>14, <1>c DEF ChildWrites
<1>15. CASE ChildExits
  BY <1>15, <1>c DEF ChildExits
<1>16. CASE Break
  BY <1>16, <1>c DEF Break
<1>17. CASE KillTee
  <2>1. pump \in {"read", "to terminal", "to log", "ended", "dead"}
    BY DEF TeeTypeOK
  <2>2. Shows(log) \/ Shows(log \o chunk)
    BY <2>1 DEF Showing
  <2>3. pump' = "dead" /\ UNCHANGED <<terminal, log, chunk>>
    BY <1>17 DEF KillTee
  <2>4. Shows(log)' \/ Shows(log \o chunk)'
    BY <2>2, <2>3 DEF Shows
  <2> QED BY <2>3, <2>4 DEF Showing
<1>18. CASE UNCHANGED teeVars
  BY <1>18, <1>c DEF teeVars
<1> QED
  BY <1>1, <1>2, <1>3, <1>4, <1>5, <1>6, <1>7, <1>8, <1>9, <1>10, <1>11, <1>12, <1>13, <1>14, <1>15, <1>16, <1>17, <1>18 DEF TeeNext, Sweep, Pump

LEMMA NothingGoesAround ==
  ASSUME TeeTypeOK, Control, NothingAround, [TeeNext]_teeVars
  PROVE  NothingAround'
<1>b. buffer \in Seq(Shown) /\ written \in Seq(Pieces) /\ written \in Seq(Shown)
  BY PieceSequences DEF TeeTypeOK, Shown
<1>c. ASSUME UNCHANGED <<prints, buffer, written>>
      PROVE  NothingAround'
  BY <1>c DEF NothingAround
<1> USE DEF sinks, source
<1>1. CASE FlushBefore
  <2>1. prints = 0 /\ prints' = prints
    BY <1>1 DEF FlushBefore, Control
  <2> QED BY <2>1 DEF NothingAround
<1>2. CASE Redirect
  BY <1>2, <1>c DEF Redirect
<1>3. CASE FlushPiece
  <2>1. /\ buffer # <<>> /\ buffer' = Tail(buffer) /\ prints' = prints
        /\ written' = Append(written, Head(buffer))
    BY <1>3 DEF FlushPiece, Send
  <2>2. Head(buffer) \in Shown
    BY <1>b, <2>1, HeadTailProperties
  <2>3. /\ Range(buffer) = {Head(buffer)} \cup Range(buffer')
        /\ Range(written') = Range(written) \cup {Head(buffer)}
    BY <1>b, <2>1, <2>2, RangeOfTail, RangeOfAppend
  <2>4. Range(buffer') \cup Range(written') = Range(buffer) \cup Range(written)
    BY <2>3
  <2> QED BY <2>1, <2>4 DEF NothingAround
<1>4. CASE SweepEnds
  BY <1>4, <1>c DEF SweepEnds
<1>5. CASE FlushedAgain
  BY <1>5, <1>c DEF FlushedAgain
<1>6. CASE Restore
  BY <1>6, <1>c DEF Restore
<1>7. CASE Join
  <2>1. buffer = <<>>
    BY <1>7 DEF Join, Control
  <2> QED BY <1>7, <1>c, <2>1 DEF Join
<1>8. CASE Read
  BY <1>8, <1>c DEF Read
<1>9. CASE ReadEnd
  BY <1>9, <1>c DEF ReadEnd
<1>10. CASE CopyToTerminal
  BY <1>10, <1>c DEF CopyToTerminal
<1>11. CASE CopyToLog
  BY <1>11, <1>c DEF CopyToLog
<1>12. CASE PrintPiece
  <2>1. /\ prints \in Nat /\ prints' = prints + 1 /\ prints < MaxPrints /\ MaxPrints \in Nat
        /\ buffer' = Append(buffer, Printed(prints + 1)) /\ written' = written
    <3>1. prints \in 0 .. MaxPrints /\ MaxPrints \in Nat
      BY TeeAssumption DEF TeeTypeOK
    <3> QED BY <1>12, <3>1 DEF PrintPiece
  <2>2. prints + 1 \in 1 .. MaxPrints
    BY <2>1
  <2>3. Printed(prints + 1) \in Shown
    BY <2>2 DEF Printed, Pieces, Shown
  <2>4. Range(buffer') = Range(buffer) \cup {Printed(prints + 1)}
    BY <1>b, <2>1, <2>3, RangeOfAppend
  <2>5. \A k \in 1 .. prints' : k \in 1 .. prints \/ k = prints + 1
    BY <2>1
  <2> QED BY <2>1, <2>4, <2>5 DEF NothingAround
<1>13. CASE Spawn
  BY <1>13, <1>c DEF Spawn
<1>14. CASE ChildWrites
  <2>1. <<"child", writes + 1>> \in Shown
    <3>1. writes \in 0 .. MaxWrites /\ MaxWrites \in Nat /\ writes < MaxWrites
      BY <1>14, TeeAssumption DEF ChildWrites, TeeTypeOK
    <3>2. writes + 1 \in 1 .. MaxWrites
      BY <3>1
    <3> QED BY <3>2 DEF Pieces, Shown
  <2>2. /\ buffer' = buffer /\ prints' = prints
        /\ written' = Append(written, <<"child", writes + 1>>)
    BY <1>14 DEF ChildWrites, Send
  <2>3. Range(written') = Range(written) \cup {<<"child", writes + 1>>}
    BY <1>b, <2>1, <2>2, RangeOfAppend
  <2> QED BY <2>2, <2>3 DEF NothingAround
<1>15. CASE ChildExits
  BY <1>15, <1>c DEF ChildExits
<1>16. CASE Break
  BY <1>16, <1>c DEF Break
<1>17. CASE KillTee
  BY <1>17, <1>c DEF KillTee
<1>18. CASE UNCHANGED teeVars
  BY <1>18, <1>c DEF teeVars
<1> QED
  BY <1>1, <1>2, <1>3, <1>4, <1>5, <1>6, <1>7, <1>8, <1>9, <1>10, <1>11, <1>12, <1>13, <1>14, <1>15, <1>16, <1>17, <1>18 DEF TeeNext, Sweep, Pump
-----------------------------------------------------------------------------
(* The theorems.                                                           *)

\* Whatever the sweep has printed is in the buffer or went into the pipe, and as long
\* as the thread runs, what went into the pipe is the log, then the chunk that is
\* being copied, then what the pipe holds.
THEOREM PiecesAreSomewhere == TeeSpec => []TeeInv
<1>1. TeeInit => TeeInv
  <2> SUFFICES ASSUME TeeInit PROVE TeeInv
    OBVIOUS
  <2>1. /\ <<>> \in Seq(Pieces) /\ <<>> \in Seq(Shown) /\ <<Earlier>> \in Seq(Shown)
        /\ Len(<<>>) = 0 /\ PipeSize \in Nat /\ 0 <= PipeSize
        /\ MaxPrints \in Nat /\ MaxWrites \in Nat
    BY TeeAssumption, EmptySeq DEF Shown
  <2>2. <<>> \o <<>> = <<>>
    BY <2>1, ConcatEmptySeq
  <2>3. TeeTypeOK
    <3>1. buffer \in Seq(Shown)
      BY <2>1 DEF TeeInit
    <3>2. prints \in 0 .. MaxPrints /\ writes \in 0 .. MaxWrites
      BY <2>1 DEF TeeInit
    <3>3. Len(pipe) <= PipeSize
      BY <2>1 DEF TeeInit
    <3> QED BY <2>1, <3>1, <3>2, <3>3 DEF TeeInit, TeeTypeOK, Shown
  <2>4. Control
    BY DEF TeeInit, Control
  <2>5. Copied
    BY <2>2 DEF TeeInit, Copied, Pending
  <2>6. Showing
    BY <2>2 DEF TeeInit, Showing, Shows
  <2>7. NothingAround
    BY DEF TeeInit, NothingAround
  <2> QED BY <2>3, <2>4, <2>5, <2>6, <2>7 DEF TeeInv
<1>2. TeeInv /\ [TeeNext]_teeVars => TeeInv'
  BY TypesAndControl, EveryPieceIsCopied, TheTerminalIsShown, NothingGoesAround DEF TeeInv
<1> QED BY <1>1, <1>2, PTL DEF TeeSpec

\* Whatever the pipe holds and however much is printed, `tee` that was left without a
\* failed copy has written everything to run.log and shown it, in order, and no child
\* that inherited the descriptors is still at work.
THEOREM TheLogIsComplete == TeeSpec => []LogIsComplete
<1>1. TeeInv => LogIsComplete
  <2> SUFFICES ASSUME TeeInv, stage = "closed", pump # "dead"
               PROVE  /\ log = written /\ Shows(written) /\ child # "running"
                      /\ \A k \in 1 .. prints : Printed(k) \in Range(log)
    BY DEF LogIsComplete
  <2>1. pump = "ended" /\ writers = {} /\ pipe = <<>> /\ buffer = <<>> /\ child # "running"
    BY DEF TeeInv, Control
  <2>2. log \in Seq(Pieces) /\ log \o <<>> = log
    BY ConcatEmptySeq DEF TeeInv, TeeTypeOK
  <2>3. log = written
    BY <2>1, <2>2 DEF TeeInv, Copied, Pending
  <2>4. Shows(written)
    BY <2>1, <2>3 DEF TeeInv, Showing
  <2>5. Range(buffer) = {}
    BY <2>1 DEF Range
  <2> QED BY <2>1, <2>3, <2>4, <2>5 DEF TeeInv, NothingAround
<1> QED BY <1>1, PiecesAreSomewhere, PTL

\* Whatever the pipe holds, and whenever the process is killed or a copy fails, the
\* log lacks no more of what the terminal showed than the last read.
THEOREM TheLogKeepsUp == TeeSpec => []LogKeepsUp
<1>1. TeeInv => LogKeepsUp
  <2> SUFFICES ASSUME TeeInv PROVE LogKeepsUp
    OBVIOUS
  <2>1. pump \in {"read", "to terminal", "to log", "ended", "dead"}
    BY DEF TeeInv, TeeTypeOK
  <2> QED BY <2>1 DEF TeeInv, Showing, LogKeepsUp
<1> QED BY <1>1, PiecesAreSomewhere, PTL
=============================================================================
