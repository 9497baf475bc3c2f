---------------------------- MODULE HistoryProofs ----------------------------
(***************************************************************************)
(* The history file of a case and the row the panel makes of it, for every  *)
(* number of invocations and prunes: which failures a race explains, what   *)
(* is left on disk, that the file is exact when no prune raced, and what a  *)
(* row is then worth.                                                      *)
(***************************************************************************)
EXTENDS Panel, DataLemmas

-----------------------------------------------------------------------------
(* The type invariant.                                                     *)

LEMMA BytesType ==
  ASSUME NEW i \in Invocations
  PROVE  /\ Bytes(i) \in Seq(AllCells)
         /\ Bytes(i) # <<>>
         /\ Len(Bytes(i)) = Size(i) /\ Size(i) \in {1, 2}
         /\ \A k \in 1 .. Size(i) : Bytes(i)[k] = <<i, k>> /\ <<i, k>> \in AllCells
<1>1. Size(i) \in {1, 2}
  BY DEF Size
<1>2. \A k \in 1 .. Size(i) : <<i, k>> \in AllCells
  BY DEF AllCells
<1>3. Bytes(i) \in Seq(AllCells) /\ Len(Bytes(i)) = Size(i)
  BY <1>1, <1>2 DEF Bytes
<1>4. \A k \in 1 .. Size(i) : Bytes(i)[k] = <<i, k>>
  BY DEF Bytes
<1> QED BY <1>1, <1>2, <1>3, <1>4

LEMMA WithoutType ==
  ASSUME NEW c \in Seq(AllCells), NEW set
  PROVE  Without(c, set) \in Seq(AllCells)
<1> DEFINE s == [n \in 1 .. Len(c) |->
                   IF \E i \in set, k \in 1 .. 2 :
                         k <= n /\ WholeAt(c, i, n - k + 1) /\ k <= Size(i)
                   THEN <<>> ELSE <<c[n]>>]
<1>1. \A n \in 1 .. Len(c) : <<>> \in Seq(AllCells) /\ <<c[n]>> \in Seq(AllCells)
  OBVIOUS
<1>2. s \in Seq(Seq(AllCells))
  <2>1. Len(c) \in Nat
    OBVIOUS
  <2>2. \A n \in 1 .. Len(c) : s[n] \in Seq(AllCells)
    BY <1>1, Zenon
  <2>3. s = [n \in 1 .. Len(c) |-> s[n]]
    OBVIOUS
  <2> HIDE DEF s
  <2> QED BY <2>1, <2>2, <2>3
<1>3. FlattenSeq(s) \in Seq(AllCells)
  <2> HIDE DEF s
  <2> QED BY <1>2, FlattenType
<1> QED BY <1>3 DEF Without

LEMMA ContentType ==
  ASSUME TypeOK
  PROVE  Content \in Seq(AllCells)
BY EmptySeq DEF TypeOK, Content

LEMMA InitType == Init => TypeOK
<1> SUFFICES ASSUME Init PROVE TypeOK
  OBVIOUS
<1>1. inv \in [Invocations -> InvStates]
  BY HistoryAssumption DEF Init, InvStates, InvSteps
<1>2. prune \in [Pruners -> PruneStates]
  BY EmptySeq DEF Init, PruneStates, PruneSteps
<1>3. cells \in [Files -> Seq(AllCells)]
  BY EmptySeq DEF Init
<1>4. appended \in Seq(Invocations)
  BY EmptySeq DEF Init
<1>5. /\ day \in 0 .. MaxDay /\ version \in 0 .. MaxVersion
      /\ kills \in 0 .. MaxKills
  BY HistoryAssumption DEF Init
<1>6. lock \in [Files -> Invocations \cup {Nothing}]
  BY DEF Init
<1> QED
  BY <1>1, <1>2, <1>3, <1>4, <1>5, <1>6 DEF Init, TypeOK

\* The step of one process, seen from the others: it moves to a step, with a file.
InvMoved(i, step, file) ==
  /\ inv' \in [Invocations -> InvStates]
  /\ inv'[i].pc = step /\ inv'[i].file = file
  /\ \A j \in Invocations \ {i} : inv'[j] = inv[j]

PruneMoved(p, step, file, kept) ==
  /\ prune' \in [Pruners -> PruneStates]
  /\ prune'[p].pc = step /\ prune'[p].file = file /\ prune'[p].kept = kept
  /\ \A q \in Pruners \ {p} : prune'[q] = prune[q]

LEMMA InvMove ==
  ASSUME TypeOK, NEW i \in Invocations, NEW r \in InvStates,
         inv' = [inv EXCEPT ![i] = r]
  PROVE  /\ InvMoved(i, r.pc, r.file)
         /\ inv'[i].stamp = r.stamp
BY DEF TypeOK, InvMoved

LEMMA PruneMove ==
  ASSUME TypeOK, NEW p \in Pruners, NEW r \in PruneStates,
         prune' = [prune EXCEPT ![p] = r]
  PROVE  PruneMoved(p, r.pc, r.file, r.kept)
BY DEF TypeOK, PruneMoved

\* Where an invocation only changes its step.
LEMMA InvStep ==
  ASSUME TypeOK, NEW i \in Invocations, NEW step \in InvSteps,
         inv' = [inv EXCEPT ![i].pc = step]
  PROVE  /\ InvMoved(i, step, inv[i].file)
         /\ inv'[i].stamp = inv[i].stamp
<1>1. inv' \in [Invocations -> InvStates]
  BY DEF TypeOK, InvStates
<1>2. /\ inv'[i].pc = step /\ inv'[i].file = inv[i].file
      /\ inv'[i].stamp = inv[i].stamp
      /\ \A j \in Invocations \ {i} : inv'[j] = inv[j]
  BY DEF TypeOK, InvStates
<1> QED BY <1>1, <1>2 DEF InvMoved

LEMMA PruneStep ==
  ASSUME TypeOK, NEW p \in Pruners, NEW step \in PruneSteps,
         prune' = [prune EXCEPT ![p].pc = step]
  PROVE  PruneMoved(p, step, prune[p].file, prune[p].kept)
<1>1. prune' \in [Pruners -> PruneStates]
  BY DEF TypeOK, PruneStates
<1>2. /\ prune'[p].pc = step /\ prune'[p].file = prune[p].file
      /\ prune'[p].kept = prune[p].kept
      /\ \A q \in Pruners \ {p} : prune'[q] = prune[q]
  BY DEF TypeOK, PruneStates
<1> QED BY <1>1, <1>2 DEF PruneMoved

\* What each step of an invocation does to its own state.
LEMMA InvocationMoves ==
  ASSUME TypeOK, NEW i \in Invocations, Invocation(i)
  PROVE  /\ UNCHANGED <<day, version, prune, kills, dropped>>
         /\ Begin(i) => /\ InvMoved(i, "running", inv[i].file)
                        /\ inv'[i].stamp \in {day, Nothing}
         /\ Record(i) => InvMoved(i, "mkdir", inv[i].file)
         /\ MakeParents(i) => InvMoved(i, "open", inv[i].file)
         /\ Open(i) => InvMoved(i, "lock", name') /\ name' \in Files
         /\ OpenFails(i) => InvMoved(i, "failed", inv[i].file)
         /\ Lock(i) => InvMoved(i, "write", inv[i].file)
         /\ Write(i) => InvMoved(i, "done", inv[i].file)
         /\ inv' \in [Invocations -> InvStates]
         /\ ~Begin(i) => inv'[i].stamp = inv[i].stamp
<1> USE DEF InvSteps
<1>1. UNCHANGED <<day, version, prune, kills, dropped>>
  BY DEF Invocation, Begin, Record, MakeParents, Open, OpenFails, Lock, Write,
         disk
<1>2. inv[i] \in InvStates
  BY DEF TypeOK
<1>3. ASSUME Begin(i)
      PROVE  InvMoved(i, "running", inv[i].file) /\ inv'[i].stamp \in {day, Nothing}
  <2>1. PICK stamp \in {day} \cup {Nothing} :
          inv' = [inv EXCEPT ![i] = [inv[i] EXCEPT !.pc = "running",
                                       !.ran = version, !.stamp = stamp]]
    BY <1>3 DEF Begin
  <2>2. version \in 0 .. MaxVersion /\ stamp \in 0 .. MaxDay \cup {Nothing}
    BY <1>3 DEF Begin, TypeOK
  <2>3. PICK r : r = [inv[i] EXCEPT !.pc = "running", !.ran = version,
                                    !.stamp = stamp]
    OBVIOUS
  <2>4. /\ r \in InvStates
        /\ r.pc = "running" /\ r.file = inv[i].file /\ r.stamp = stamp
    BY <1>2, <2>2, <2>3 DEF InvStates
  <2> QED BY <2>1, <2>3, <2>4, InvMove
<1>4. ASSUME Record(i)
      PROVE  InvMoved(i, "mkdir", inv[i].file) /\ inv'[i].stamp = inv[i].stamp
  <2>1. PICK r : r = [inv[i] EXCEPT !.pc = "mkdir", !.digest = version]
    OBVIOUS
  <2>2. /\ r \in InvStates
        /\ r.pc = "mkdir" /\ r.file = inv[i].file /\ r.stamp = inv[i].stamp
    BY <1>2, <2>1 DEF InvStates, TypeOK
  <2>3. inv' = [inv EXCEPT ![i] = r]
    BY <1>4, <2>1 DEF Record
  <2> QED BY <2>2, <2>3, InvMove
<1>5. ASSUME Open(i)
      PROVE  /\ InvMoved(i, "lock", name') /\ name' \in Files
             /\ inv'[i].stamp = inv[i].stamp
  <2>1. name' \in Files
    BY <1>5 DEF Open, TypeOK, Files
  <2>2. PICK r : r = [inv[i] EXCEPT !.pc = "lock", !.file = name']
    OBVIOUS
  <2>3. /\ r \in InvStates
        /\ r.pc = "lock" /\ r.file = name' /\ r.stamp = inv[i].stamp
    BY <1>2, <2>1, <2>2 DEF InvStates
  <2>4. inv' = [inv EXCEPT ![i] = r]
    BY <1>5, <2>2 DEF Open
  <2> QED BY <2>1, <2>3, <2>4, InvMove
<1>6. ASSUME MakeParents(i)
      PROVE  InvMoved(i, "open", inv[i].file) /\ inv'[i].stamp = inv[i].stamp
  BY <1>6, InvStep DEF MakeParents
<1>7. ASSUME OpenFails(i)
      PROVE  InvMoved(i, "failed", inv[i].file) /\ inv'[i].stamp = inv[i].stamp
  BY <1>7, InvStep DEF OpenFails
<1>8. ASSUME Lock(i)
      PROVE  InvMoved(i, "write", inv[i].file) /\ inv'[i].stamp = inv[i].stamp
  BY <1>8, InvStep DEF Lock
<1>9. ASSUME Write(i)
      PROVE  InvMoved(i, "done", inv[i].file) /\ inv'[i].stamp = inv[i].stamp
  BY <1>9, InvStep DEF Write
<1> QED
  BY <1>1, <1>3, <1>4, <1>5, <1>6, <1>7, <1>8, <1>9 DEF Invocation, InvMoved

\* What each step of a prune does to its own state.
LEMMA PrunerMoves ==
  ASSUME TypeOK, NEW p \in Pruners, Pruner(p) \/ Kill(p)
  PROVE  /\ UNCHANGED <<day, version, lock, inv, appended>>
         /\ ReadLines(p) =>
              LET old == OldIn(Content)
                  kept == Without(Content, old)
              IN  \/ old = {} /\ PruneMoved(p, "done", prune[p].file, kept)
                  \/ /\ old # {} /\ kept # <<>>
                     /\ PruneMoved(p, "truncate", prune[p].file, kept)
                  \/ /\ old # {} /\ kept = <<>>
                     /\ PruneMoved(p, "unlink", prune[p].file, kept)
         /\ PruneFails(p) =>
              PruneMoved(p, "failed", prune[p].file, prune[p].kept)
         /\ Truncate(p) =>
              PruneMoved(p, "rewrite", name', prune[p].kept) /\ name' \in Files
         /\ Rewrite(p) => PruneMoved(p, "done", prune[p].file, prune[p].kept)
         /\ Unlink(p) => PruneMoved(p, "empty", prune[p].file, prune[p].kept)
         /\ LookEmpty(p) =>
              PruneMoved(p, IF folder /\ name = Nothing THEN "rmdir" ELSE "done",
                         prune[p].file, prune[p].kept)
         /\ RemoveFolder(p) => PruneMoved(p, "done", prune[p].file, prune[p].kept)
         /\ Kill(p) => PruneMoved(p, "killed", prune[p].file, prune[p].kept)
         /\ prune' \in [Pruners -> PruneStates]
<1> USE DEF PruneSteps
<1>1. UNCHANGED <<day, version, lock, inv, appended>>
  BY DEF Pruner, ReadLines, PruneFails, Truncate, Rewrite, Unlink, LookEmpty,
         RemoveFolder, Kill, disk
<1>2. prune[p] \in PruneStates
  BY DEF TypeOK
<1>3. ASSUME ReadLines(p), NEW old, NEW kept,
             old = OldIn(Content), kept = Without(Content, old)
      PROVE  \/ old = {} /\ PruneMoved(p, "done", prune[p].file, kept)
             \/ /\ old # {} /\ kept # <<>>
                /\ PruneMoved(p, "truncate", prune[p].file, kept)
             \/ /\ old # {} /\ kept = <<>>
                /\ PruneMoved(p, "unlink", prune[p].file, kept)
  <2>1. PICK step : /\ step = CASE old = {} -> "done"
                                [] old # {} /\ kept # <<>> -> "truncate"
                                [] OTHER -> "unlink"
                    /\ prune' = [prune EXCEPT ![p] =
                         [prune[p] EXCEPT !.pc = step, !.kept = kept]]
    BY <1>3, Zenon DEF ReadLines
  <2>2. \/ old = {} /\ step = "done"
        \/ old # {} /\ kept # <<>> /\ step = "truncate"
        \/ old # {} /\ kept = <<>> /\ step = "unlink"
    BY <2>1
  <2>3. kept \in Seq(AllCells)
    BY <1>3, ContentType, WithoutType
  <2>4. PICK r : r = [prune[p] EXCEPT !.pc = step, !.kept = kept]
    OBVIOUS
  <2>5. /\ r \in PruneStates
        /\ r.pc = step /\ r.file = prune[p].file /\ r.kept = kept
    BY <1>2, <2>2, <2>3, <2>4 DEF PruneStates
  <2>6. PruneMoved(p, step, prune[p].file, kept)
    <3>1. prune' = [prune EXCEPT ![p] = r]
      BY <2>1, <2>4
    <3> QED BY <2>5, <3>1, PruneMove
  <2> QED BY <2>2, <2>6
<1>4. ASSUME Truncate(p)
      PROVE  PruneMoved(p, "rewrite", name', prune[p].kept) /\ name' \in Files
  <2>1. name' \in Files
    BY <1>4 DEF Truncate, TypeOK, Files
  <2>2. PICK r : r = [prune[p] EXCEPT !.pc = "rewrite", !.file = name']
    OBVIOUS
  <2>3. /\ r \in PruneStates
        /\ r.pc = "rewrite" /\ r.file = name' /\ r.kept = prune[p].kept
    BY <1>2, <2>1, <2>2 DEF PruneStates
  <2>4. prune' = [prune EXCEPT ![p] = r]
    BY <1>4, <2>2 DEF Truncate
  <2> QED BY <2>1, <2>3, <2>4, PruneMove
<1>5. ASSUME NEW step \in PruneSteps, prune' = [prune EXCEPT ![p].pc = step]
      PROVE  PruneMoved(p, step, prune[p].file, prune[p].kept)
  BY <1>5, PruneStep
<1>6. LookEmpty(p) =>
        PruneMoved(p, IF folder /\ name = Nothing THEN "rmdir" ELSE "done",
                   prune[p].file, prune[p].kept)
  <2>1. (IF folder /\ name = Nothing THEN "rmdir" ELSE "done") \in PruneSteps
    OBVIOUS
  <2> HIDE DEF PruneSteps
  <2> QED BY <1>5, <2>1, Zenon DEF LookEmpty
<1>7. /\ PruneFails(p) => PruneMoved(p, "failed", prune[p].file, prune[p].kept)
      /\ Rewrite(p) => PruneMoved(p, "done", prune[p].file, prune[p].kept)
      /\ Unlink(p) => PruneMoved(p, "empty", prune[p].file, prune[p].kept)
      /\ RemoveFolder(p) => PruneMoved(p, "done", prune[p].file, prune[p].kept)
      /\ Kill(p) => PruneMoved(p, "killed", prune[p].file, prune[p].kept)
  BY <1>5 DEF PruneFails, Rewrite, Unlink, RemoveFolder, Kill
<1>8. prune' \in [Pruners -> PruneStates]
  BY <1>3, <1>4, <1>6, <1>7 DEF Pruner, PruneMoved
<1> QED
  BY <1>1, <1>3, <1>4, <1>6, <1>7, <1>8

LEMMA InvocationType ==
  ASSUME TypeOK, NEW i \in Invocations, Invocation(i)
  PROVE  TypeOK'
<1>1. raced' \in BOOLEAN
  BY Zenon DEF Invocation, Begin, Record, MakeParents, Open, OpenFails, Lock,
               Write, Watch
<1>2. /\ UNCHANGED <<day, version, prune, kills, dropped>>
      /\ inv' \in [Invocations -> InvStates]
  BY InvocationMoves
<1>3. name' \in Files \cup {Nothing} /\ folder' \in BOOLEAN
  BY DEF Invocation, Begin, Record, MakeParents, Open, OpenFails, Lock, Write,
         disk, TypeOK, Files
<1>4. /\ cells' \in [Files -> Seq(AllCells)]
      /\ appended' \in Seq(Invocations)
  <2>1. CASE Write(i)
    <3>1. \A f \in Files : cells[f] \o Bytes(i) \in Seq(AllCells)
      BY BytesType, ConcatProperties DEF TypeOK
    <3>2. cells' \in [Files -> Seq(AllCells)]
      BY <2>1, <3>1 DEF Write, TypeOK
    <3>3. appended' \in Seq(Invocations)
      BY <2>1 DEF Write, TypeOK
    <3> QED BY <3>2, <3>3
  <2>2. CASE ~Write(i)
    BY <2>2 DEF Invocation, Begin, Record, MakeParents, Open, OpenFails, Lock,
                disk, TypeOK
  <2> QED BY <2>1, <2>2
<1>5. lock' \in [Files -> Invocations \cup {Nothing}]
  BY DEF Invocation, Begin, Record, MakeParents, Open, OpenFails, Lock, Write,
         disk, TypeOK
<1> QED
  BY <1>1, <1>2, <1>3, <1>4, <1>5 DEF TypeOK

LEMMA PrunerType ==
  ASSUME TypeOK, NEW p \in Pruners, Pruner(p) \/ Kill(p)
  PROVE  TypeOK'
<1>1. raced' \in BOOLEAN
  BY Zenon DEF Pruner, ReadLines, PruneFails, Truncate, Rewrite, Unlink,
               LookEmpty, RemoveFolder, Kill, Watch
<1>2. UNCHANGED <<day, version, lock, inv, appended>> /\ kills' \in 0 .. MaxKills
  <2>1. kills' = kills \/ (kills < MaxKills /\ kills' = kills + 1)
    BY DEF Pruner, ReadLines, PruneFails, Truncate, Rewrite, Unlink, LookEmpty,
           RemoveFolder, Kill
  <2> QED BY <2>1, PrunerMoves, HistoryAssumption DEF TypeOK
<1>3. dropped' \subseteq Invocations
  BY DEF Pruner, ReadLines, PruneFails, Truncate, Rewrite, Unlink, LookEmpty,
         RemoveFolder, Kill, OldIn, Readable, TypeOK
<1>4. prune' \in [Pruners -> PruneStates]
  BY PrunerMoves
<1>5. name' \in Files \cup {Nothing} /\ folder' \in BOOLEAN
  BY DEF Pruner, ReadLines, PruneFails, Truncate, Rewrite, Unlink, LookEmpty,
         RemoveFolder, Kill, disk, TypeOK, Files
<1>6. cells' \in [Files -> Seq(AllCells)]
  <2>1. CASE Truncate(p)
    BY <2>1, EmptySeq DEF Truncate, TypeOK
  <2>2. CASE Rewrite(p)
    <3>1. prune[p].kept \in Seq(AllCells) /\ Len(prune[p].kept) \in Nat
      BY DEF TypeOK, PruneStates
    <3>2. \A f \in Files :
            prune[p].kept \o SubSeq(cells[f], Len(prune[p].kept) + 1, Len(cells[f]))
              \in Seq(AllCells)
      <4> SUFFICES ASSUME NEW f \in Files
                   PROVE  prune[p].kept \o SubSeq(cells[f],
                            Len(prune[p].kept) + 1, Len(cells[f])) \in Seq(AllCells)
        OBVIOUS
      <4>1. cells[f] \in Seq(AllCells)
        BY DEF TypeOK
      <4>2. SubSeq(cells[f], Len(prune[p].kept) + 1, Len(cells[f])) \in Seq(AllCells)
        BY <3>1, <4>1
      <4> QED BY <3>1, <4>2
    <3> QED BY <2>2, <3>2 DEF Rewrite, TypeOK
  <2>3. CASE ~Truncate(p) /\ ~Rewrite(p)
    BY <2>3 DEF Pruner, ReadLines, PruneFails, Unlink, LookEmpty, RemoveFolder,
                Kill, disk, TypeOK
  <2> QED BY <2>1, <2>2, <2>3
<1> QED
  BY <1>1, <1>2, <1>3, <1>4, <1>5, <1>6 DEF TypeOK

LEMMA NextType == TypeOK /\ [Next]_vars => TypeOK'
<1>1. ASSUME TypeOK, Tick PROVE TypeOK'
  <2>1. raced' \in BOOLEAN
    BY <1>1, Zenon DEF Tick, Watch
  <2> QED BY <1>1, <2>1, HistoryAssumption DEF Tick, disk, TypeOK
<1>2. ASSUME TypeOK, Edit PROVE TypeOK'
  <2>1. raced' \in BOOLEAN
    BY <1>2, Zenon DEF Edit, Watch
  <2>2. version' \in 0 .. MaxVersion \cup {Nothing}
    BY <1>2, HistoryAssumption DEF Edit, TypeOK
  <2> QED BY <1>2, <2>1, <2>2 DEF Edit, disk, TypeOK
<1>3. ASSUME TypeOK, UNCHANGED vars PROVE TypeOK'
  BY <1>3 DEF vars, disk, TypeOK
<1> QED
  BY <1>1, <1>2, <1>3, InvocationType, PrunerType DEF Next


-----------------------------------------------------------------------------
(* What is on disk, and which failures a race explains.                    *)

\* No file has been made under the name of i.
Unmade(i) ==
  /\ i # name /\ cells[i] = <<>>
  /\ \A j \in Invocations : inv[j].file # i
  /\ \A p \in Pruners : prune[p].file # i

\* Where files are: a name is in its folder, who holds a file open has one, and no
\* file is under the name of a process that has made none.
PathInv ==
  /\ name # Nothing => folder
  /\ \A i \in Invocations :
       /\ inv[i].pc \in {"new", "running", "mkdir", "open"} => inv[i].file = Nothing
       /\ inv[i].pc \in {"lock", "write"} => inv[i].file # Nothing
       /\ inv[i].file = Nothing => Unmade(i)
  /\ \A p \in Pruners : prune[p].pc = "rewrite" => prune[p].file # Nothing
  /\ Overlap => raced

\* Without a race, what a process has looked at is still so when it acts on it.
RaceInv ==
  ~raced =>
    /\ \A i \in Invocations :
         /\ inv[i].pc = "open" => folder
         /\ inv[i].pc # "failed"
    /\ \A p \in Pruners :
         /\ prune[p].pc \in {"truncate", "unlink"} => name # Nothing
         /\ prune[p].pc = "rmdir" => folder /\ name = Nothing
         /\ prune[p].pc # "failed"

\* Whatever is empty on disk has a process under way that will fill or remove it, or
\* a prune that was killed.
HuskInv ==
  /\ \A p \in Pruners :
       prune[p].pc \in {"truncate", "rewrite"} => prune[p].kept # <<>>
  /\ folder /\ name = Nothing =>
       \/ \E i \in Invocations : inv[i].pc = "open"
       \/ \E p \in Pruners : prune[p].pc \in {"empty", "rmdir", "killed"}
  /\ name # Nothing /\ cells[name] = <<>> =>
       \/ \E i \in Invocations :
            inv[i].pc \in {"lock", "write"} /\ inv[i].file = name
       \/ \E p \in Pruners : prune[p].pc = "rewrite" /\ prune[p].file = name
       \/ \E p \in Pruners : prune[p].pc = "killed"


\* Every step is watched.
LEMMA Watched ==
  ASSUME Next
  PROVE  Watch
BY Zenon DEF Next, Invocation, Begin, Record, MakeParents, Open, OpenFails, Lock,
             Write, Pruner, ReadLines, PruneFails, Truncate, Rewrite, Unlink,
             LookEmpty, RemoveFolder, Kill, Tick, Edit

LEMMA OverlapRaces ==
  ASSUME PathInv, [Next]_vars
  PROVE  Overlap' => raced'
<1>1. CASE Next
  BY <1>1, Watched DEF Watch
<1>2. CASE UNCHANGED vars
  BY <1>2 DEF PathInv, vars, Overlap, Appending, Pruning
<1> QED BY <1>1, <1>2

LEMMA InvocationPath ==
  ASSUME TypeOK, PathInv, NEW i \in Invocations, Invocation(i)
  PROVE  PathInv'
<1>1. /\ prune' = prune
      /\ \A j \in Invocations \ {i} : inv'[j] = inv[j]
      /\ inv'[i].file = IF Open(i) THEN name' ELSE inv[i].file
      /\ name' = IF Open(i) /\ name = Nothing THEN i ELSE name
  BY InvocationMoves DEF Invocation, InvMoved, Begin, Record, MakeParents, Open,
                         OpenFails, Lock, Write, disk
<1>2. name' # Nothing => folder'
  BY DEF PathInv, Invocation, Begin, Record, MakeParents, Open, OpenFails, Lock,
         Write, disk
<1>3. ASSUME NEW j \in Invocations, inv'[j].pc \in {"lock", "write"}
      PROVE  inv'[j].file # Nothing
  <2>1. CASE j = i
    BY <1>3, <2>1, InvocationMoves, HistoryAssumption
       DEF Invocation, InvMoved, PathInv, Files, Lock
  <2> QED BY <1>1, <1>3, <2>1 DEF PathInv
<1>6. ASSUME NEW j \in Invocations, inv'[j].pc \in {"new", "running", "mkdir", "open"}
      PROVE  inv'[j].file = Nothing
  <2>1. CASE j = i
    BY <1>6, <2>1, InvocationMoves
       DEF Invocation, InvMoved, PathInv, Begin, Record, MakeParents
  <2> QED BY <1>1, <1>6, <2>1 DEF PathInv
<1>4. ASSUME NEW j \in Invocations, inv'[j].file = Nothing
      PROVE  Unmade(j)'
  <2>1. Open(i) => name' # Nothing
    BY HistoryAssumption DEF Open
  <2>2. inv[j].file = Nothing /\ Unmade(j) /\ (Open(i) => j # i)
    BY <1>1, <1>4, <2>1 DEF PathInv
  <2>3. j # name'
    BY <1>1, <2>2 DEF Unmade
  <2>4. cells'[j] = <<>>
    <3>1. CASE Write(i)
      BY <2>2, <3>1 DEF Write, Unmade, TypeOK
    <3>2. CASE ~Write(i)
      BY <2>2, <3>2 DEF Invocation, Begin, Record, MakeParents, Open, OpenFails,
                        Lock, disk, Unmade
    <3> QED BY <3>1, <3>2
  <2>5. \A k \in Invocations : inv'[k].file # j
    BY <1>1, <2>2, <2>3 DEF Unmade
  <2> QED BY <1>1, <2>2, <2>3, <2>4, <2>5 DEF Unmade
<1>5. Overlap' => raced'
  BY OverlapRaces DEF Next
<1> QED
  BY <1>1, <1>2, <1>3, <1>4, <1>5, <1>6 DEF PathInv

LEMMA PrunerPath ==
  ASSUME TypeOK, PathInv, NEW p \in Pruners, Pruner(p) \/ Kill(p)
  PROVE  PathInv'
<1>1. /\ inv' = inv
      /\ \A q \in Pruners \ {p} : prune'[q] = prune[q]
      /\ prune'[p].file = IF Truncate(p) THEN name' ELSE prune[p].file
  BY PrunerMoves, Zenon DEF Pruner, PruneMoved
<1>2. name' = IF Unlink(p) THEN Nothing
              ELSE IF Truncate(p) /\ name = Nothing THEN p ELSE name
  BY DEF Pruner, ReadLines, PruneFails, Truncate, Rewrite, Unlink, LookEmpty,
         RemoveFolder, Kill, disk
<1>3. name' # Nothing => folder'
  BY <1>2 DEF PathInv, Pruner, ReadLines, PruneFails, Truncate, Rewrite, Unlink,
              LookEmpty, RemoveFolder, Kill, disk
<1>4. ASSUME NEW q \in Pruners, prune'[q].pc = "rewrite"
      PROVE  prune'[q].file # Nothing
  <2>1. CASE q = p
    BY <1>4, <2>1, PrunerMoves, HistoryAssumption DEF Pruner, PruneMoved, Files
  <2> QED BY <1>1, <1>4, <2>1 DEF PathInv
<1>5. ASSUME NEW j \in Invocations, inv'[j].file = Nothing
      PROVE  Unmade(j)'
  <2>1. inv[j].file = Nothing /\ Unmade(j) /\ j # p /\ j # Nothing
    BY <1>1, <1>5, HistoryAssumption DEF PathInv
  <2>2. j # name'
    BY <1>2, <2>1 DEF Unmade
  <2>3. cells'[j] = <<>>
    <3>1. CASE Truncate(p)
      BY <2>1, <2>2, <3>1 DEF Truncate, Unmade, TypeOK
    <3>2. CASE Rewrite(p)
      <4>1. PICK c : cells' = [cells EXCEPT ![prune[p].file] = c]
        BY <3>2, Zenon DEF Rewrite
      <4>2. j # prune[p].file /\ cells[j] = <<>>
        BY <2>1 DEF Unmade
      <4> QED BY <4>1, <4>2 DEF TypeOK, Files
    <3>3. CASE ~Truncate(p) /\ ~Rewrite(p)
      BY <2>1, <3>3 DEF Pruner, ReadLines, PruneFails, Unlink, LookEmpty,
                        RemoveFolder, Kill, disk, Unmade
    <3> QED BY <3>1, <3>2, <3>3
  <2>4. \A q \in Pruners : prune'[q].file # j
    BY <1>1, <2>1, <2>2 DEF Unmade
  <2> QED BY <1>1, <2>1, <2>2, <2>3, <2>4 DEF Unmade
<1>6. Overlap' => raced'
  BY OverlapRaces DEF Next
<1> QED
  BY <1>1, <1>3, <1>4, <1>5, <1>6 DEF PathInv

LEMMA InitPath == Init => PathInv
BY HistoryAssumption DEF Init, PathInv, Unmade, Overlap, Appending, Pruning, Files

LEMMA NextPath == TypeOK /\ PathInv /\ [Next]_vars => PathInv'
<1>1. ASSUME PathInv, Next \/ UNCHANGED vars, UNCHANGED <<disk, inv, prune>>
      PROVE  PathInv'
  <2>1. Overlap' => raced'
    BY <1>1, OverlapRaces
  <2> QED BY <1>1, <2>1 DEF PathInv, disk, Unmade
<1>2. Tick \/ Edit \/ UNCHANGED vars => UNCHANGED <<disk, inv, prune>>
  BY DEF Tick, Edit, vars, disk
<1> QED
  BY <1>1, <1>2, InvocationPath, PrunerPath DEF Next


LEMMA NothingToRead == OldIn(<<>>) = {}
BY DEF OldIn, Readable

LEMMA InitRace == Init => RaceInv
BY DEF Init, RaceInv

LEMMA InvocationRace ==
  ASSUME TypeOK, PathInv, RaceInv, NEW i \in Invocations, Invocation(i)
  PROVE  RaceInv'
<1> SUFFICES ASSUME ~raced' PROVE RaceInv'
  BY DEF RaceInv
<1>1. ~raced /\ ~Overlap'
  BY Watched DEF Next, Watch
<1>2. /\ prune' = prune
      /\ \A j \in Invocations \ {i} : inv'[j] = inv[j]
      /\ Appending(i) => \A p \in Pruners : ~Pruning(p)
  BY <1>1, InvocationMoves DEF Invocation, InvMoved, PathInv, Overlap
<1>3. CASE OpenFails(i)
  BY <1>1, <1>3 DEF OpenFails, RaceInv
<1>4. CASE ~OpenFails(i)
  <2>1. folder \in BOOLEAN /\ (folder => folder') /\ (MakeParents(i) => folder')
    BY <1>4 DEF Invocation, Begin, Record, MakeParents, Open, Lock, Write, disk,
                TypeOK
  <2>2. inv'[i].pc \in InvSteps \ {"failed"} /\ (inv'[i].pc = "open" => folder')
    BY <1>4, <2>1, InvocationMoves DEF Invocation, InvMoved, InvSteps
  <2>3. ~Open(i) => name' = name
    BY <1>4 DEF Invocation, Begin, Record, MakeParents, Lock, Write, disk
  <2>4. Open(i) => \A p \in Pruners : ~Pruning(p)
    BY <1>2 DEF Open, Appending
  <2> QED
    BY <1>1, <1>2, <2>1, <2>2, <2>3, <2>4 DEF RaceInv, Pruning
<1> QED BY <1>3, <1>4

LEMMA PrunerRace ==
  ASSUME TypeOK, PathInv, RaceInv, NEW p \in Pruners, Pruner(p) \/ Kill(p)
  PROVE  RaceInv'
<1> SUFFICES ASSUME ~raced' PROVE RaceInv'
  BY DEF RaceInv
<1>1. ~raced /\ ~Overlap'
  BY Watched DEF Next, Watch
<1>2. /\ inv' = inv
      /\ \A q \in Pruners \ {p} : prune'[q] = prune[q]
  BY PrunerMoves DEF Pruner, PruneMoved
<1>3. CASE ReadLines(p)
  <2>1. UNCHANGED <<folder, name>>
    BY <1>3 DEF ReadLines, disk
  <2>2. prune'[p].pc \in {"done", "truncate", "unlink"}
    BY <1>3, PrunerMoves DEF PruneMoved
  <2>3. prune'[p].pc \in {"truncate", "unlink"} => name # Nothing
    <3>1. OldIn(Content) = {} \/ Content # <<>>
      BY NothingToRead
    <3> QED BY <1>3, <3>1, PrunerMoves DEF PruneMoved, Content
  <2> QED BY <1>1, <1>2, <2>1, <2>2, <2>3 DEF RaceInv
<1>4. CASE PruneFails(p)
  BY <1>1, <1>4 DEF PruneFails, RaceInv, PathInv
<1>5. CASE Pruning(p) /\ ~PruneFails(p)
  <2>1. /\ \A i \in Invocations : ~Appending(i)
        /\ \A q \in Pruners \ {p} : ~Pruning(q)
    BY <1>1, <1>5 DEF PathInv, Overlap
  <2>2. /\ \A i \in Invocations : inv'[i].pc \notin {"open", "failed"}
        /\ \A q \in Pruners \ {p} :
             prune'[q].pc \notin {"truncate", "unlink", "rmdir", "failed"}
    BY <1>1, <1>2, <2>1 DEF Appending, Pruning, RaceInv
  <2>3. ~ReadLines(p)
    BY <1>5 DEF ReadLines, Pruning
  <2>4. /\ prune'[p].pc \in {"rewrite", "done", "empty", "rmdir", "killed"}
        /\ prune'[p].pc = "rmdir" => LookEmpty(p) /\ folder /\ name = Nothing
    BY <1>5, <2>3, PrunerMoves DEF Pruner, PruneMoved
  <2>5. LookEmpty(p) => UNCHANGED <<folder, name>>
    BY DEF LookEmpty, disk
  <2> QED BY <2>2, <2>4, <2>5 DEF RaceInv
<1> QED
  BY <1>3, <1>4, <1>5 DEF Pruner, Kill, Pruning, Truncate, Rewrite, Unlink,
                          LookEmpty, RemoveFolder

LEMMA NextRace == TypeOK /\ PathInv /\ RaceInv /\ [Next]_vars => RaceInv'
<1>1. ASSUME RaceInv, Tick \/ Edit \/ UNCHANGED vars PROVE RaceInv'
  <2>1. UNCHANGED <<disk, inv, prune>>
    BY <1>1 DEF Tick, Edit, vars, disk
  <2>2. ~raced' => ~raced
    BY <1>1 DEF Tick, Edit, Watch, vars
  <2> QED BY <1>1, <2>1, <2>2 DEF RaceInv, disk
<1> QED
  BY <1>1, InvocationRace, PrunerRace DEF Next

\* In every behaviour of the history's processes.
LEMMA PathsHold == Spec => [](TypeOK /\ PathInv /\ RaceInv)
<1>1. Init => TypeOK /\ PathInv /\ RaceInv
  BY InitType, InitPath, InitRace
<1>2. TypeOK /\ PathInv /\ RaceInv /\ [Next]_vars => (TypeOK /\ PathInv /\ RaceInv)'
  BY NextType, NextPath, NextRace
<1> QED BY <1>1, <1>2, PTL DEF Spec

\* An append or a prune fails for a missing path only where two of them overlapped:
\* `append` makes the directory that it opens the file in, and `prune` finds what it
\* has read, unless another process takes it away in between.
THEOREM FailuresAreRaces == Spec => []FailuresNeedRace
<1>1. RaceInv => FailuresNeedRace
  BY DEF RaceInv, FailuresNeedRace
<1> QED BY <1>1, PathsHold, PTL


LEMMA InitHusk == Init => HuskInv
BY DEF Init, HuskInv

LEMMA InvocationHusk ==
  ASSUME TypeOK, PathInv, HuskInv, NEW i \in Invocations, Invocation(i)
  PROVE  HuskInv'
<1>1. /\ prune' = prune
      /\ \A j \in Invocations \ {i} : inv'[j] = inv[j]
      /\ name' # Nothing => folder'
  BY InvocationMoves, InvocationPath DEF Invocation, InvMoved, PathInv
<1>2. \A p \in Pruners :
        prune'[p].pc \in {"truncate", "rewrite"} => prune'[p].kept # <<>>
  BY <1>1 DEF HuskInv
<1>3. CASE MakeParents(i)
  <2>1. inv[i].pc = "mkdir" /\ inv'[i].pc = "open" /\ UNCHANGED <<name, cells>>
    BY <1>3, InvocationMoves DEF MakeParents, InvMoved
  <2> QED BY <1>1, <1>2, <2>1 DEF HuskInv
<1>4. CASE Open(i)
  <2>1. /\ inv[i].pc = "open" /\ inv'[i].pc = "lock" /\ inv'[i].file = name'
        /\ name' # Nothing
    BY <1>4, InvocationMoves, HistoryAssumption DEF Open, InvMoved, Files
  <2> QED BY <1>1, <1>2, <2>1 DEF HuskInv
<1>5. CASE OpenFails(i)
  <2>1. ~folder' /\ name' = Nothing
    BY <1>5 DEF OpenFails, disk, PathInv
  <2> QED BY <1>1, <1>2, <2>1 DEF HuskInv
<1>6. CASE Write(i)
  <2>1. UNCHANGED <<folder, name>> /\ inv[i].pc = "write"
    BY <1>6 DEF Write
  <2>2. inv[i].file \in Files
    BY <2>1 DEF TypeOK, InvStates, PathInv
  <2>3. cells' = [cells EXCEPT ![inv[i].file] = cells[inv[i].file] \o Bytes(i)]
    BY <1>6 DEF Write
  <2>4. cells'[inv[i].file] # <<>>
    <3>1. cells[inv[i].file] \in Seq(AllCells)
      BY <2>2 DEF TypeOK
    <3>2. cells[inv[i].file] \o Bytes(i) # <<>>
      BY <3>1, BytesType
    <3> QED BY <2>2, <2>3, <3>2 DEF TypeOK
  <2>5. name # Nothing /\ name # inv[i].file => cells'[name] = cells[name]
    BY <2>3 DEF TypeOK
  <2> QED BY <1>1, <1>2, <2>1, <2>4, <2>5 DEF HuskInv
<1>7. CASE Begin(i) \/ Record(i)
  <2>1. /\ UNCHANGED <<folder, name, cells>>
        /\ inv[i].pc \notin {"open", "lock", "write"}
    BY <1>7 DEF Begin, Record, disk
  <2> QED BY <1>1, <1>2, <2>1 DEF HuskInv
<1>8. CASE Lock(i)
  <2>1. /\ UNCHANGED <<folder, name, cells>>
        /\ inv[i].pc = "lock" /\ inv'[i].pc = "write"
        /\ inv'[i].file = inv[i].file
    BY <1>8, InvocationMoves DEF Lock, InvMoved
  <2> QED BY <1>1, <1>2, <2>1 DEF HuskInv
<1> QED
  BY <1>3, <1>4, <1>5, <1>6, <1>7, <1>8 DEF Invocation

LEMMA PrunerHusk ==
  ASSUME TypeOK, PathInv, HuskInv, NEW p \in Pruners, Pruner(p) \/ Kill(p)
  PROVE  HuskInv'
<1>1. /\ inv' = inv
      /\ \A q \in Pruners \ {p} : prune'[q] = prune[q]
  BY PrunerMoves DEF Pruner, PruneMoved
<1>2. \A q \in Pruners :
        prune'[q].pc \in {"truncate", "rewrite"} => prune'[q].kept # <<>>
  <2>1. prune'[p].pc \in {"truncate", "rewrite"} => prune'[p].kept # <<>>
    <3>1. Truncate(p) => prune[p].pc = "truncate"
      BY DEF Truncate
    <3> QED BY <3>1, PrunerMoves DEF Pruner, PruneMoved, HuskInv
  <2> QED BY <1>1, <2>1 DEF HuskInv
<1>3. CASE ReadLines(p) \/ PruneFails(p)
  <2>1. /\ UNCHANGED <<folder, name, cells>>
        /\ \/ prune[p].pc \in {"new", "truncate", "unlink"}
           \/ prune[p].pc = "rmdir" /\ (~folder \/ name # Nothing)
    BY <1>3 DEF ReadLines, PruneFails, disk
  <2> QED BY <1>1, <1>2, <2>1 DEF HuskInv
<1>4. CASE Truncate(p)
  <2>1. /\ name' # Nothing /\ prune'[p].pc = "rewrite" /\ prune'[p].file = name'
    BY <1>4, PrunerMoves, HistoryAssumption DEF PruneMoved, Files
  <2> QED BY <1>1, <1>2, <2>1 DEF HuskInv
<1>5. CASE Rewrite(p)
  <2> DEFINE f == prune[p].file
             kept == prune[p].kept
  <2>1. /\ UNCHANGED <<folder, name>> /\ prune[p].pc = "rewrite"
        /\ cells' = [cells EXCEPT ![f] =
                       kept \o SubSeq(cells[f], Len(kept) + 1, Len(cells[f]))]
    BY <1>5 DEF Rewrite
  <2>2. f \in Files /\ kept \in Seq(AllCells) /\ kept # <<>>
    BY <2>1 DEF TypeOK, PruneStates, PathInv, HuskInv
  <2>3. cells'[f] # <<>>
    <3>1. cells[f] \in Seq(AllCells) /\ Len(kept) \in Nat
      BY <2>2 DEF TypeOK
    <3>2. SubSeq(cells[f], Len(kept) + 1, Len(cells[f])) \in Seq(AllCells)
      BY <3>1
    <3>3. kept \o SubSeq(cells[f], Len(kept) + 1, Len(cells[f])) # <<>>
      <4> HIDE DEF kept, f
      <4> QED BY <2>2, <3>2
    <3> HIDE DEF kept, f
    <3> QED BY <2>1, <2>2, <3>3 DEF TypeOK
  <2>4. name # Nothing /\ name # f => cells'[name] = cells[name]
    <3> HIDE DEF kept, f
    <3> QED BY <2>1 DEF TypeOK
  <2> QED BY <1>1, <1>2, <2>1, <2>3, <2>4 DEF HuskInv
<1>6. CASE Unlink(p)
  <2>1. name' = Nothing /\ prune'[p].pc = "empty"
    BY <1>6, PrunerMoves DEF Unlink, PruneMoved
  <2> QED BY <1>1, <1>2, <2>1 DEF HuskInv
<1>7. CASE LookEmpty(p)
  <2>1. /\ UNCHANGED <<folder, name, cells>> /\ prune[p].pc = "empty"
        /\ folder /\ name = Nothing => prune'[p].pc = "rmdir"
    BY <1>7, PrunerMoves DEF LookEmpty, disk, PruneMoved
  <2> QED BY <1>1, <1>2, <2>1 DEF HuskInv
<1>8. CASE RemoveFolder(p)
  <2>1. ~folder' /\ name' = Nothing
    BY <1>8 DEF RemoveFolder
  <2> QED BY <1>1, <1>2, <2>1 DEF HuskInv
<1>9. CASE Kill(p)
  <2>1. UNCHANGED <<folder, name, cells>> /\ prune'[p].pc = "killed"
    BY <1>9, PrunerMoves DEF Kill, disk, PruneMoved
  <2> QED BY <1>1, <1>2, <2>1 DEF HuskInv
<1> QED
  BY <1>3, <1>4, <1>5, <1>6, <1>7, <1>8, <1>9 DEF Pruner

LEMMA NextHusk == TypeOK /\ PathInv /\ HuskInv /\ [Next]_vars => HuskInv'
<1>1. ASSUME HuskInv, Tick \/ Edit \/ UNCHANGED vars PROVE HuskInv'
  BY <1>1 DEF Tick, Edit, vars, disk, HuskInv
<1> QED
  BY <1>1, InvocationHusk, PrunerHusk DEF Next

\* However appends and prunes race, no empty file and no empty directory stay under
\* the history root once they have ended: who empties a file writes it again or
\* deletes it, and who deletes it looks for the directory after that.
THEOREM NoHuskStays == Spec => []NoHuskLeft
<1>1. PathInv /\ HuskInv => NoHuskLeft
  BY DEF PathInv, HuskInv, NoHuskLeft, Ended, Content
<1>2. Init => HuskInv
  BY InitHusk
<1>3. TypeOK /\ PathInv /\ HuskInv /\ [Next]_vars => HuskInv'
  BY NextHusk
<1> QED BY <1>1, <1>2, <1>3, PathsHold, PTL DEF Spec


-----------------------------------------------------------------------------
(* Lines of records: what a prune keeps of a file that consists of them.   *)

LineOf(set) == [i \in Invocations |-> IF i \in set THEN <<>> ELSE Bytes(i)]

LEMMA LinesAreMapped ==
  ASSUME NEW s \in Seq(Invocations), NEW set
  PROVE  Lines(s, set) = Mapped(s, LineOf(set))
<1>1. \A n \in 1 .. Len(s) :
        (IF s[n] \in set THEN <<>> ELSE Bytes(s[n])) = LineOf(set)[s[n]]
  BY DEF LineOf
<1>2. [n \in 1 .. Len(s) |-> IF s[n] \in set THEN <<>> ELSE Bytes(s[n])] =
        [n \in 1 .. Len(s) |-> LineOf(set)[s[n]]]
  BY <1>1, Zenon
<1> QED BY <1>2, Zenon DEF Lines, Mapped

LEMMA LineOfType == \A set : LineOf(set) \in [Invocations -> Seq(AllCells)]
BY BytesType, EmptySeq DEF LineOf

LEMMA LinesEmpty == \A set : Lines(<<>>, set) = <<>>
<1>1. <<>> \in Seq(Invocations)
  BY EmptySeq
<1> QED BY <1>1, LinesAreMapped, MappedEmpty

LEMMA LinesType ==
  ASSUME NEW s \in Seq(Invocations), NEW set
  PROVE  Lines(s, set) \in Seq(AllCells)
BY LinesAreMapped, LineOfType, MappedType

\* A record that is appended is a line at the end, unless it is one of set.
LEMMA LinesAppend ==
  ASSUME NEW s \in Seq(Invocations), NEW set, NEW i \in Invocations
  PROVE  /\ i \in set => Lines(Append(s, i), set) = Lines(s, set)
         /\ i \notin set => Lines(Append(s, i), set) = Lines(s, set) \o Bytes(i)
<1>1. Append(s, i) \in Seq(Invocations)
  OBVIOUS
<1>2. Mapped(Append(s, i), LineOf(set)) = Mapped(s, LineOf(set)) \o LineOf(set)[i]
  BY LineOfType, MappedAppend
<1>3. Lines(s, set) \in Seq(AllCells)
  BY LinesType
<1>4. LineOf(set)[i] = IF i \in set THEN <<>> ELSE Bytes(i)
  BY DEF LineOf
<1> QED BY <1>1, <1>2, <1>3, <1>4, LinesAreMapped, ConcatEmptySeq

\* Every byte is at its place in a line.
InLines(c) ==
  \A n \in 1 .. Len(c) :
    /\ c[n][2] <= n
    /\ n - c[n][2] + Size(c[n][1]) <= Len(c)
    /\ \A m \in 1 .. Size(c[n][1]) : c[n - c[n][2] + m] = <<c[n][1], m>>

LEMMA CellType ==
  ASSUME NEW c \in Seq(AllCells), NEW n \in 1 .. Len(c)
  PROVE  /\ c[n][1] \in Invocations /\ c[n][2] \in 1 .. Size(c[n][1])
         /\ c[n] = <<c[n][1], c[n][2]>>
         /\ Size(c[n][1]) \in {1, 2}
<1>1. c[n] \in AllCells
  OBVIOUS
<1>2. PICK i \in Invocations : \E k \in 1 .. Size(i) : c[n] = <<i, k>>
  BY <1>1, Zenon DEF AllCells
<1> QED BY <1>2, BytesType

LEMMA InLinesConcat ==
  ASSUME NEW c \in Seq(AllCells), InLines(c), NEW i \in Invocations
  PROVE  InLines(c \o Bytes(i))
<1> DEFINE d == c \o Bytes(i)
           l == Len(c)
<1>1. /\ l \in Nat /\ Size(i) \in {1, 2} /\ Len(d) = l + Size(i)
      /\ \A n \in 1 .. l : d[n] = c[n]
      /\ \A k \in 1 .. Size(i) : d[l + k] = <<i, k>>
  <2>1. /\ Bytes(i) \in Seq(AllCells) /\ Len(Bytes(i)) = Size(i)
        /\ Size(i) \in {1, 2} /\ \A k \in 1 .. Size(i) : Bytes(i)[k] = <<i, k>>
    BY BytesType
  <2> QED BY <2>1, ConcatProperties
<1>2. ASSUME NEW n \in 1 .. Len(d), n <= l
      PROVE  /\ d[n][2] <= n
             /\ n - d[n][2] + Size(d[n][1]) <= Len(d)
             /\ \A m \in 1 .. Size(d[n][1]) : d[n - d[n][2] + m] = <<d[n][1], m>>
  <2>1. n \in 1 .. l /\ d[n] = c[n]
    BY <1>1, <1>2
  <2>2. /\ c[n][2] \in 1 .. Size(c[n][1]) /\ Size(c[n][1]) \in {1, 2}
        /\ c[n][2] <= n /\ n - c[n][2] + Size(c[n][1]) <= l
        /\ \A m \in 1 .. Size(c[n][1]) : c[n - c[n][2] + m] = <<c[n][1], m>>
    BY <2>1, CellType DEF InLines
  <2>3. ASSUME NEW m \in 1 .. Size(c[n][1])
        PROVE  d[n - c[n][2] + m] = <<c[n][1], m>>
    <3>1. n - c[n][2] + m \in 1 .. l
      BY <1>1, <2>1, <2>2
    <3> QED BY <1>1, <2>2, <3>1
  <2> HIDE DEF d, l
  <2> QED BY <1>1, <2>1, <2>2, <2>3
<1>3. ASSUME NEW n \in 1 .. Len(d), n > l
      PROVE  /\ d[n][2] <= n
             /\ n - d[n][2] + Size(d[n][1]) <= Len(d)
             /\ \A m \in 1 .. Size(d[n][1]) : d[n - d[n][2] + m] = <<d[n][1], m>>
  <2>1. n - l \in 1 .. Size(i) /\ l + (n - l) = n
    <3> HIDE DEF d, l
    <3> QED BY <1>1, <1>3
  <2>2. d[n] = <<i, n - l>>
    <3> HIDE DEF d, l
    <3> QED BY <1>1, <2>1
  <2>3. d[n][1] = i /\ d[n][2] = n - l /\ n - (n - l) = l
    <3> HIDE DEF d, l
    <3> QED BY <1>1, <2>2
  <2> HIDE DEF d, l
  <2> QED BY <1>1, <2>1, <2>3
<1>4. Len(d) \in Nat
  <2> HIDE DEF d, l
  <2> QED BY <1>1
<1> HIDE DEF d
<1>5. InLines(d)
  <2> SUFFICES ASSUME NEW n \in 1 .. Len(d)
      PROVE  /\ d[n][2] <= n
             /\ n - d[n][2] + Size(d[n][1]) <= Len(d)
             /\ \A m \in 1 .. Size(d[n][1]) : d[n - d[n][2] + m] = <<d[n][1], m>>
    BY Zenon DEF InLines
  <2> HIDE DEF l
  <2>1. n <= l \/ n > l
    BY <1>1, <1>4
  <2> QED BY <1>2, <1>3, <2>1, Zenon
<1> QED BY <1>5 DEF d

\* The appended lines, less those of set, are lines.
LEMMA LinesInLines ==
  ASSUME NEW set
  PROVE  \A s \in Seq(Invocations) : InLines(Lines(s, set))
<1> DEFINE F == {s \in Seq(Invocations) : InLines(Lines(s, set))}
<1>1. <<>> \in F
  BY LinesEmpty, EmptySeq DEF InLines
<1>2. ASSUME NEW s \in Seq(Invocations), NEW i \in Invocations, s \in F
      PROVE  Append(s, i) \in F
  BY <1>2, LinesAppend, LinesType, InLinesConcat, AppendProperties
<1>3. Seq(Invocations) \subseteq F
  <2> HIDE DEF F
  <2> QED BY <1>1, <1>2, EverySequence
<1> QED BY <1>3

\* A record is found where its first byte is.
LEMMA WholeAtHead ==
  ASSUME NEW c \in Seq(AllCells), InLines(c),
         NEW i \in Invocations, NEW n \in 1 .. Len(c)
  PROVE  WholeAt(c, i, n) <=> c[n] = <<i, 1>>
<1>1. /\ Len(Bytes(i)) = Size(i) /\ Size(i) \in {1, 2} /\ Bytes(i) \in Seq(AllCells)
      /\ \A k \in 1 .. Size(i) : Bytes(i)[k] = <<i, k>>
      /\ Len(c) \in Nat
  <2>1. Len(c) \in Nat
    OBVIOUS
  <2> QED BY <2>1, BytesType
<1>2. ASSUME WholeAt(c, i, n) PROVE c[n] = <<i, 1>>
  <2>1. /\ n + Size(i) - 1 <= Len(c)
        /\ SubSeq(c, n, n + Size(i) - 1) = Bytes(i)
    BY <1>2 DEF WholeAt
  <2>2. SubSeq(c, n, n + Size(i) - 1)[1] = c[n]
    BY <1>1, <2>1
  <2>3. Bytes(i)[1] = <<i, 1>>
    BY <1>1
  <2> QED BY <2>1, <2>2, <2>3, Zenon
<1>3. ASSUME c[n] = <<i, 1>> PROVE WholeAt(c, i, n)
  <2>1. /\ c[n][1] = i /\ c[n][2] = 1
    BY <1>3
  <2>2. /\ n - 1 + Size(i) <= Len(c)
        /\ \A m \in 1 .. Size(i) : c[n - 1 + m] = <<i, m>>
    BY <2>1 DEF InLines
  <2>3. SubSeq(c, n, n + Size(i) - 1) = Bytes(i)
    <3> DEFINE t == SubSeq(c, n, n + Size(i) - 1)
    <3>1. /\ t \in Seq(AllCells) /\ Len(t) = Size(i)
          /\ \A m \in 1 .. Size(i) : t[m] = c[n - 1 + m]
      BY <1>1, <2>2
    <3> HIDE DEF t
    <3>2. t = Bytes(i)
      BY <1>1, <2>2, <3>1, SeqEqual, ZenonT(40)
    <3> QED BY <3>2 DEF t
  <2>4. LineStart(c, n)
    <3> SUFFICES ASSUME n # 1 PROVE c[n - 1][2] = Size(c[n - 1][1])
      BY DEF LineStart
    <3>1. n - 1 \in 1 .. Len(c)
      BY <1>1
    <3> DEFINE j == c[n - 1][1]
               k == c[n - 1][2]
    <3>2. /\ k \in 1 .. Size(j) /\ Size(j) \in {1, 2}
          /\ \A m \in 1 .. Size(j) : c[n - 1 - k + m] = <<j, m>>
      BY <3>1, CellType DEF InLines
    <3>3. ASSUME k < Size(j) PROVE FALSE
      <4>1. k + 1 \in 1 .. Size(j) /\ n - 1 - k + (k + 1) = n
        <5> HIDE DEF j, k
        <5> QED BY <1>1, <3>2, <3>3
      <4>2. c[n] = <<j, k + 1>>
        <5> HIDE DEF j, k
        <5> QED BY <3>2, <4>1
      <4>3. k + 1 = 1
        BY <1>3, <4>2
      <4> HIDE DEF j, k
      <4> QED BY <3>2, <4>3
    <3>4. k = Size(j)
      <4> HIDE DEF j, k
      <4> QED BY <3>2, <3>3
    <3> QED BY <3>4
  <2> QED BY <1>1, <2>2, <2>3, <2>4 DEF WholeAt
<1> QED BY <1>2, <1>3


\* Who appended is who is found, less what was taken out.
LEMMA LinesHeads ==
  ASSUME NEW set
  PROVE  \A s \in Seq(Invocations), i \in Invocations :
           (\E n \in 1 .. Len(Lines(s, set)) : Lines(s, set)[n] = <<i, 1>>) <=>
             i \notin set /\ \E m \in 1 .. Len(s) : s[m] = i
<1> DEFINE Heads(s) == {i \in Invocations :
                          \E n \in 1 .. Len(Lines(s, set)) :
                            Lines(s, set)[n] = <<i, 1>>}
           Members(s) == {i \in Invocations : \E m \in 1 .. Len(s) : s[m] = i}
           F == {s \in Seq(Invocations) : Heads(s) = Members(s) \ set}
<1>1. <<>> \in F
  BY LinesEmpty, EmptySeq
<1>2. ASSUME NEW s \in Seq(Invocations), NEW i \in Invocations, s \in F
      PROVE  Append(s, i) \in F
  <2> DEFINE c == Lines(s, set)
             d == Lines(Append(s, i), set)
  <2>1. Members(Append(s, i)) = Members(s) \cup {i}
    <3>1. /\ Len(Append(s, i)) = Len(s) + 1 /\ Len(s) \in Nat
          /\ Append(s, i)[Len(s) + 1] = i
          /\ \A m \in 1 .. Len(s) : Append(s, i)[m] = s[m]
      OBVIOUS
    <3>2. i \in Members(Append(s, i)) /\ Members(s) \subseteq Members(Append(s, i))
      BY <3>1
    <3>3. ASSUME NEW j \in Members(Append(s, i)), j # i PROVE j \in Members(s)
      <4>1. PICK m \in 1 .. Len(s) + 1 : Append(s, i)[m] = j
        BY <3>1
      <4>2. m \in 1 .. Len(s)
        BY <3>1, <3>3, <4>1
      <4> QED BY <3>1, <4>1, <4>2
    <3> QED BY <3>2, <3>3
  <2>2. CASE i \in set
    <3>1. d = c
      BY <2>2, LinesAppend
    <3>2. Heads(Append(s, i)) = Heads(s)
      BY <3>1
    <3> HIDE DEF Heads, Members
    <3> QED BY <1>2, <2>1, <2>2, <3>2
  <2>3. CASE i \notin set
    <3>1. /\ c \in Seq(AllCells) /\ Bytes(i) \in Seq(AllCells)
          /\ Len(Bytes(i)) = Size(i) /\ Size(i) \in {1, 2}
          /\ \A k \in 1 .. Size(i) : Bytes(i)[k] = <<i, k>>
      BY LinesType, BytesType
    <3>2. d = c \o Bytes(i)
      BY <2>3, LinesAppend
    <3>3. /\ Len(c) \in Nat /\ Len(d) = Len(c) + Size(i)
          /\ \A n \in 1 .. Len(c) : d[n] = c[n]
          /\ \A k \in 1 .. Size(i) : d[Len(c) + k] = <<i, k>>
      <4> HIDE DEF c, d
      <4> QED BY <3>1, <3>2, ConcatProperties
    <3>4. \A j \in Invocations :
            (\E n \in 1 .. Len(d) : d[n] = <<j, 1>>) <=>
              j = i \/ \E n \in 1 .. Len(c) : c[n] = <<j, 1>>
      <4> HIDE DEF c, d
      <4> SUFFICES ASSUME NEW j \in Invocations
          PROVE  (\E n \in 1 .. Len(d) : d[n] = <<j, 1>>) <=>
                   j = i \/ \E n \in 1 .. Len(c) : c[n] = <<j, 1>>
        OBVIOUS
      <4>1. ASSUME NEW n \in 1 .. Len(d), d[n] = <<j, 1>>, j # i
            PROVE  \E m \in 1 .. Len(c) : c[m] = <<j, 1>>
        <5>1. CASE n \in 1 .. Len(c)
          BY <3>3, <4>1, <5>1
        <5>2. CASE n \notin 1 .. Len(c)
          <6>1. n - Len(c) \in 1 .. Size(i) /\ Len(c) + (n - Len(c)) = n
            BY <3>1, <3>3, <5>2
          <6>2. d[n] = <<i, n - Len(c)>>
            BY <3>3, <6>1
          <6> QED BY <4>1, <6>2
        <5> QED BY <5>1, <5>2
      <4>2. ASSUME j = i PROVE \E n \in 1 .. Len(d) : d[n] = <<j, 1>>
        <5>1. Len(c) + 1 \in 1 .. Len(d) /\ 1 \in 1 .. Size(i)
          BY <3>1, <3>3
        <5> QED BY <3>3, <4>2, <5>1
      <4>3. ASSUME NEW n \in 1 .. Len(c), c[n] = <<j, 1>>
            PROVE  \E m \in 1 .. Len(d) : d[m] = <<j, 1>>
        <5>1. n \in 1 .. Len(d) /\ d[n] = c[n]
          BY <3>1, <3>3
        <5> QED BY <4>3, <5>1
      <4> QED BY <4>1, <4>2, <4>3
    <3>5. Heads(Append(s, i)) = Heads(s) \cup {i}
      <4> HIDE DEF c, d
      <4> SUFFICES {j \in Invocations : \E n \in 1 .. Len(d) : d[n] = <<j, 1>>} =
                   {j \in Invocations : \E n \in 1 .. Len(c) : c[n] = <<j, 1>>}
                     \cup {i}
        BY DEF c, d
      <4> QED BY <3>4
    <3> HIDE DEF Heads, Members
    <3> QED BY <1>2, <2>1, <2>3, <3>5
  <2> QED BY <2>2, <2>3
<1>3. Seq(Invocations) \subseteq F
  <2> HIDE DEF F
  <2> QED BY <1>1, <1>2, EverySequence
<1>4. ASSUME NEW s \in Seq(Invocations), NEW i \in Invocations
      PROVE  (\E n \in 1 .. Len(Lines(s, set)) : Lines(s, set)[n] = <<i, 1>>) <=>
               i \notin set /\ \E m \in 1 .. Len(s) : s[m] = i
  <2>1. i \in Heads(s) <=> i \in Members(s) \ set
    <3>1. s \in F
      BY <1>3
    <3> HIDE DEF Heads, Members
    <3> QED BY <3>1
  <2> QED BY <2>1
<1> QED BY <1>4

\* What can be read is what was appended and not taken out.
LEMMA ReadableLines ==
  ASSUME NEW s \in Seq(Invocations), NEW set
  PROVE  Readable(Lines(s, set)) =
           {i \in Invocations : \E m \in 1 .. Len(s) : s[m] = i} \ set
<1> DEFINE c == Lines(s, set)
<1>1. c \in Seq(AllCells) /\ InLines(c)
  BY LinesType, LinesInLines
<1>2. \A i \in Invocations, n \in 1 .. Len(c) : WholeAt(c, i, n) <=> c[n] = <<i, 1>>
  <2> HIDE DEF c
  <2> QED BY <1>1, WholeAtHead
<1>3. \A i \in Invocations :
        (\E n \in 1 .. Len(c) : c[n] = <<i, 1>>) <=>
          i \notin set /\ \E m \in 1 .. Len(s) : s[m] = i
  BY LinesHeads
<1>4. Readable(c) = {i \in Invocations : \E m \in 1 .. Len(s) : s[m] = i} \ set
  <2> HIDE DEF c
  <2> QED BY <1>2, <1>3 DEF Readable
<1> QED BY <1>4



\* A byte stays, unless it is of a record of set.
Strip(set) == [x \in AllCells |-> IF x[1] \in set THEN <<>> ELSE <<x>>]

LEMMA StripType == \A set : Strip(set) \in [AllCells -> Seq(AllCells)]
BY EmptySeq DEF Strip

\* Where every byte is in a line, to take out the lines of some records is to take
\* out the bytes of those.
LEMMA WithoutIsStripped ==
  ASSUME NEW c \in Seq(AllCells), InLines(c), NEW set \in SUBSET Invocations
  PROVE  Without(c, set) = Mapped(c, Strip(set))
<1>1. ASSUME NEW n \in 1 .. Len(c)
      PROVE  (\E i \in set, k \in 1 .. 2 :
                k <= n /\ WholeAt(c, i, n - k + 1) /\ k <= Size(i)) <=>
               c[n][1] \in set
  <2>1. /\ c[n][1] \in Invocations /\ c[n][2] \in 1 .. Size(c[n][1])
        /\ Size(c[n][1]) \in {1, 2} /\ Len(c) \in Nat
        /\ c[n][2] <= n /\ n - c[n][2] + Size(c[n][1]) <= Len(c)
        /\ \A m \in 1 .. Size(c[n][1]) : c[n - c[n][2] + m] = <<c[n][1], m>>
    BY CellType DEF InLines
  <2>2. ASSUME c[n][1] \in set
        PROVE  \E i \in set, k \in 1 .. 2 :
                 k <= n /\ WholeAt(c, i, n - k + 1) /\ k <= Size(i)
    <3>1. PICK i, k : i = c[n][1] /\ k = c[n][2]
      OBVIOUS
    <3>2. /\ i \in set /\ k \in 1 .. 2 /\ k <= n /\ k <= Size(i)
          /\ n - k + 1 \in 1 .. Len(c)
      BY <2>1, <2>2, <3>1
    <3>3. c[n - k + 1] = <<i, 1>>
      BY <2>1, <3>1
    <3>4. WholeAt(c, i, n - k + 1)
      BY <3>2, <3>3, WholeAtHead
    <3> QED BY <3>2, <3>4
  <2>3. ASSUME NEW i \in set, NEW k \in 1 .. 2,
               k <= n, WholeAt(c, i, n - k + 1), k <= Size(i)
        PROVE  c[n][1] \in set
    <3>1. PICK h : h = n - k + 1
      OBVIOUS
    <3>2. h \in 1 .. Len(c) /\ k \in 1 .. Size(i) /\ h - 1 + k = n
      BY <2>1, <2>3, <3>1, BytesType
    <3>3. c[h] = <<i, 1>>
      BY <2>3, <3>1, <3>2, WholeAtHead
    <3>4. c[h][1] = i /\ c[h][2] = 1
      BY <3>3
    <3>5. c[h - 1 + k] = <<i, k>>
      BY <3>2, <3>4 DEF InLines
    <3> QED BY <3>2, <3>5
  <2> QED BY <2>2, <2>3
<1>2. \A n \in 1 .. Len(c) :
        (IF \E i \in set, k \in 1 .. 2 :
              k <= n /\ WholeAt(c, i, n - k + 1) /\ k <= Size(i)
         THEN <<>> ELSE <<c[n]>>) = Strip(set)[c[n]]
  <2>1. \A n \in 1 .. Len(c) :
          Strip(set)[c[n]] = IF c[n][1] \in set THEN <<>> ELSE <<c[n]>>
    BY DEF Strip
  <2> QED BY <1>1, <2>1, Zenon
<1>3. [n \in 1 .. Len(c) |->
         IF \E i \in set, k \in 1 .. 2 :
              k <= n /\ WholeAt(c, i, n - k + 1) /\ k <= Size(i)
         THEN <<>> ELSE <<c[n]>>] = [n \in 1 .. Len(c) |-> Strip(set)[c[n]]]
  BY <1>2, Zenon
<1> QED BY <1>3, Zenon DEF Without, Mapped

\* To take out the bytes of one record.
LEMMA StripBytes ==
  ASSUME NEW c \in Seq(AllCells), NEW i \in Invocations, NEW set
  PROVE  Mapped(c \o Bytes(i), Strip(set)) =
           IF i \in set THEN Mapped(c, Strip(set))
           ELSE Mapped(c, Strip(set)) \o Bytes(i)
<1>1. PICK g \in [AllCells -> Seq(AllCells)] : g = Strip(set)
  BY StripType
<1>2. PICK m \in Seq(AllCells) : m = Mapped(c, g)
  BY MappedType
<1>3. Size(i) \in {1, 2} /\ \A k \in 1 .. Size(i) : <<i, k>> \in AllCells
  BY BytesType
<1>4. \A k \in 1 .. Size(i) : g[<<i, k>>] = IF i \in set THEN <<>> ELSE <<<<i, k>>>>
  BY <1>1, <1>3 DEF Strip
<1>5. CASE Size(i) = 1
  <2>1. PICK x \in AllCells : x = <<i, 1>>
    BY <1>3, <1>5
  <2>2. Bytes(i) = <<x>> /\ g[x] = IF i \in set THEN <<>> ELSE <<x>>
    BY <1>4, <1>5, <2>1 DEF Bytes
  <2>3. c \o <<x>> = Append(c, x)
    OBVIOUS
  <2>4. Mapped(Append(c, x), g) = m \o g[x]
    BY <1>2, MappedAppend
  <2> QED BY <1>1, <1>2, <2>2, <2>3, <2>4, ConcatEmptySeq
<1>6. CASE Size(i) = 2
  <2>1. PICK x \in AllCells, y \in AllCells : x = <<i, 1>> /\ y = <<i, 2>>
    BY <1>3, <1>6
  <2>2. /\ Bytes(i) = <<x, y>>
        /\ g[x] = IF i \in set THEN <<>> ELSE <<x>>
        /\ g[y] = IF i \in set THEN <<>> ELSE <<y>>
    BY <1>4, <1>6, <2>1 DEF Bytes
  <2>3. PICK d \in Seq(AllCells) : d = Append(c, x)
    BY AppendProperties
  <2>4. c \o <<x, y>> = Append(d, y)
    BY <2>3, AppendTwo
  <2>5. Mapped(Append(d, y), g) = (m \o g[x]) \o g[y]
    <3>1. Mapped(d, g) = m \o g[x]
      BY <1>2, <2>3, MappedAppend
    <3>2. Mapped(Append(d, y), g) = Mapped(d, g) \o g[y]
      BY MappedAppend
    <3> QED BY <3>1, <3>2
  <2>6. (m \o <<x>>) \o <<y>> = m \o <<x, y>>
    BY AppendTwo, ZenonT(40)
  <2>7. CASE i \in set
    <3>1. (m \o <<>>) \o <<>> = m
      BY ConcatEmptySeq
    <3> QED BY <1>1, <1>2, <2>2, <2>4, <2>5, <2>7, <3>1
  <2>8. CASE i \notin set
    BY <1>1, <1>2, <2>2, <2>4, <2>5, <2>6, <2>8
  <2> QED BY <2>7, <2>8
<1> QED BY <1>3, <1>5, <1>6

\* What a prune keeps of the lines less those of one set are the lines less those
\* of that set and of the records it drops.
LEMMA WithoutLines ==
  ASSUME NEW s \in Seq(Invocations), NEW set, NEW old \in SUBSET Invocations
  PROVE  Without(Lines(s, set), old) = Lines(s, set \cup old)
<1> DEFINE F == {r \in Seq(Invocations) :
                   Mapped(Lines(r, set), Strip(old)) = Lines(r, set \cup old)}
<1>1. <<>> \in F
  BY LinesEmpty, MappedEmpty, EmptySeq
<1>2. ASSUME NEW r \in Seq(Invocations), NEW i \in Invocations, r \in F
      PROVE  Append(r, i) \in F
  <2>1. /\ Lines(r, set) \in Seq(AllCells)
        /\ Append(r, i) \in Seq(Invocations)
        /\ Mapped(Lines(r, set), Strip(old)) = Lines(r, set \cup old)
    BY <1>2, LinesType
  <2>2. CASE i \in set
    BY <2>1, <2>2, LinesAppend
  <2>3. CASE i \notin set
    <3>1. Lines(Append(r, i), set) = Lines(r, set) \o Bytes(i)
      BY <2>3, LinesAppend
    <3>2. Mapped(Lines(r, set) \o Bytes(i), Strip(old)) =
            IF i \in old THEN Mapped(Lines(r, set), Strip(old))
            ELSE Mapped(Lines(r, set), Strip(old)) \o Bytes(i)
      BY <2>1, StripBytes
    <3>3. /\ i \in old => Lines(Append(r, i), set \cup old) = Lines(r, set \cup old)
          /\ i \notin old => Lines(Append(r, i), set \cup old) =
                               Lines(r, set \cup old) \o Bytes(i)
      BY <2>3, LinesAppend
    <3> QED BY <2>1, <3>1, <3>2, <3>3
  <2> QED BY <2>2, <2>3
<1>3. Seq(Invocations) \subseteq F
  <2> HIDE DEF F
  <2> QED BY <1>1, <1>2, EverySequence
<1>4. Mapped(Lines(s, set), Strip(old)) = Lines(s, set \cup old)
  BY <1>3
<1> QED BY <1>4, LinesType, LinesInLines, WithoutIsStripped


-----------------------------------------------------------------------------
(* The file is exact when nothing raced with a prune.                      *)

\* Each invocation appends once.
AppendedInv ==
  /\ \A m, n \in DOMAIN appended : appended[m] = appended[n] => m = n
  /\ \A n \in DOMAIN appended : inv[appended[n]].pc = "done"

\* Without a race or a kill, the file is the lines appended and not dropped, except
\* while a prune is between its read and its last step; then it holds them.
SerialInv ==
  ~raced /\ kills = 0 =>
    /\ \A i \in Invocations :
         /\ inv[i].pc \in {"lock", "write"} => name # Nothing /\ inv[i].file = name
         /\ i \in dropped => inv[i].pc = "done"
    /\ (\A p \in Pruners : ~Pruning(p)) => Content = Lines(appended, dropped)
    /\ \A p \in Pruners :
         /\ prune[p].pc = "truncate" => prune[p].kept = Lines(appended, dropped)
         /\ prune[p].pc = "rewrite" =>
              /\ prune[p].kept = Lines(appended, dropped)
              /\ name # Nothing /\ prune[p].file = name /\ cells[name] = <<>>
         /\ prune[p].pc \in {"unlink", "empty", "rmdir"} =>
              Lines(appended, dropped) = <<>>
         /\ prune[p].pc \in {"empty", "rmdir"} => name = Nothing

LEMMA InvocationAppended ==
  ASSUME TypeOK, AppendedInv, NEW i \in Invocations, Invocation(i)
  PROVE  AppendedInv'
<1>1. /\ \A j \in Invocations \ {i} : inv'[j] = inv[j]
      /\ inv[i].pc # "done"
  BY InvocationMoves DEF Invocation, InvMoved, Begin, Record, MakeParents, Open,
                         OpenFails, Lock, Write
<1>2. appended \in Seq(Invocations) /\ DOMAIN appended = 1 .. Len(appended)
  BY DEF TypeOK
<1>3. \A n \in DOMAIN appended :
        appended[n] \in Invocations /\ appended[n] # i
          /\ inv'[appended[n]].pc = "done"
  BY <1>1, <1>2 DEF AppendedInv
<1>4. CASE Write(i)
  <2>1. appended' = Append(appended, i) /\ inv'[i].pc = "done"
    BY <1>4, InvocationMoves DEF Write, InvMoved
  <2>2. /\ DOMAIN appended' = 1 .. Len(appended) + 1
        /\ appended'[Len(appended) + 1] = i
        /\ \A n \in 1 .. Len(appended) : appended'[n] = appended[n]
        /\ Len(appended) \in Nat
    BY <1>2, <2>1
  <2>3. \A n \in DOMAIN appended' : inv'[appended'[n]].pc = "done"
    BY <1>2, <1>3, <2>1, <2>2
  <2>4. ASSUME NEW m \in DOMAIN appended', NEW n \in DOMAIN appended',
               appended'[m] = appended'[n]
        PROVE  m = n
    <3>1. CASE m \in 1 .. Len(appended) /\ n \in 1 .. Len(appended)
      BY <1>2, <2>2, <2>4, <3>1 DEF AppendedInv
    <3>2. CASE m = Len(appended) + 1 \/ n = Len(appended) + 1
      BY <1>2, <1>3, <2>2, <2>4, <3>2
    <3> QED BY <2>2, <3>1, <3>2
  <2> QED BY <2>3, <2>4 DEF AppendedInv
<1>5. CASE ~Write(i)
  <2>1. appended' = appended
    BY <1>5 DEF Invocation, Begin, Record, MakeParents, Open, OpenFails, Lock
  <2> QED BY <1>3, <2>1 DEF AppendedInv
<1> QED BY <1>4, <1>5

LEMMA NextAppended == TypeOK /\ AppendedInv /\ [Next]_vars => AppendedInv'
<1>1. ASSUME TypeOK, NEW p \in Pruners, Pruner(p) \/ Kill(p)
      PROVE  UNCHANGED <<inv, appended>>
  BY <1>1, PrunerMoves
<1>2. Tick \/ Edit \/ UNCHANGED vars => UNCHANGED <<inv, appended>>
  BY DEF Tick, Edit, vars
<1>3. AppendedInv /\ UNCHANGED <<inv, appended>> => AppendedInv'
  BY DEF AppendedInv
<1> QED
  BY <1>1, <1>2, <1>3, InvocationAppended DEF Next

LEMMA InitSerial == Init => AppendedInv /\ SerialInv
<1> SUFFICES ASSUME Init PROVE AppendedInv /\ SerialInv
  OBVIOUS
<1>1. Content = Lines(appended, dropped)
  BY LinesEmpty DEF Init, Content
<1>2. DOMAIN appended = {}
  BY DEF Init
<1> QED
  BY <1>1, <1>2 DEF Init, AppendedInv, SerialInv

LEMMA InvocationSerial ==
  ASSUME TypeOK, PathInv, AppendedInv, SerialInv,
         NEW i \in Invocations, Invocation(i)
  PROVE  SerialInv'
<1> SUFFICES ASSUME ~raced', kills' = 0 PROVE SerialInv'
  BY DEF SerialInv
<1>1. ~raced /\ kills = 0 /\ ~Overlap
  BY Watched, InvocationMoves DEF Next, Watch, PathInv
<1>2. /\ prune' = prune /\ dropped' = dropped
      /\ \A j \in Invocations \ {i} : inv'[j] = inv[j]
      /\ inv[i].pc # "done"
      /\ Appending(i) => \A p \in Pruners : ~Pruning(p)
  BY <1>1, InvocationMoves
     DEF Invocation, InvMoved, Overlap, Begin, Record, MakeParents, Open,
         OpenFails, Lock, Write
<1>3. \A j \in Invocations : j \in dropped' => inv'[j].pc = "done" /\ j # i
  BY <1>1, <1>2 DEF SerialInv
<1>4. CASE Write(i)
  <2>1. /\ inv[i].pc = "write" /\ UNCHANGED name
        /\ cells' = [cells EXCEPT ![inv[i].file] = cells[inv[i].file] \o Bytes(i)]
        /\ appended' = Append(appended, i)
        /\ inv'[i].pc = "done"
    BY <1>4, InvocationMoves DEF Write, InvMoved
  <2>2. name # Nothing /\ inv[i].file = name /\ name \in Files
    BY <1>1, <2>1 DEF SerialInv, TypeOK
  <2>3. \A p \in Pruners : ~Pruning(p) /\ ~Pruning(p)'
    BY <1>2, <2>1 DEF Appending, Pruning
  <2>4. cells[name] = Lines(appended, dropped)
    BY <1>1, <2>2, <2>3 DEF SerialInv, Content
  <2>5. Content' = cells[name] \o Bytes(i)
    BY <2>1, <2>2 DEF Content, TypeOK
  <2>6. Lines(appended', dropped') = Lines(appended, dropped) \o Bytes(i)
    <3>1. i \notin dropped
      BY <1>2, <1>3
    <3> QED BY <1>2, <2>1, <3>1, LinesAppend DEF TypeOK
  <2>7. Content' = Lines(appended', dropped')
    BY <2>4, <2>5, <2>6
  <2>8. \A p \in Pruners :
          prune'[p].pc \notin {"truncate", "rewrite", "unlink", "empty", "rmdir"}
    BY <2>3 DEF Pruning
  <2> QED
    BY <1>1, <1>2, <1>3, <2>1, <2>7, <2>8 DEF SerialInv
<1>5. CASE Open(i)
  <2>1. /\ inv[i].pc = "open" /\ UNCHANGED <<cells, appended>>
        /\ name' = IF name = Nothing THEN i ELSE name
        /\ inv'[i].file = name' /\ name' # Nothing
    BY <1>5, InvocationMoves, HistoryAssumption DEF Open, InvMoved, Files
  <2>2. \A p \in Pruners : ~Pruning(p) /\ ~Pruning(p)'
    BY <1>2, <2>1 DEF Appending, Pruning
  <2>3. cells[i] = <<>> /\ i # Nothing
    BY <2>1, HistoryAssumption DEF PathInv, Unmade
  <2>4. Content' = Content
    BY <2>1, <2>3 DEF Content
  <2>5. Content' = Lines(appended', dropped')
    BY <1>1, <1>2, <2>1, <2>2, <2>4 DEF SerialInv
  <2>6. \A p \in Pruners :
          prune'[p].pc \notin {"truncate", "rewrite", "unlink", "empty", "rmdir"}
    BY <2>2 DEF Pruning
  <2> QED
    BY <1>1, <1>2, <1>3, <2>1, <2>5, <2>6 DEF SerialInv
<1>6. CASE ~Write(i) /\ ~Open(i)
  <2>1. UNCHANGED <<name, cells, appended>>
    BY <1>6 DEF Invocation, Begin, Record, MakeParents, OpenFails, Lock, disk
  <2>2. inv'[i].pc \in {"lock", "write"} => name # Nothing /\ inv'[i].file = name
    <3>1. inv'[i].pc \in {"lock", "write"} => Lock(i)
      BY <1>6, InvocationMoves DEF Invocation, InvMoved
    <3>2. Lock(i) => inv[i].pc = "lock" /\ inv'[i].file = inv[i].file
      BY InvocationMoves DEF Lock, InvMoved
    <3> QED BY <1>1, <3>1, <3>2 DEF SerialInv
  <2>3. Content' = Content
    BY <2>1 DEF Content
  <2>4. \A p \in Pruners : Pruning(p)' <=> Pruning(p)
    BY <1>2 DEF Pruning
  <2> QED
    BY <1>1, <1>2, <1>3, <2>1, <2>2, <2>3, <2>4 DEF SerialInv
<1> QED BY <1>4, <1>5, <1>6

LEMMA PrunerSerial ==
  ASSUME TypeOK, PathInv, RaceInv, AppendedInv, SerialInv,
         NEW p \in Pruners, Pruner(p) \/ Kill(p)
  PROVE  SerialInv'
<1> SUFFICES ASSUME ~raced', kills' = 0 PROVE SerialInv'
  BY DEF SerialInv
<1>1. /\ ~raced /\ ~Overlap /\ ~Overlap'
      /\ kills = 0 /\ ~Kill(p)
  <2>1. ~raced /\ ~Overlap /\ ~Overlap'
    BY Watched, OverlapRaces DEF Next, Watch, PathInv
  <2>2. ~Kill(p)
    BY HistoryAssumption DEF Kill, TypeOK
  <2>3. kills' = kills
    BY <2>2 DEF Pruner, ReadLines, PruneFails, Truncate, Rewrite, Unlink,
                LookEmpty, RemoveFolder
  <2> QED BY <2>1, <2>2, <2>3
<1>2. /\ inv' = inv /\ appended' = appended
      /\ \A q \in Pruners \ {p} : prune'[q] = prune[q]
  BY PrunerMoves DEF Pruner, PruneMoved
<1>3. ~PruneFails(p)
  <2>1. RaceInv'
    BY PrunerRace
  <2> QED BY <2>1, PrunerMoves DEF RaceInv, PruneMoved
<1>4. CASE ReadLines(p)
  <2> DEFINE old == OldIn(Content)
  <2>1. /\ prune[p].pc = "new" /\ UNCHANGED <<name, cells>>
        /\ dropped' = dropped \cup old
    BY <1>4 DEF ReadLines, disk
  <2>2. Content' = Content
    BY <2>1 DEF Content
  <2>3. CASE prune'[p].pc = "done"
    <3>1. old = {}
      BY <1>4, <2>3, PrunerMoves DEF PruneMoved
    <3>2. dropped' = dropped
      BY <2>1, <3>1
    <3>3. \A q \in Pruners : Pruning(q)' <=> Pruning(q)
      BY <1>2, <2>1, <2>3 DEF Pruning
    <3> QED
      BY <1>1, <1>2, <2>1, <2>2, <2>3, <3>2, <3>3 DEF SerialInv
  <2>4. CASE prune'[p].pc # "done"
    <3>1. /\ prune'[p].pc \in {"truncate", "unlink"}
          /\ prune'[p].kept = Without(Content, old)
          /\ prune'[p].pc = "unlink" => prune'[p].kept = <<>>
      BY <1>4, <2>4, PrunerMoves DEF PruneMoved
    <3>2. Pruning(p)'
      BY <3>1 DEF Pruning
    <3>3. /\ \A i \in Invocations : ~Appending(i)
          /\ \A q \in Pruners \ {p} : ~Pruning(q)' /\ ~Pruning(q)
      BY <1>1, <1>2, <3>2 DEF Overlap, Appending, Pruning
    <3>4. \A q \in Pruners : ~Pruning(q)
      BY <2>1, <3>3 DEF Pruning
    <3>5. Content = Lines(appended, dropped)
      BY <1>1, <3>4 DEF SerialInv
    <3>6. old \subseteq Invocations /\ appended \in Seq(Invocations)
      BY DEF OldIn, Readable, TypeOK
    <3>7. prune'[p].kept = Lines(appended', dropped')
      <4> HIDE DEF old
      <4> QED BY <1>2, <2>1, <3>1, <3>5, <3>6, WithoutLines
    <3>8. \A i \in old : inv[i].pc = "done"
      <4>1. old \subseteq Readable(Lines(appended, dropped))
        BY <3>5 DEF OldIn
      <4>2. \A i \in old : \E m \in 1 .. Len(appended) : appended[m] = i
        <5> HIDE DEF old
        <5> QED BY <3>6, <4>1, ReadableLines
      <4>3. DOMAIN appended = 1 .. Len(appended)
        BY <3>6
      <4> HIDE DEF old
      <4> QED BY <4>2, <4>3 DEF AppendedInv
    <3>9. \A i \in Invocations :
            /\ inv'[i].pc \notin {"lock", "write"}
            /\ i \in dropped' => inv'[i].pc = "done"
      <4> HIDE DEF old
      <4> QED BY <1>1, <1>2, <2>1, <3>3, <3>8 DEF Appending, SerialInv
    <3>10. \A q \in Pruners \ {p} :
             prune'[q].pc \notin {"truncate", "rewrite", "unlink", "empty", "rmdir"}
      BY <3>3 DEF Pruning
    <3> HIDE DEF old
    <3> QED BY <3>1, <3>2, <3>7, <3>9, <3>10 DEF SerialInv
  <2> QED BY <2>3, <2>4
<1>5. CASE ~ReadLines(p)
  <2>1. Pruning(p) /\ dropped' = dropped
    BY <1>1, <1>3, <1>5 DEF Pruner, Truncate, Rewrite, Unlink, LookEmpty,
                            RemoveFolder, Pruning
  <2>2. /\ \A i \in Invocations : ~Appending(i)
        /\ \A q \in Pruners \ {p} : ~Pruning(q)
    BY <1>1, <2>1 DEF Overlap
  <2>3. /\ \A i \in Invocations :
             /\ inv'[i].pc \notin {"lock", "write"}
             /\ i \in dropped' => inv'[i].pc = "done"
        /\ \A q \in Pruners \ {p} :
             prune'[q].pc \notin {"truncate", "rewrite", "unlink", "empty", "rmdir"}
    BY <1>1, <1>2, <2>1, <2>2 DEF Appending, Pruning, SerialInv
  <2>4. Lines(appended', dropped') = Lines(appended, dropped)
    BY <1>2, <2>1
  <2>5. CASE Truncate(p)
    <3>1. /\ prune[p].pc = "truncate" /\ name' = name /\ name # Nothing
          /\ cells' = [cells EXCEPT ![name'] = <<>>]
      BY <1>1, <2>5 DEF Truncate, RaceInv
    <3>2. /\ prune'[p].pc = "rewrite" /\ prune'[p].file = name'
          /\ prune'[p].kept = prune[p].kept /\ name' \in Files
      BY <2>5, PrunerMoves DEF PruneMoved
    <3>3. cells'[name'] = <<>>
      BY <3>1, <3>2 DEF TypeOK
    <3>4. Pruning(p)'
      BY <3>2 DEF Pruning
    <3>5. prune'[p].kept = Lines(appended', dropped')
      BY <1>1, <2>4, <3>1, <3>2 DEF SerialInv
    <3> QED BY <2>3, <3>1, <3>2, <3>3, <3>4, <3>5 DEF SerialInv
  <2>6. CASE Rewrite(p)
    <3> DEFINE kept == prune[p].kept
    <3>1. /\ prune[p].pc = "rewrite" /\ UNCHANGED name
          /\ cells' = [cells EXCEPT ![prune[p].file] =
               kept \o SubSeq(cells[prune[p].file], Len(kept) + 1,
                              Len(cells[prune[p].file]))]
          /\ prune'[p].pc = "done"
      BY <2>6, PrunerMoves DEF Rewrite, PruneMoved
    <3>2. /\ kept = Lines(appended, dropped) /\ name # Nothing
          /\ prune[p].file = name /\ cells[name] = <<>> /\ name \in Files
          /\ kept \in Seq(AllCells)
      BY <1>1, <3>1 DEF SerialInv, TypeOK, PruneStates
    <3>3. kept \o SubSeq(<<>>, Len(kept) + 1, Len(<<>>)) = kept
      <4>1. SubSeq(<<>>, Len(kept) + 1, Len(<<>>)) = <<>>
        BY <3>2
      <4> QED BY <3>2, <4>1, ConcatEmptySeq
    <3>4. Content' = Lines(appended', dropped')
      <4> HIDE DEF kept
      <4>1. cells'[name] = kept
        BY <3>1, <3>2, <3>3 DEF TypeOK
      <4> QED BY <2>4, <3>1, <3>2, <4>1 DEF Content
    <3> QED BY <2>3, <3>1, <3>4 DEF SerialInv
  <2>7. CASE Unlink(p)
    <3>1. prune[p].pc = "unlink" /\ name' = Nothing /\ prune'[p].pc = "empty"
      BY <2>7, PrunerMoves DEF Unlink, PruneMoved
    <3>2. Lines(appended', dropped') = <<>> /\ Content' = <<>>
      BY <1>1, <2>4, <3>1 DEF SerialInv, Content
    <3> QED BY <2>3, <3>1, <3>2 DEF SerialInv
  <2>8. CASE LookEmpty(p) \/ RemoveFolder(p)
    <3>1. /\ prune[p].pc \in {"empty", "rmdir"} /\ name' = name
          /\ prune'[p].pc \in {"rmdir", "done"}
      BY <2>8, PrunerMoves DEF LookEmpty, RemoveFolder, disk, PruneMoved
    <3>2. name' = Nothing /\ Lines(appended', dropped') = <<>> /\ Content' = <<>>
      BY <1>1, <2>4, <3>1 DEF SerialInv, Content
    <3> QED BY <2>3, <3>1, <3>2 DEF SerialInv
  <2> QED
    BY <1>1, <1>3, <1>5, <2>5, <2>6, <2>7, <2>8 DEF Pruner
<1> QED BY <1>4, <1>5

LEMMA NextSerial ==
  TypeOK /\ PathInv /\ RaceInv /\ AppendedInv /\ SerialInv /\ [Next]_vars =>
    SerialInv'
<1>1. ASSUME SerialInv, Tick \/ Edit \/ UNCHANGED vars PROVE SerialInv'
  <2>1. UNCHANGED <<disk, inv, prune, kills, appended, dropped>>
    BY <1>1 DEF Tick, Edit, vars, disk
  <2>2. ~raced' => ~raced
    BY <1>1 DEF Tick, Edit, Watch, vars
  <2> QED BY <1>1, <2>1, <2>2 DEF SerialInv, disk, Content, Pruning
<1> QED
  BY <1>1, InvocationSerial, PrunerSerial DEF Next

LEMMA SerialHolds == Spec => [](AppendedInv /\ SerialInv)
<1>1. Init => AppendedInv /\ SerialInv
  BY InitSerial
<1>2. TypeOK /\ PathInv /\ RaceInv /\ AppendedInv /\ SerialInv /\ [Next]_vars =>
        (AppendedInv /\ SerialInv)'
  BY NextAppended, NextSerial
<1> QED BY <1>1, <1>2, PathsHold, PTL DEF Spec

\* While no append and no other prune overlapped a prune, and none was killed, the
\* history file is the records that were appended, in that order, less those a prune
\* dropped, for any number of processes: `append` takes the lock for each line, and
\* `prune` writes back every byte that is not of a line it drops.
THEOREM HistoryIsExact == Spec => []SerialHistoryIsExact
<1>1. SerialInv => SerialHistoryIsExact
  BY DEF SerialInv, SerialHistoryIsExact
<1> QED BY <1>1, SerialHolds, PTL


-----------------------------------------------------------------------------
(* What a row reads of a file that is exact.                               *)

Picked(set) == [i \in Invocations |-> IF i \in set THEN <<i>> ELSE <<>>]

LEMMA PickedType == \A set : Picked(set) \in [Invocations -> Seq(Invocations)]
BY EmptySeq DEF Picked

LEMMA OnlyIsMapped ==
  ASSUME NEW s \in Seq(Invocations), NEW set
  PROVE  Only(s, set) = Mapped(s, Picked(set))
<1>1. \A n \in 1 .. Len(s) :
        (IF s[n] \in set THEN <<s[n]>> ELSE <<>>) = Picked(set)[s[n]]
  BY DEF Picked
<1>2. [n \in 1 .. Len(s) |-> IF s[n] \in set THEN <<s[n]>> ELSE <<>>] =
        [n \in 1 .. Len(s) |-> Picked(set)[s[n]]]
  BY <1>1, Zenon
<1> QED BY <1>2, Zenon DEF Only, Mapped

LEMMA OnlyType ==
  ASSUME NEW s \in Seq(Invocations), NEW set
  PROVE  Only(s, set) \in Seq(Invocations)
BY OnlyIsMapped, PickedType, MappedType

LEMMA OnlyEmpty == \A set : Only(<<>>, set) = <<>>
<1>1. <<>> \in Seq(Invocations)
  BY EmptySeq
<1> QED BY <1>1, OnlyIsMapped, MappedEmpty

LEMMA OnlyAppend ==
  ASSUME NEW s \in Seq(Invocations), NEW i \in Invocations, NEW set
  PROVE  /\ i \in set => Only(Append(s, i), set) = Append(Only(s, set), i)
         /\ i \notin set => Only(Append(s, i), set) = Only(s, set)
<1>1. Append(s, i) \in Seq(Invocations)
  OBVIOUS
<1>2. PICK g \in [Invocations -> Seq(Invocations)] : g = Picked(set)
  BY PickedType
<1>3. Mapped(Append(s, i), g) = Mapped(s, g) \o g[i]
  BY MappedAppend
<1>4. g[i] = IF i \in set THEN <<i>> ELSE <<>>
  BY <1>2 DEF Picked
<1>5. PICK o \in Seq(Invocations) : o = Only(s, set)
  BY OnlyType
<1>6. o \o <<i>> = Append(o, i) /\ o \o <<>> = o
  BY ConcatEmptySeq
<1> QED BY <1>1, <1>2, <1>3, <1>4, <1>5, <1>6, OnlyIsMapped

\* To take some of some is to take those that are of both.
LEMMA OnlyOnly ==
  ASSUME NEW a, NEW b
  PROVE  \A s \in Seq(Invocations) : Only(Only(s, a), b) = Only(s, a \cap b)
<1> DEFINE F == {s \in Seq(Invocations) : Only(Only(s, a), b) = Only(s, a \cap b)}
<1>1. <<>> \in F
  BY OnlyEmpty, EmptySeq
<1>2. ASSUME NEW s \in Seq(Invocations), NEW i \in Invocations, s \in F
      PROVE  Append(s, i) \in F
  <2>1. /\ Append(s, i) \in Seq(Invocations) /\ Only(s, a) \in Seq(Invocations)
        /\ Only(Only(s, a), b) = Only(s, a \cap b)
    BY <1>2, OnlyType, AppendProperties
  <2>2. CASE i \in a
    <3>1. Only(Append(s, i), a) = Append(Only(s, a), i)
      BY <2>2, OnlyAppend
    <3>2. /\ i \in b => Only(Append(Only(s, a), i), b) = Append(Only(Only(s, a), b), i)
          /\ i \notin b => Only(Append(Only(s, a), i), b) = Only(Only(s, a), b)
      BY <2>1, OnlyAppend
    <3>3. /\ i \in b => Only(Append(s, i), a \cap b) = Append(Only(s, a \cap b), i)
          /\ i \notin b => Only(Append(s, i), a \cap b) = Only(s, a \cap b)
      BY <2>2, OnlyAppend
    <3> QED BY <2>1, <3>1, <3>2, <3>3
  <2>3. CASE i \notin a
    <3>1. Only(Append(s, i), a) = Only(s, a)
      BY <2>3, OnlyAppend
    <3>2. Only(Append(s, i), a \cap b) = Only(s, a \cap b)
      BY <2>3, OnlyAppend
    <3> QED BY <2>1, <3>1, <3>2
  <2> QED BY <2>2, <2>3
<1>3. Seq(Invocations) \subseteq F
  <2> HIDE DEF F
  <2> QED BY <1>1, <1>2, EverySequence
<1> QED BY <1>3

\* The last of those in set is the last element in set.
LEMMA OnlyLast ==
  ASSUME NEW set
  PROVE  \A s \in Seq(Invocations) :
           IF Only(s, set) = <<>>
           THEN \A n \in 1 .. Len(s) : s[n] \notin set
           ELSE \E n \in 1 .. Len(s) :
                  /\ s[n] \in set /\ Last(Only(s, set)) = s[n]
                  /\ \A m \in 1 .. Len(s) : s[m] \in set => m <= n
<1> DEFINE Latest(s) == \E n \in 1 .. Len(s) :
                          /\ s[n] \in set /\ Last(Only(s, set)) = s[n]
                          /\ \A m \in 1 .. Len(s) : s[m] \in set => m <= n
           None(s) == \A n \in 1 .. Len(s) : s[n] \notin set
           F == {s \in Seq(Invocations) :
                   IF Only(s, set) = <<>> THEN None(s) ELSE Latest(s)}
<1>1. <<>> \in F
  BY OnlyEmpty, EmptySeq
<1>2. ASSUME NEW s \in Seq(Invocations), NEW i \in Invocations, s \in F
      PROVE  Append(s, i) \in F
  <2>1. PICK t \in Seq(Invocations) : t = Append(s, i)
    BY AppendProperties
  <2>2. /\ Len(t) = Len(s) + 1 /\ Len(s) \in Nat
        /\ t[Len(s) + 1] = i
        /\ \A m \in 1 .. Len(s) : t[m] = s[m]
    BY <2>1
  <2>3. CASE i \in set
    <3>1. PICK o \in Seq(Invocations) : o = Only(s, set)
      BY OnlyType
    <3>2. Only(t, set) = Append(o, i)
      BY <2>1, <2>3, <3>1, OnlyAppend
    <3>3. Append(o, i) # <<>> /\ Last(Append(o, i)) = i
      BY DEF Last
    <3>4. Latest(t)
      <4>1. /\ Len(s) + 1 \in 1 .. Len(t)
            /\ t[Len(s) + 1] \in set /\ Last(Only(t, set)) = t[Len(s) + 1]
            /\ \A m \in 1 .. Len(t) : m <= Len(s) + 1
        BY <2>2, <2>3, <3>2, <3>3
      <4> QED BY <4>1
    <3> HIDE DEF Latest, None
    <3> QED BY <2>1, <3>2, <3>3, <3>4
  <2>4. CASE i \notin set
    <3>1. Only(t, set) = Only(s, set)
      BY <2>1, <2>4, OnlyAppend
    <3>2. \A m \in 1 .. Len(t) : t[m] \in set => m \in 1 .. Len(s) /\ s[m] \in set
      BY <2>2, <2>4
    <3>3. None(s) => None(t)
      BY <3>2
    <3>4. Latest(s) => Latest(t)
      <4> SUFFICES ASSUME NEW n \in 1 .. Len(s),
                          s[n] \in set, Last(Only(s, set)) = s[n],
                          \A m \in 1 .. Len(s) : s[m] \in set => m <= n
                   PROVE  Latest(t)
        OBVIOUS
      <4>1. /\ n \in 1 .. Len(t) /\ t[n] = s[n]
            /\ \A m \in 1 .. Len(t) : t[m] \in set => m <= n
        BY <2>2, <3>2
      <4> QED BY <3>1, <4>1
    <3> HIDE DEF Latest, None
    <3> QED BY <1>2, <2>1, <3>1, <3>3, <3>4
  <2> QED BY <2>3, <2>4
<1>3. Seq(Invocations) \subseteq F
  <2> HIDE DEF F
  <2> QED BY <1>1, <1>2, EverySequence
<1> QED BY <1>3

\* Where each is once, those in set are as many as they are.
LEMMA OnlyCounts ==
  ASSUME NEW set
  PROVE  \A s \in Seq(Invocations) :
           (\A m, n \in 1 .. Len(s) : s[m] = s[n] => m = n) =>
             LET found == {i \in Invocations \cap set : \E n \in 1 .. Len(s) : s[n] = i}
             IN  IsFiniteSet(found) /\ Len(Only(s, set)) = Cardinality(found)
<1> DEFINE Once(s) == \A m, n \in 1 .. Len(s) : s[m] = s[n] => m = n
           In(s) == {i \in Invocations \cap set : \E n \in 1 .. Len(s) : s[n] = i}
           Counted(s) == IsFiniteSet(In(s)) /\ Len(Only(s, set)) = Cardinality(In(s))
           F == {s \in Seq(Invocations) : Once(s) => Counted(s)}
<1>1. <<>> \in F
  <2>1. In(<<>>) = {}
    OBVIOUS
  <2>2. Len(Only(<<>>, set)) = 0
    BY OnlyEmpty
  <2> HIDE DEF In, Once
  <2> QED BY <2>1, <2>2, FS_EmptySet, EmptySeq
<1>2. ASSUME NEW s \in Seq(Invocations), NEW i \in Invocations, s \in F
      PROVE  Append(s, i) \in F
  <2>1. PICK t \in Seq(Invocations) : t = Append(s, i)
    BY AppendProperties
  <2>2. /\ Len(t) = Len(s) + 1 /\ Len(s) \in Nat
        /\ t[Len(s) + 1] = i
        /\ \A m \in 1 .. Len(s) : t[m] = s[m]
    BY <2>1
  <2>3. ASSUME Once(t) PROVE Counted(t)
    <3>1. Once(s) /\ \A n \in 1 .. Len(s) : s[n] # i
      <4>1. ASSUME NEW m \in 1 .. Len(s), NEW n \in 1 .. Len(s), s[m] = s[n]
            PROVE  m = n
        BY <2>2, <2>3, <4>1
      <4>2. ASSUME NEW n \in 1 .. Len(s) PROVE s[n] # i
        BY <2>2, <2>3
      <4> QED BY <4>1, <4>2
    <3>2. PICK o \in Seq(Invocations) : o = Only(s, set)
      BY OnlyType
    <3>3. IsFiniteSet(In(s)) /\ Len(o) = Cardinality(In(s))
      BY <1>2, <3>1, <3>2
    <3>4. \A j \in Invocations :
            (\E n \in 1 .. Len(t) : t[n] = j) <=>
              j = i \/ \E n \in 1 .. Len(s) : s[n] = j
      <4>1. ASSUME NEW n \in 1 .. Len(t)
            PROVE  t[n] = i \/ \E m \in 1 .. Len(s) : s[m] = t[n]
        BY <2>2
      <4>2. ASSUME NEW n \in 1 .. Len(s)
            PROVE  \E m \in 1 .. Len(t) : t[m] = s[n]
        <5>1. n \in 1 .. Len(t)
          BY <2>2
        <5> QED BY <2>2, <5>1
      <4>3. \E n \in 1 .. Len(t) : t[n] = i
        BY <2>2
      <4> QED BY <4>1, <4>2, <4>3
    <3>5. CASE i \in set
      <4>1. In(t) = In(s) \cup {i} /\ i \notin In(s)
        BY <3>1, <3>4, <3>5, ZenonT(40)
      <4>2. Len(Only(t, set)) = Len(o) + 1
        BY <2>1, <3>2, <3>5, OnlyAppend
      <4> HIDE DEF In
      <4> QED BY <3>3, <4>1, <4>2, FS_AddElement
    <3>6. CASE i \notin set
      <4>1. In(t) = In(s)
        BY <3>4, <3>6
      <4>2. Only(t, set) = o
        BY <2>1, <3>2, <3>6, OnlyAppend
      <4> HIDE DEF In
      <4> QED BY <3>3, <4>1, <4>2
    <3> QED BY <3>5, <3>6
  <2> HIDE DEF Once, Counted
  <2> QED BY <2>1, <2>3
<1>3. Seq(Invocations) \subseteq F
  <2> HIDE DEF F
  <2> QED BY <1>1, <1>2, EverySequence
<1> QED BY <1>3


\* A record is read at its first byte.
Headed == [x \in AllCells |-> IF x[2] = 1 THEN <<x[1]>> ELSE <<>>]

LEMMA HeadedType == Headed \in [AllCells -> Seq(Invocations)]
<1>1. \A x \in AllCells : x[1] \in Invocations
  <2> SUFFICES ASSUME NEW x \in AllCells PROVE x[1] \in Invocations
    OBVIOUS
  <2>1. PICK i \in Invocations : \E k \in 1 .. Size(i) : x = <<i, k>>
    BY Zenon DEF AllCells
  <2> QED BY <2>1
<1>2. \A x \in AllCells : <<x[1]>> \in Seq(Invocations) /\ <<>> \in Seq(Invocations)
  BY <1>1, EmptySeq
<1> QED BY <1>2 DEF Headed

LEMMA HeadBytes ==
  ASSUME NEW c \in Seq(AllCells), NEW i \in Invocations
  PROVE  Mapped(c \o Bytes(i), Headed) = Append(Mapped(c, Headed), i)
<1>1. PICK g \in [AllCells -> Seq(Invocations)] : g = Headed
  BY HeadedType
<1>2. PICK m \in Seq(Invocations) : m = Mapped(c, g)
  BY MappedType
<1>3. Size(i) \in {1, 2} /\ \A k \in 1 .. Size(i) : <<i, k>> \in AllCells
  BY BytesType
<1>4. \A x \in AllCells : g[x] = IF x[2] = 1 THEN <<x[1]>> ELSE <<>>
  BY <1>1 DEF Headed
<1>5. m \o <<i>> = Append(m, i) /\ Append(m, i) \in Seq(Invocations)
  BY AppendProperties
<1>6. CASE Size(i) = 1
  <2>1. PICK x \in AllCells : x = <<i, 1>>
    BY <1>3, <1>6
  <2>2. Bytes(i) = <<x>> /\ g[x] = <<i>>
    <3>1. Bytes(i) = <<x>>
      BY <1>6, <2>1 DEF Bytes
    <3>2. x[1] = i /\ x[2] = 1
      BY <2>1
    <3>3. g[x] = <<i>>
      BY <1>4, <3>2, Zenon
    <3> QED BY <3>1, <3>3
  <2>3. c \o <<x>> = Append(c, x)
    OBVIOUS
  <2>4. Mapped(Append(c, x), g) = m \o g[x]
    BY <1>2, MappedAppend
  <2> QED BY <1>1, <1>2, <1>5, <2>2, <2>3, <2>4
<1>7. CASE Size(i) = 2
  <2>1. PICK x \in AllCells, y \in AllCells : x = <<i, 1>> /\ y = <<i, 2>>
    BY <1>3, <1>7
  <2>2. Bytes(i) = <<x, y>> /\ g[x] = <<i>> /\ g[y] = <<>>
    <3>1. Bytes(i) = <<x, y>>
      BY <1>7, <2>1 DEF Bytes
    <3>2. x[1] = i /\ x[2] = 1 /\ y[2] # 1
      BY <2>1
    <3>3. g[x] = <<i>> /\ g[y] = <<>>
      BY <1>4, <3>2, Zenon
    <3> QED BY <3>1, <3>3
  <2>3. PICK d \in Seq(AllCells) : d = Append(c, x)
    BY AppendProperties
  <2>4. c \o <<x, y>> = Append(d, y)
    BY <2>3, AppendTwo
  <2>5. Mapped(Append(d, y), g) = (m \o g[x]) \o g[y]
    <3>1. Mapped(d, g) = m \o g[x]
      BY <1>2, <2>3, MappedAppend
    <3>2. Mapped(Append(d, y), g) = Mapped(d, g) \o g[y]
      BY MappedAppend
    <3> QED BY <3>1, <3>2
  <2>6. Append(m, i) \o <<>> = Append(m, i)
    BY <1>5, ConcatEmptySeq
  <2> QED BY <1>1, <1>2, <1>5, <2>2, <2>4, <2>5, <2>6
<1> QED BY <1>3, <1>6, <1>7

LEMMA HeadLines ==
  ASSUME NEW set
  PROVE  \A s \in Seq(Invocations) :
           Mapped(Lines(s, set), Headed) = Only(s, Invocations \ set)
<1> DEFINE F == {s \in Seq(Invocations) :
                   Mapped(Lines(s, set), Headed) = Only(s, Invocations \ set)}
<1>1. <<>> \in F
  BY LinesEmpty, OnlyEmpty, MappedEmpty, EmptySeq
<1>2. ASSUME NEW s \in Seq(Invocations), NEW i \in Invocations, s \in F
      PROVE  Append(s, i) \in F
  <2>1. /\ Append(s, i) \in Seq(Invocations) /\ Lines(s, set) \in Seq(AllCells)
        /\ Mapped(Lines(s, set), Headed) = Only(s, Invocations \ set)
    BY <1>2, LinesType, AppendProperties
  <2>2. CASE i \in set
    BY <2>1, <2>2, LinesAppend, OnlyAppend
  <2>3. CASE i \notin set
    <3>1. Lines(Append(s, i), set) = Lines(s, set) \o Bytes(i)
      BY <2>3, LinesAppend
    <3>2. Mapped(Lines(s, set) \o Bytes(i), Headed) =
            Append(Mapped(Lines(s, set), Headed), i)
      BY <2>1, HeadBytes
    <3>3. Only(Append(s, i), Invocations \ set) = Append(Only(s, Invocations \ set), i)
      BY <2>3, OnlyAppend
    <3> QED BY <2>1, <3>1, <3>2, <3>3
  <2> QED BY <2>2, <2>3
<1>3. Seq(Invocations) \subseteq F
  <2> HIDE DEF F
  <2> QED BY <1>1, <1>2, EverySequence
<1> QED BY <1>3

\* Of an exact file, `read` returns what was appended and not dropped.
LEMMA FoundIsKept ==
  ASSUME TypeOK, Content = Lines(appended, dropped)
  PROVE  Found = Only(appended, Invocations \ dropped)
<1>1. PICK c \in Seq(AllCells) : c = Content /\ c = Lines(appended, dropped)
  BY ContentType
<1>2. InLines(c)
  BY <1>1, LinesInLines DEF TypeOK
<1>3. ASSUME NEW n \in 1 .. Len(c)
      PROVE  (IF WholeAt(c, c[n][1], n) THEN <<c[n][1]>> ELSE <<>>) = Headed[c[n]]
  <2>1. PICK i \in Invocations : i = c[n][1] /\ c[n] = <<i, c[n][2]>>
    BY CellType
  <2>2. WholeAt(c, i, n) <=> c[n] = <<i, 1>>
    BY <1>2, WholeAtHead
  <2>3. c[n] = <<i, 1>> <=> c[n][2] = 1
    BY <2>1
  <2>4. Headed[c[n]] = IF c[n][2] = 1 THEN <<c[n][1]>> ELSE <<>>
    BY DEF Headed
  <2> QED BY <2>1, <2>2, <2>3, <2>4, Zenon
<1>4. [n \in 1 .. Len(c) |->
         LET i == c[n][1] IN IF WholeAt(c, i, n) THEN <<i>> ELSE <<>>] =
      [n \in 1 .. Len(c) |-> Headed[c[n]]]
  BY <1>3, Zenon
<1>5. Found = Mapped(c, Headed)
  BY <1>1, <1>4, Zenon DEF Found, Mapped
<1> QED BY <1>1, <1>5, HeadLines DEF TypeOK

\* When no prune raced and none is under way.
LEMMA CalmFile ==
  ASSUME TypeOK, AppendedInv, SerialInv, Calm
  PROVE  /\ Found = Only(appended, Invocations \ dropped)
         /\ \A set \in SUBSET Invocations :
              Only(Found, set) = Only(appended, set \ dropped)
<1>1. Content = Lines(appended, dropped)
  BY DEF SerialInv, Calm
<1>2. Found = Only(appended, Invocations \ dropped)
  BY <1>1, FoundIsKept
<1>3. ASSUME NEW set \in SUBSET Invocations
      PROVE  Only(Found, set) = Only(appended, set \ dropped)
  <2>1. (Invocations \ dropped) \cap set = set \ dropped
    OBVIOUS
  <2> QED BY <1>2, <2>1, OnlyOnly DEF TypeOK
<1> QED BY <1>2, <1>3

LEMMA KeptIs ==
  ASSUME TypeOK
  PROVE  \A i : i \in Kept <=>
           i \in Invocations \ dropped /\ \E n \in 1 .. Len(appended) : appended[n] = i
BY DEF Kept, Range, TypeOK

\* The newest of a backend is the last that was appended of those kept.
LEMMA NewestIsLast ==
  ASSUME TypeOK, AppendedInv, SerialInv, Calm, NEW b
  PROVE  /\ Newest(b) = Nothing => \A i \in Kept : Backend(i) # b
         /\ Newest(b) # Nothing =>
              /\ Newest(b) \in Kept /\ Backend(Newest(b)) = b
              /\ \E n \in 1 .. Len(appended) :
                   /\ appended[n] = Newest(b)
                   /\ \A m \in 1 .. Len(appended) :
                        appended[m] \in Kept /\ Backend(appended[m]) = b => m <= n
<1> DEFINE set == On(b) \ dropped
<1>1. Only(Found, On(b)) = Only(appended, set)
  BY CalmFile DEF On
<1>2. appended \in Seq(Invocations)
  BY DEF TypeOK
<1>3. \A i \in Invocations : i \in set <=> Backend(i) = b /\ i \notin dropped
  BY DEF On
<1> HIDE DEF set
<1>4. CASE Only(appended, set) = <<>>
  <2>1. \A n \in 1 .. Len(appended) : appended[n] \notin set
    BY <1>2, <1>4, OnlyLast
  <2>2. Newest(b) = Nothing
    BY <1>1, <1>4 DEF Newest
  <2> QED BY <1>3, <2>1, <2>2, KeptIs
<1>5. CASE Only(appended, set) # <<>>
  <2>1. PICK n \in 1 .. Len(appended) :
          /\ appended[n] \in set /\ Last(Only(appended, set)) = appended[n]
          /\ \A m \in 1 .. Len(appended) : appended[m] \in set => m <= n
    BY <1>2, <1>5, OnlyLast
  <2>2. appended[n] \in Invocations
    BY <1>2
  <2>3. Newest(b) = appended[n]
    BY <1>1, <1>5, <2>1 DEF Newest
  <2>4. appended[n] # Nothing
    BY <2>2, HistoryAssumption
  <2>5. appended[n] \in Kept /\ Backend(appended[n]) = b
    BY <1>3, <2>1, <2>2, KeptIs
  <2>6. \A m \in 1 .. Len(appended) :
          appended[m] \in Kept /\ Backend(appended[m]) = b => m <= n
    BY <1>3, <2>1, KeptIs
  <2> QED BY <2>3, <2>4, <2>5, <2>6
<1> QED BY <1>4, <1>5


-----------------------------------------------------------------------------
(* The row of the panel.                                                   *)

\* The setting of a panel is one of Settings, and the panel takes no step of the
\* history's.
LEMMA PanelRefines == PanelSpec => Spec
<1>1. PanelInit => Init
  BY DEF PanelInit
<1>2. [PanelNext]_panelVars => [Next]_vars
  <2>1. PanelNext => Next
    BY Zenon DEF PanelNext
  <2>2. UNCHANGED panelVars => UNCHANGED vars
    BY DEF panelVars
  <2> QED BY <2>1, <2>2
<1> QED BY <1>1, <1>2, PTL DEF PanelSpec, Spec

LEMMA SettingStays == PanelSpec => [](about \in Settings)
<1>1. PanelInit => about \in Settings
  BY DEF PanelInit
<1>2. about \in Settings /\ [PanelNext]_panelVars => (about \in Settings)'
  BY DEF PanelNext, panelVars
<1> QED BY <1>1, <1>2, PTL DEF PanelSpec

LEMMA SettingType ==
  ASSUME about \in Settings, NEW i \in Invocations
  PROVE  Backend(i) \in {Docker, CoWork} /\ Outcome(i) \in {"pass", "fail", "declared"}
<1>1. PICK of \in [Invocations -> [backend : {Docker, CoWork},
                                   outcome : {"pass", "fail", "declared"}]] :
        of = about.of
  BY PanelAssumption
<1>2. of[i] \in [backend : {Docker, CoWork}, outcome : {"pass", "fail", "declared"}]
  BY <1>1
<1> QED BY <1>1, <1>2 DEF Backend, Outcome

\* The row is of the newest record of its backend, and there is one when any is kept.
LEMMA MostRecentIs ==
  ASSUME TypeOK, AppendedInv, SerialInv, Calm, about \in Settings
  PROVE  /\ MostRecent = Nothing <=> Kept = {}
         /\ MostRecent # Nothing =>
              /\ MostRecent \in Kept
              /\ MostRecent = Newest(Backend(MostRecent))
<1>1. PICK d, c : d = Newest(Docker) /\ c = Newest(CoWork)
  OBVIOUS
<1>2. /\ d = Nothing => \A i \in Kept : Backend(i) # Docker
      /\ d # Nothing => d \in Kept /\ Backend(d) = Docker
  BY <1>1, NewestIsLast
<1>3. /\ c = Nothing => \A i \in Kept : Backend(i) # CoWork
      /\ c # Nothing => c \in Kept /\ Backend(c) = CoWork
  BY <1>1, NewestIsLast
<1>4. \A i \in Kept : Backend(i) \in {Docker, CoWork}
  BY SettingType, KeptIs
<1>5. /\ d = Nothing => MostRecent = c
      /\ c = Nothing => MostRecent = d
      /\ MostRecent \in {d, c}
      /\ d # Nothing => MostRecent # Nothing
  BY <1>1 DEF MostRecent
<1> QED BY <1>1, <1>2, <1>3, <1>4, <1>5

LEMMA NewestType ==
  ASSUME TypeOK, AppendedInv, SerialInv, Calm, NEW b
  PROVE  Newest(b) \in Invocations \cup {Nothing}
BY NewestIsLast, KeptIs

LEMMA FlakeType ==
  ASSUME TypeOK, AppendedInv, SerialInv, Calm, NEW b
  PROVE  Flake(b) \in Nat \X Nat
<1>1. \A set : Only(appended, set) \in Seq(Invocations)
  BY OnlyType DEF TypeOK
<1>2. \A set : Len(Only(appended, set)) \in Nat
  BY <1>1
<1>3. \A set \in SUBSET Invocations : Len(Only(Found, set)) \in Nat
  BY <1>2, CalmFile
<1>4. PICK ran \in SUBSET Invocations, passed \in SUBSET Invocations :
        Flake(b) = <<Len(Only(Found, passed)), Len(Only(Found, ran))>>
  BY DEF Flake, On
<1> QED BY <1>3, <1>4

\* A row that there is is a row, and so no row is none.
LEMMA RowType ==
  ASSUME TypeOK, AppendedInv, SerialInv, Calm, about \in Settings,
         ~(version = Nothing /\ MostRecent = Nothing)
  PROVE  /\ Row # Nothing
         /\ MostRecent # Nothing => Row.flake = Flake(Backend(MostRecent))
         /\ MostRecent # Nothing => (Row.stale <=> Stale(MostRecent))
<1>1. PICK r : r = MostRecent
  OBVIOUS
<1>2. r \in Invocations \cup {Nothing}
  BY <1>1, MostRecentIs, KeptIs
<1>3. PICK cs : cs = [b \in {Docker, CoWork} |-> Cell(b)]
  OBVIOUS
<1>4. cs \in [{Docker, CoWork} -> {"pass", "fail", "declared", "never run"}]
  <2>1. ASSUME NEW b
        PROVE  Cell(b) \in {"pass", "fail", "declared", "never run"}
    <3>1. Newest(b) # Nothing => Outcome(Newest(b)) \in {"pass", "fail", "declared"}
      BY NewestType, SettingType
    <3> QED BY <3>1 DEF Cell
  <2> QED BY <1>3, <2>1
<1>5. PICK fl : fl = IF r = Nothing THEN <<0, 0>> ELSE Flake(Backend(r))
  OBVIOUS
<1>6. fl \in Nat \X Nat
  BY <1>5, FlakeType
<1>7. PICK st \in BOOLEAN : st = (r # Nothing /\ Stale(r))
  OBVIOUS
<1>8. PICK rm \in BOOLEAN : rm = (version = Nothing)
  OBVIOUS
<1>9. Row = [cells |-> cs, record |-> r, removed |-> rm, flake |-> fl, stale |-> st]
  BY <1>1, <1>3, <1>5, <1>7, <1>8, Zenon DEF Row
<1>10. Row \in Rows
  BY <1>2, <1>4, <1>6, <1>9 DEF Rows
<1>11. Row # Nothing
  BY <1>10, PanelAssumption
<1>12. Row.flake = fl /\ Row.stale = st
  BY <1>9
<1> QED BY <1>1, <1>5, <1>7, <1>11, <1>12


LEMMA RowCounts ==
  TypeOK /\ AppendedInv /\ SerialInv /\ about \in Settings => RowCountsEveryRecord
<1> SUFFICES ASSUME TypeOK, AppendedInv, SerialInv, about \in Settings, Calm
             PROVE  RowCountsEveryRecord
  BY DEF RowCountsEveryRecord
<1>1. PICK r : r = MostRecent
  OBVIOUS
<1>2. /\ r = Nothing <=> Kept = {}
      /\ r # Nothing => r \in Kept /\ r = Newest(Backend(r))
  BY <1>1, MostRecentIs
<1>3. Row = Nothing <=> version = Nothing /\ Kept = {}
  <2>1. Kept = {} /\ version = Nothing => Row = Nothing
    BY <1>1, <1>2 DEF Row
  <2> QED BY <1>1, <1>2, <2>1, RowType
<1>4. (Row = Nothing) = (version = Nothing /\ Kept = {}) /\ (r = Nothing) = (Kept = {})
  BY <1>2, <1>3, Zenon
<1>5. ASSUME NEW b \in {Docker, CoWork}, Cell(b) = "never run"
      PROVE  \A i \in Kept : Backend(i) # b
  <2>1. Newest(b) = Nothing
    <3>1. Newest(b) # Nothing => Outcome(Newest(b)) \in {"pass", "fail", "declared"}
      BY NewestType, SettingType
    <3>2. Newest(b) # Nothing => Cell(b) \in {"declared", Outcome(Newest(b))}
      BY Zenon DEF Cell
    <3> QED BY <1>5, <3>1, <3>2
  <2> QED BY <2>1, NewestIsLast
<1>6. DOMAIN appended = 1 .. Len(appended)
  BY DEF TypeOK
<1>7. ASSUME r # Nothing, NEW i \in Kept, Backend(i) = Backend(r)
      PROVE  \E m, n \in DOMAIN appended :
               appended[m] = i /\ appended[n] = r /\ m <= n
  <2>1. PICK n \in 1 .. Len(appended) :
          /\ appended[n] = r
          /\ \A m \in 1 .. Len(appended) :
               appended[m] \in Kept /\ Backend(appended[m]) = Backend(r) => m <= n
    <3>1. PICK b : b = Backend(r)
      OBVIOUS
    <3> QED BY <1>2, <1>7, <3>1, NewestIsLast
  <2>2. PICK m \in 1 .. Len(appended) : appended[m] = i
    BY <1>7, KeptIs
  <2>3. m <= n
    BY <1>7, <2>1, <2>2
  <2> QED BY <1>6, <2>1, <2>2, <2>3
<1>8. ASSUME r # Nothing
      PROVE  Row.flake[2] = Cardinality({i \in Kept :
               Backend(i) = Backend(r) /\ Outcome(i) # "declared"})
  <2>1. PICK ran : ran = {i \in On(Backend(r)) : Outcome(i) # "declared"}
    OBVIOUS
  <2>2. Row.flake[2] = Len(Only(Found, ran))
    <3>1. Row.flake = Flake(Backend(r))
      BY <1>1, <1>8, RowType
    <3> QED BY <2>1, <3>1 DEF Flake
  <2>3. ran \subseteq Invocations
    BY <2>1 DEF On
  <2>4. Only(Found, ran) = Only(appended, ran \ dropped)
    BY <2>3, CalmFile
  <2>5. PICK found : found = {i \in Invocations \cap (ran \ dropped) :
                                \E n \in 1 .. Len(appended) : appended[n] = i}
    OBVIOUS
  <2>6. Len(Only(appended, ran \ dropped)) = Cardinality(found)
    BY <1>6, <2>5, OnlyCounts, ZenonT(40) DEF AppendedInv, TypeOK
  <2>7. found = {i \in Kept : Backend(i) = Backend(r) /\ Outcome(i) # "declared"}
    <3>1. \A i : i \in ran <=>
            i \in Invocations /\ Backend(i) = Backend(r) /\ Outcome(i) # "declared"
      BY <2>1 DEF On
    <3> QED BY <2>5, <3>1, KeptIs
  <2> QED BY <2>2, <2>4, <2>6, <2>7
<1> QED
  BY <1>1, <1>4, <1>5, <1>7, <1>8, Zenon DEF RowCountsEveryRecord

\* As long as no prune raced with an append, a row is of all the records that were
\* appended and not dropped, for any number of invocations and prunes: `rows` shows
\* a case exactly when it is in the tree or has a record, and `_flake` counts each
\* record of the row's backend once.
THEOREM RowsAreComplete == PanelSpec => []RowCountsEveryRecord
<1> QED BY PanelRefines, SettingStays, PathsHold, SerialHolds, RowCounts, PTL


-----------------------------------------------------------------------------
(* The order of the file and the order of the runs.                        *)

\* Of two records of one backend, i began no later than j.
NotAfter(i, j) ==
  Backend(i) = Backend(j) /\ inv[i].stamp # Nothing /\ inv[j].stamp # Nothing =>
    inv[i].stamp <= inv[j].stamp

\* A case that is under way writes after those that wrote, and it began after they
\* ended, as long as none overlapped another on its backend.
StampInv ==
  /\ \A i \in Invocations : inv[i].stamp # Nothing => inv[i].stamp <= day
  /\ ~overlapped =>
       /\ \A i, j \in Invocations :
            i # j /\ Backend(i) = Backend(j) => ~(UnderWay(i) /\ UnderWay(j))
       /\ \A n \in 1 .. Len(appended) :
            /\ \A i \in Invocations : UnderWay(i) => NotAfter(appended[n], i)
            /\ \A m \in 1 .. n : NotAfter(appended[m], appended[n])

LEMMA InitStamp == PanelInit => StampInv
<1> SUFFICES ASSUME PanelInit PROVE StampInv
  OBVIOUS
<1>1. \A i \in Invocations : inv[i].stamp = Nothing /\ ~UnderWay(i)
  BY DEF PanelInit, Init, UnderWay
<1>2. appended = <<>>
  BY DEF PanelInit, Init
<1> QED BY <1>1, <1>2 DEF StampInv

LEMMA StampType ==
  TypeOK => \A i \in Invocations : inv[i].stamp \in Nat \cup {Nothing}
BY HistoryAssumption DEF TypeOK, InvStates

\* What StampInv says of the next state, when no two overlapped up to it.
LEMMA NextOverlap ==
  ASSUME PanelNext, ~overlapped'
  PROVE  /\ ~overlapped
         /\ \A i, j \in Invocations :
              i # j /\ Backend(i)' = Backend(j)' => ~(UnderWay(i)' /\ UnderWay(j)')
         /\ \A i \in Invocations : Backend(i)' = Backend(i)
<1>1. about' = about
  BY DEF PanelNext
<1>2. \A i \in Invocations : Backend(i)' = Backend(i)
  BY <1>1 DEF Backend
<1>3. ~(overlapped \/ \E i, j \in Invocations :
          i # j /\ Backend(i) = Backend(j) /\ UnderWay(i)' /\ UnderWay(j)')
  BY Zenon DEF PanelNext
<1> QED BY <1>2, <1>3

\* The stamps do not go down as an invocation moves.
LEMMA InvocationStamp ==
  ASSUME TypeOK, TypeOK', AppendedInv, StampInv, PanelNext, NEW i \in Invocations, Invocation(i)
  PROVE  StampInv'
<1>1. /\ \A j \in Invocations \ {i} : inv'[j] = inv[j]
      /\ ~Begin(i) => inv'[i].stamp = inv[i].stamp
      /\ Begin(i) => inv'[i].stamp \in {day, Nothing} /\ inv[i].pc = "new"
      /\ ~Begin(i) => inv[i].pc \notin {"new", "done", "failed"}
      /\ inv[i].pc # "done"
      /\ day' = day
  BY InvocationMoves DEF Invocation, InvMoved, Begin, Record, MakeParents, Open,
                         OpenFails, Lock, Write
<1>2. day \in Nat /\ \A j \in Invocations :
        /\ inv[j].stamp \in Nat \cup {Nothing}
        /\ inv'[j].stamp \in Nat \cup {Nothing}
  BY StampType, HistoryAssumption, SMTT(30) DEF TypeOK, InvStates
<1>3. \A j \in Invocations : inv'[j].stamp # Nothing => inv'[j].stamp <= day'
  BY <1>1, <1>2 DEF StampInv
<1>4. /\ Len(appended) \in Nat /\ Len(appended') \in Nat
      /\ \A n \in 1 .. Len(appended) :
           /\ appended[n] \in Invocations /\ appended[n] # i
           /\ ~UnderWay(appended[n])
  BY <1>1 DEF AppendedInv, UnderWay, TypeOK
<1>5. ASSUME ~overlapped', NEW n \in 1 .. Len(appended), NEW j \in Invocations,
             UnderWay(j)', NEW a \in Invocations, a = appended[n]
      PROVE  NotAfter(a, j)'
  <2>1. inv'[a] = inv[a]
    BY <1>1, <1>4, <1>5
  <2>2. Backend(a)' = Backend(a) /\ Backend(j)' = Backend(j) /\ ~overlapped
    BY <1>5, NextOverlap
  <2>3. CASE j = i /\ Begin(i)
    <3>1. inv[a].stamp # Nothing => inv[a].stamp <= day
      BY DEF StampInv
    <3>2. inv'[j].stamp \in {day, Nothing}
      BY <1>1, <2>3
    <3> QED BY <2>1, <3>1, <3>2 DEF NotAfter
  <2>4. CASE ~(j = i /\ Begin(i))
    <3>1. UnderWay(j) /\ inv'[j].stamp = inv[j].stamp
      BY <1>1, <1>5, <2>4 DEF UnderWay
    <3>2. NotAfter(a, j)
      BY <1>5, <2>2, <3>1 DEF StampInv
    <3> QED BY <2>1, <2>2, <3>1, <3>2 DEF NotAfter
  <2> QED BY <2>3, <2>4

<1>6. ASSUME ~overlapped', NEW n \in 1 .. Len(appended), NEW m \in 1 .. n,
             NEW a \in Invocations, a = appended[n], NEW b \in Invocations,
             b = appended[m]
      PROVE  NotAfter(b, a)'
  <2>1. m \in 1 .. Len(appended)
    BY <1>4
  <2>2. inv'[a] = inv[a] /\ inv'[b] = inv[b]
    BY <1>1, <1>4, <1>6, <2>1
  <2>3. Backend(a)' = Backend(a) /\ Backend(b)' = Backend(b) /\ ~overlapped
    BY <1>6, NextOverlap
  <2>4. NotAfter(b, a)
    BY <1>6, <2>3 DEF StampInv
  <2> QED BY <2>2, <2>3, <2>4 DEF NotAfter
<1>7. CASE ~Write(i)
  <2>1. appended' = appended
    BY <1>7 DEF Invocation, Begin, Record, MakeParents, Open, OpenFails, Lock
  <2>2. ASSUME ~overlapped', NEW n \in 1 .. Len(appended')
        PROVE  /\ \A j \in Invocations : UnderWay(j)' => NotAfter(appended[n], j)'
               /\ \A m \in 1 .. n : NotAfter(appended[m], appended[n])'
    <3>1. PICK a \in Invocations : a = appended[n] /\ a = appended'[n]
      BY <1>4, <2>1, <2>2
    <3>2. \A j \in Invocations : UnderWay(j)' => NotAfter(a, j)'
      BY <1>5, <2>1, <2>2, <3>1
    <3>3. ASSUME NEW m \in 1 .. n PROVE NotAfter(appended[m], appended[n])'
      <4>1. PICK b \in Invocations : b = appended[m] /\ b = appended'[m]
        BY <1>4, <2>1, <2>2
      <4>2. NotAfter(b, a)'
        BY <1>6, <2>1, <2>2, <3>1, <4>1
      <4> QED BY <3>1, <4>1, <4>2 DEF NotAfter, Backend
    <3> QED BY <3>1, <3>2, <3>3 DEF NotAfter, Backend
  <2> QED BY <1>3, <2>2, NextOverlap DEF StampInv
<1>8. CASE Write(i)
  <2>1. /\ appended' = Append(appended, i) /\ ~UnderWay(i)'
        /\ UnderWay(i)
    BY <1>8, InvocationMoves DEF Write, InvMoved, UnderWay
  <2>2. /\ Len(appended') = Len(appended) + 1
        /\ appended'[Len(appended) + 1] = i
        /\ \A n \in 1 .. Len(appended) : appended'[n] = appended[n]
    BY <2>1 DEF TypeOK
  <2>3. ASSUME ~overlapped', NEW n \in 1 .. Len(appended')
        PROVE  /\ \A j \in Invocations : UnderWay(j)' => NotAfter(appended[n], j)'
               /\ \A m \in 1 .. n : NotAfter(appended[m], appended[n])'
    <3>1. \A m \in 1 .. Len(appended) : NotAfter(appended[m], i)
      BY <2>1, <2>3, NextOverlap DEF StampInv
    <3>2. ASSUME NEW j \in Invocations, UnderWay(j)' PROVE NotAfter(appended[n], j)'
      <4>1. CASE n = Len(appended) + 1
        <5>1. UnderWay(j) /\ j # i
          BY <1>1, <2>1, <3>2 DEF UnderWay
        <5>2. Backend(i) # Backend(j)
          BY <2>1, <2>3, <5>1, NextOverlap DEF StampInv
        <5>3. NotAfter(i, j)'
          BY <2>3, <5>2, NextOverlap DEF NotAfter
        <5> QED BY <2>2, <4>1, <5>3 DEF NotAfter, Backend
      <4>2. CASE n # Len(appended) + 1
        <5>1. n \in 1 .. Len(appended)
          BY <1>4, <2>2, <4>2
        <5>2. PICK a \in Invocations : a = appended[n] /\ a = appended'[n]
          BY <1>4, <2>2, <5>1
        <5>3. NotAfter(a, j)'
          BY <1>5, <2>3, <3>2, <5>1, <5>2
        <5> QED BY <5>2, <5>3 DEF NotAfter, Backend
      <4> QED BY <4>1, <4>2
    <3>3. ASSUME NEW m \in 1 .. n PROVE NotAfter(appended[m], appended[n])'
      <4>1. CASE n = Len(appended) + 1 /\ m = n
        <5>1. NotAfter(i, i)'
          BY <1>2 DEF NotAfter
        <5> QED BY <2>2, <4>1, <5>1 DEF NotAfter, Backend
      <4>2. CASE n = Len(appended) + 1 /\ m # n
        <5>1. m \in 1 .. Len(appended)
          BY <1>4, <4>2
        <5>2. PICK b \in Invocations : b = appended[m] /\ b = appended'[m]
          BY <1>4, <2>2, <5>1
        <5>3. NotAfter(b, i) /\ inv'[b] = inv[b] /\ inv'[i].stamp = inv[i].stamp
          BY <1>1, <1>4, <1>8, <3>1, <5>1, <5>2 DEF Begin, Write
        <5>4. NotAfter(b, i)'
          BY <2>3, <5>3, NextOverlap DEF NotAfter
        <5> QED BY <2>2, <4>2, <5>2, <5>4 DEF NotAfter, Backend
      <4>3. CASE n # Len(appended) + 1
        <5>1. n \in 1 .. Len(appended) /\ m \in 1 .. Len(appended)
          BY <1>4, <2>2, <4>3
        <5>2. PICK a \in Invocations, b \in Invocations :
                /\ a = appended[n] /\ a = appended'[n]
                /\ b = appended[m] /\ b = appended'[m]
          BY <1>4, <2>2, <5>1
        <5>3. NotAfter(b, a)'
          BY <1>6, <2>3, <5>1, <5>2
        <5> QED BY <5>2, <5>3 DEF NotAfter, Backend
      <4> QED BY <4>1, <4>2, <4>3
    <3> QED BY <3>2, <3>3
  <2> QED BY <1>3, <2>3, NextOverlap DEF StampInv
<1> QED BY <1>7, <1>8


LEMMA NextStamp ==
  TypeOK /\ TypeOK' /\ AppendedInv /\ StampInv /\ [PanelNext]_panelVars => StampInv'
<1>1. ASSUME TypeOK, TypeOK', StampInv, PanelNext, UNCHANGED <<inv, appended>>,
             day' = day \/ day' = day + 1
      PROVE  StampInv'
  <2>1. \A i \in Invocations : inv'[i].stamp # Nothing => inv'[i].stamp <= day'
    <3>1. day \in Nat /\ \A i \in Invocations : inv[i].stamp \in Nat \cup {Nothing}
      BY <1>1, StampType, HistoryAssumption DEF TypeOK
    <3> QED BY <1>1, <3>1 DEF StampInv
  <2>2. \A i \in Invocations : UnderWay(i)' <=> UnderWay(i)
    BY <1>1 DEF UnderWay
  <2>3. ASSUME ~overlapped', NEW n \in 1 .. Len(appended)
        PROVE  /\ \A j \in Invocations : UnderWay(j)' => NotAfter(appended[n], j)'
               /\ \A m \in 1 .. n : NotAfter(appended[m], appended[n])'
    <3>1. about' = about /\ ~overlapped
      BY <1>1, <2>3, NextOverlap DEF PanelNext
    <3> QED BY <1>1, <2>2, <3>1 DEF StampInv, NotAfter, Backend
  <2> QED BY <1>1, <2>1, <2>3, NextOverlap DEF StampInv
<1>2. ASSUME TypeOK, PanelNext, ~\E i \in Invocations : Invocation(i)
      PROVE  UNCHANGED <<inv, appended>> /\ (day' = day \/ day' = day + 1)
  <2>1. ASSUME NEW p \in Pruners, Pruner(p) \/ Kill(p)
        PROVE  UNCHANGED <<inv, appended, day>>
    BY <1>2, <2>1, PrunerMoves
  <2>2. Tick \/ Edit => UNCHANGED <<inv, appended>> /\ (day' = day \/ day' = day + 1)
    BY DEF Tick, Edit
  <2>3. Next
    BY <1>2, Zenon DEF PanelNext
  <2> QED BY <1>2, <2>1, <2>2, <2>3 DEF Next
<1>3. ASSUME StampInv, UNCHANGED panelVars PROVE StampInv'
  BY <1>3 DEF panelVars, vars, StampInv, UnderWay, NotAfter, Backend
<1> QED BY <1>1, <1>2, <1>3, InvocationStamp

LEMMA StampHolds == PanelSpec => []StampInv
<1>1. PanelInit => StampInv
  BY InitStamp
<1>2. TypeOK /\ TypeOK' /\ AppendedInv /\ StampInv /\ [PanelNext]_panelVars => StampInv'
  BY NextStamp
<1> QED BY <1>1, <1>2, PanelRefines, PathsHold, SerialHolds, PTL DEF PanelSpec

LEMMA RowIsRecent ==
  /\ TypeOK /\ AppendedInv /\ SerialInv /\ StampInv /\ about \in Settings
  => RowIsMostRecent
<1> SUFFICES ASSUME TypeOK, AppendedInv, SerialInv, StampInv, about \in Settings,
                    Calm, ~overlapped, Kept # {},
                    \A i \in Kept : inv[i].stamp # Nothing
             PROVE  LET r == MostRecent IN
                    /\ \A i \in Kept : inv[i].stamp <= inv[r].stamp
                    /\ ~Row.stale /\ version # Nothing =>
                         version = inv[r].ran \/ inv[r].digest # inv[r].ran
  BY DEF RowIsMostRecent
<1>1. PICK r \in Kept : r = MostRecent /\ r = Newest(Backend(r))
  BY MostRecentIs
<1>2. \A i \in Kept : i \in Invocations /\ inv[i].stamp \in Nat
  BY KeptIs, StampType
<1>3. ASSUME NEW b, NEW i \in Kept, Backend(i) = b
      PROVE  /\ Newest(b) \in Kept
             /\ inv[i].stamp <= inv[Newest(b)].stamp
  <2>1. PICK q \in Kept : q = Newest(b) /\ Backend(q) = b
    BY <1>3, NewestIsLast
  <2>2. PICK n \in 1 .. Len(appended) :
          /\ appended[n] = q
          /\ \A m \in 1 .. Len(appended) :
               appended[m] \in Kept /\ Backend(appended[m]) = b => m <= n
    BY <2>1, NewestIsLast
  <2>3. PICK m \in 1 .. Len(appended) : appended[m] = i
    BY KeptIs
  <2>4. m \in 1 .. n
    BY <1>3, <2>2, <2>3
  <2>5. NotAfter(i, q)
    BY <2>2, <2>3, <2>4 DEF StampInv
  <2> QED BY <1>3, <2>1, <2>5 DEF NotAfter
<1>4. ASSUME NEW i \in Kept PROVE inv[i].stamp <= inv[r].stamp
  <2>1. PICK d, c : d = Newest(Docker) /\ c = Newest(CoWork)
    OBVIOUS
  <2>2. Backend(i) \in {Docker, CoWork}
    BY <1>2, SettingType
  <2>3. CASE Backend(i) = Docker
    <3>1. d \in Kept /\ inv[i].stamp <= inv[d].stamp
      BY <1>3, <2>1, <2>3
    <3>2. r = d \/ (c # Nothing /\ r = c /\ ~NoOlder(d, c))
      BY <1>1, <2>1, <3>1, HistoryAssumption, <1>2 DEF MostRecent
    <3>3. CASE c # Nothing /\ r = c /\ ~NoOlder(d, c)
      BY <1>1, <1>2, <3>1, <3>3 DEF NoOlder
    <3> QED BY <3>1, <3>2, <3>3
  <2>4. CASE Backend(i) = CoWork
    <3>1. c \in Kept /\ inv[i].stamp <= inv[c].stamp
      BY <1>3, <2>1, <2>4
    <3>2. r = c \/ (r = d /\ NoOlder(d, c))
      BY <1>1, <2>1, <3>1, HistoryAssumption, <1>2 DEF MostRecent
    <3>3. CASE r = d /\ NoOlder(d, c)
      BY <1>1, <1>2, <3>1, <3>3 DEF NoOlder
    <3> QED BY <3>1, <3>2, <3>3
  <2> QED BY <2>2, <2>3, <2>4
<1>5. ASSUME ~Row.stale, version # Nothing
      PROVE  version = inv[r].ran \/ inv[r].digest # inv[r].ran
  <2>1. ~Stale(r)
    <3>1. MostRecent # Nothing
      BY MostRecentIs
    <3> QED BY <1>1, <1>5, <3>1, RowType
  <2>2. inv[r].digest \in {Nothing, version}
    BY <1>5, <2>1 DEF Stale
  <2>3. inv[r].ran # Nothing
    <3>1. inv[r].ran \in 0 .. MaxVersion
      BY <1>2 DEF TypeOK, InvStates
    <3> QED BY <3>1, HistoryAssumption
  <2> QED BY <2>2, <2>3
<1> QED BY <1>1, <1>4, <1>5

\* While no prune raced with an append and no two invocations of the case overlapped
\* on a backend, the record of the row began no earlier than any that is kept, on
\* either backend, and a row that is not stale is of the files there are now unless
\* they changed while the case ran: the order of the file is then the order of the
\* stamps, which is what `_newest` and `_most_recent` rest on.
THEOREM RowsAreRecent == PanelSpec => []RowIsMostRecent
<1> QED
  BY PanelRefines, SettingStays, PathsHold, SerialHolds, StampHolds, RowIsRecent, PTL
=============================================================================
