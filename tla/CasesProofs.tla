---------------------------- MODULE CasesProofs ----------------------------
(***************************************************************************)
(* From the cases on disk to the word on each. For any tree of directories, *)
(* what runs is what was validated; for any keys of a case, one that         *)
(* validates means the same on both backends; for any glob and path, ours     *)
(* matches what the harness's glob does, and no more unless by a class that   *)
(* takes a separator, and a structural grader never passes for want of a      *)
(* look; for any number of votes, whichever are lost, the result of a       *)
(* judged grader is the majority of the votes that were asked for; and for    *)
(* any suite and whatever went wrong of it, the numbers of the document are   *)
(* those of its results, a pass was earned and a fail has a cause.            *)
(*                                                                         *)
(* The recursive functions of the model are the solutions of their equations: *)
(* each is shown to have one, and to have no other. What the two state        *)
(* machines of the grading and of the document have in common by name has a   *)
(* prefix in the first: GradingInit, GradingNext, GradingSpec.                *)
(***************************************************************************)
EXTENDS CaseTree, Grading, Verdict, DataLemmas

-----------------------------------------------------------------------------
(* A tree: Above and CaseDirectories are the solutions of their equations.  *)

\* A set that holds the parent of each of its directories.
Closed(S) == \A y \in S : y # Top => Parent[y] \in S

\* What every such set with d in it has.
UpFrom(d) == {x \in Dirs : \A S \in SUBSET Dirs : d \in S /\ Closed(S) => x \in S}

LEMMA UpFromIsClosed ==
  ASSUME NEW d \in Dirs
  PROVE  d \in UpFrom(d) /\ Closed(UpFrom(d)) /\ UpFrom(d) \in SUBSET Dirs
<1>1. ASSUME NEW y \in UpFrom(d), y # Top PROVE Parent[y] \in UpFrom(d)
  <2>1. y \in Dirs /\ Parent[y] \in Dirs
    BY <1>1, TreeAssumption DEF UpFrom
  <2>2. ASSUME NEW S \in SUBSET Dirs, d \in S, Closed(S) PROVE Parent[y] \in S
    BY <1>1, <2>2 DEF UpFrom, Closed
  <2> QED BY <2>1, <2>2 DEF UpFrom
<1>2. Closed(UpFrom(d))
  BY <1>1 DEF Closed
<1> QED BY <1>2 DEF UpFrom

LEMMA UpFromIsLeast ==
  ASSUME NEW d \in Dirs, NEW S \in SUBSET Dirs, d \in S, Closed(S)
  PROVE  UpFrom(d) \subseteq S
BY DEF UpFrom

LEMMA UpFromSolves ==
  ASSUME NEW d \in Dirs
  PROVE  UpFrom(d) = IF d = Top THEN {Top} ELSE {d} \cup UpFrom(Parent[d])
<1>1. CASE d = Top
  <2>1. {Top} \in SUBSET Dirs /\ Closed({Top})
    BY TreeAssumption DEF Closed
  <2> QED BY <1>1, <2>1, UpFromIsLeast, UpFromIsClosed
<1>2. CASE d # Top
  <2> DEFINE p == Parent[d]
  <2>1. p \in Dirs
    BY <1>2, TreeAssumption
  <2>2. PICK U : U = UpFrom(p)
    OBVIOUS
  <2>3. p \in U /\ Closed(U) /\ U \in SUBSET Dirs
    BY <2>1, <2>2, UpFromIsClosed
  <2>4. {d} \cup U \in SUBSET Dirs /\ Closed({d} \cup U)
    BY <2>3 DEF Closed
  <2>5. UpFrom(d) \subseteq {d} \cup U
    BY <2>4, UpFromIsLeast
  <2>6. d \in UpFrom(d) /\ Closed(UpFrom(d)) /\ UpFrom(d) \in SUBSET Dirs
    BY UpFromIsClosed
  <2>7. p \in UpFrom(d)
    BY <1>2, <2>6 DEF Closed
  <2>8. U \subseteq UpFrom(d)
    BY <2>1, <2>2, <2>6, <2>7, UpFromIsLeast
  <2> QED BY <1>2, <2>2, <2>5, <2>6, <2>8
<1> QED BY <1>1, <1>2

\* The equation of Above, as a property of a function.
IsAbove(f) == f = [d \in Dirs |-> IF d = Top THEN {Top} ELSE {d} \cup f[Parent[d]]]

LEMMA AboveIsChosen == Above = CHOOSE f : IsAbove(f)
BY Zenon DEF Above, IsAbove

LEMMA AboveSolves == IsAbove(Above)
<1> DEFINE f == [d \in Dirs |-> UpFrom(d)]
<1>1. ASSUME NEW d \in Dirs
      PROVE f[d] = IF d = Top THEN {Top} ELSE {d} \cup f[Parent[d]]
  <2>1. d # Top => Parent[d] \in Dirs
    BY TreeAssumption
  <2>2. f[d] = UpFrom(d) /\ (d # Top => f[Parent[d]] = UpFrom(Parent[d]))
    BY <2>1
  <2> HIDE DEF f
  <2> QED BY <2>2, UpFromSolves
<1>2. IsAbove(f)
  <2>1. f = [d \in Dirs |-> f[d]]
    OBVIOUS
  <2> HIDE DEF f
  <2> QED BY <1>1, <2>1 DEF IsAbove
<1> HIDE DEF f
<1> QED BY <1>2, AboveIsChosen


LEMMA AboveOne ==
  ASSUME NEW d \in Dirs
  PROVE  /\ Above[d] = IF d = Top THEN {Top} ELSE {d} \cup Above[Parent[d]]
         /\ d \in Above[d]
         /\ d # Top => Parent[d] \in Dirs
<1>1. Above[d] = IF d = Top THEN {Top} ELSE {d} \cup Above[Parent[d]]
  <2> DEFINE step(f, e) == IF e = Top THEN {Top} ELSE {e} \cup f[Parent[e]]
  <2>1. Above = [e \in Dirs |-> step(Above, e)]
    BY AboveSolves DEF IsAbove
  <2>2. Above[d] = step(Above, d)
    <3> HIDE DEF step
    <3>1. [e \in Dirs |-> step(Above, e)][d] = step(Above, d)
      OBVIOUS
    <3> QED BY <2>1, <3>1
  <2> QED BY <2>2
<1> QED BY <1>1, TreeAssumption

\* What holds of Top, and of a directory where it holds of its parent, holds of all.
LEMMA EveryDirectory ==
  ASSUME NEW F, Top \in F,
         \A d \in Dirs \ {Top} : Parent[d] \in F => d \in F
  PROVE  Dirs \subseteq F
<1> SUFFICES ASSUME Dirs \ F # {} PROVE FALSE
  OBVIOUS
<1>1. PICK d \in Dirs \ F : d = Top \/ Parent[d] \notin Dirs \ F
  <2>1. Dirs \ F \in SUBSET Dirs
    OBVIOUS
  <2> QED BY <2>1, TreeAssumption
<1>2. d # Top /\ Parent[d] \in Dirs
  BY AboveOne
<1> QED BY <1>1, <1>2

\* What is above a directory that is above another is above that one too.
LEMMA AboveIsClosed ==
  ASSUME NEW d \in Dirs
  PROVE  Above[d] \in SUBSET Dirs /\ \A e \in Above[d] : Above[e] \subseteq Above[d]
<1> DEFINE F == {x \in Dirs : /\ Above[x] \in SUBSET Dirs
                              /\ \A e \in Above[x] : Above[e] \subseteq Above[x]}
<1>1. Top \in F
  <2>1. Top \in Dirs
    BY TreeAssumption
  <2> QED BY <2>1, AboveOne
<1>2. ASSUME NEW x \in Dirs \ {Top}, Parent[x] \in F PROVE x \in F
  <2>1. Above[x] = {x} \cup Above[Parent[x]]
    BY AboveOne
  <2> QED BY <1>2, <2>1
<1>3. Dirs \subseteq F
  <2> HIDE DEF F
  <2> QED BY <1>1, <1>2, EveryDirectory
<1> QED BY <1>3

\* No directory is above the one it is in.
LEMMA NotAboveItsParent ==
  ASSUME NEW c \in Dirs, c # Top
  PROVE  c \notin Above[Parent[c]]
<1> SUFFICES ASSUME c \in Above[Parent[c]] PROVE FALSE
  OBVIOUS
<1> DEFINE L == {x \in Dirs : c \in Above[x] /\ x \in Above[c]}
<1>1. c \in L
  BY AboveOne
<1>2. PICK x \in L : x = Top \/ Parent[x] \notin L
  <2>1. L \in SUBSET Dirs /\ L # {}
    BY <1>1
  <2> HIDE DEF L
  <2> QED BY <2>1, TreeAssumption
<1>3. x # Top
  BY AboveOne
<1>4. Parent[x] \in Dirs /\ Above[x] = {x} \cup Above[Parent[x]]
  BY <1>3, AboveOne
<1>5. c \in Above[Parent[x]]
  BY <1>4
<1>6. Parent[x] \in Above[x] /\ Above[x] \subseteq Above[c]
  BY <1>4, AboveOne, AboveIsClosed
<1> QED BY <1>2, <1>3, <1>4, <1>5, <1>6

\* Below a directory is one of its children, or what is below that.
LEMMA ChildOnTheWay ==
  ASSUME NEW c \in Dirs, NEW d \in Above[c], c # d
  PROVE  \E e \in Children(d) : e \in Above[c]
<1> DEFINE F == {x \in Dirs : d \in Above[x] /\ x # d =>
                              \E e \in Children(d) : e \in Above[x]}
<1>1. Top \in F
  <2>1. Top \in Dirs
    BY TreeAssumption
  <2>2. Above[Top] = {Top}
    BY <2>1, AboveOne
  <2> QED BY <2>1, <2>2
<1>2. ASSUME NEW x \in Dirs \ {Top}, Parent[x] \in F PROVE x \in F
  <2> SUFFICES ASSUME d \in Above[x], x # d
               PROVE  \E e \in Children(d) : e \in Above[x]
    BY DEF F
  <2>1. Above[x] = {x} \cup Above[Parent[x]] /\ x \in Above[x]
    BY AboveOne
  <2>2. CASE Parent[x] = d
    BY <2>1, <2>2 DEF Children
  <2>3. CASE Parent[x] # d
    BY <1>2, <2>1, <2>3 DEF F
  <2> QED BY <2>2, <2>3
<1>3. Dirs \subseteq F
  <2> HIDE DEF F
  <2> QED BY <1>1, <1>2, EveryDirectory
<1> QED BY <1>3

\* What holds of a directory where it holds of its children holds of all.
LEMMA EveryDirectoryUpwards ==
  ASSUME NEW F, \A d \in Dirs : Children(d) \subseteq F => d \in F
  PROVE  Dirs \subseteq F
<1> SUFFICES ASSUME Dirs \ F # {} PROVE FALSE
  OBVIOUS
<1> DEFINE Rest(d) == Dirs \ Above[d]
           N == {Cardinality(Rest(d)) : d \in Dirs \ F}
<1>1. ASSUME NEW d \in Dirs
      PROVE  IsFiniteSet(Rest(d)) /\ Cardinality(Rest(d)) \in Nat
  BY TreeAssumption, FS_Subset, FS_CardinalityType, Rest(d) \subseteq Dirs
<1>2. N \in SUBSET Nat /\ N # {}
  <2> HIDE DEF Rest
  <2> QED BY <1>1
<1>3. PICK n \in N : \A m \in N : n <= m
  <2> HIDE DEF N
  <2> QED BY <1>2, LeastNumber
<1>4. PICK d \in Dirs \ F : n = Cardinality(Rest(d))
  <2> HIDE DEF Rest
  <2> QED OBVIOUS
<1>5. PICK c \in Children(d) : c \notin F
  BY <1>4
<1>6. c \in Dirs /\ c # Top /\ Parent[c] = d /\ Above[c] = {c} \cup Above[d]
  BY AboveOne DEF Children
<1>7. Rest(c) = Rest(d) \ {c} /\ c \in Rest(d)
  BY <1>6, NotAboveItsParent
<1>8. Cardinality(Rest(c)) = Cardinality(Rest(d)) - 1
  <2> HIDE DEF Rest
  <2>1. PICK R : R = Rest(d)
    OBVIOUS
  <2>2. IsFiniteSet(R) /\ c \in R /\ Rest(c) = R \ {c}
    BY <1>1, <1>7, <2>1
  <2>3. Cardinality(R \ {c}) = Cardinality(R) - 1
    BY <2>2, FS_RemoveElement
  <2> QED BY <2>1, <2>2, <2>3
<1>9. Cardinality(Rest(c)) \in N
  BY <1>5, <1>6
<1>10. Cardinality(Rest(c)) \in Nat /\ Cardinality(Rest(d)) \in Nat
  BY <1>1, <1>4, <1>6
<1> HIDE DEF Rest, N
<1> QED BY <1>3, <1>4, <1>8, <1>9, <1>10


\* The equation of CaseDirectories, and what it is said to find.
IsSearch(f) ==
  f = [d \in Dirs |-> IF d \in prompts THEN {d}
                      ELSE UNION {f[c] : c \in Children(d) \ Pruned}]

Seen(d) == {c \in prompts : InSight(c, d)}

LEMMA SearchIsChosen == CaseDirectories = CHOOSE f : IsSearch(f)
BY Zenon DEF CaseDirectories, IsSearch

\* What is in sight of a directory that is no case is in sight of a child of it.
LEMMA SeenFromAChild ==
  ASSUME prompts \subseteq Dirs, NEW d \in Dirs, d \notin prompts, NEW c \in Seen(d)
  PROVE  \E e \in Children(d) \ Pruned : c \in Seen(e)
<1>1. c \in Dirs /\ c \in prompts /\ c # d /\ d \in Above[c] /\ InSight(c, d)
  BY DEF Seen, InSight
<1>2. PICK e \in Children(d) : e \in Above[c]
  BY <1>1, ChildOnTheWay
<1>3. /\ e \in Dirs /\ e # Top /\ Parent[e] = d
      /\ Above[e] = {e} \cup Above[d] /\ e \notin Above[d]
  BY AboveOne, NotAboveItsParent DEF Children
<1>4. e \notin Pruned
  BY <1>1, <1>2, <1>3 DEF InSight
<1>5. InSight(c, e)
  BY <1>1, <1>2, <1>3 DEF InSight
<1> QED BY <1>1, <1>4, <1>5 DEF Seen

LEMMA SeenFromItsParent ==
  ASSUME prompts \subseteq Dirs, NEW d \in Dirs, d \notin prompts,
         NEW e \in Children(d) \ Pruned, NEW c \in Seen(e)
  PROVE  c \in Seen(d)
<1>1. /\ e \in Dirs /\ e # Top /\ Parent[e] = d
      /\ Above[e] = {e} \cup Above[d]
  BY AboveOne DEF Children
<1>2. c \in Dirs /\ c \in prompts /\ InSight(c, e) /\ e \in Above[c]
  BY DEF Seen, InSight
<1>3. d \in Above[e] /\ Above[e] \subseteq Above[c]
  BY <1>1, <1>2, AboveOne, AboveIsClosed
<1>4. ASSUME NEW b \in Above[c] \ Above[d] PROVE b \notin Pruned
  BY <1>1, <1>2, <1>4 DEF InSight
<1>5. ASSUME NEW b \in (Above[c] \ Above[d]) \cup {d}, b # c PROVE b \notin prompts
  BY <1>1, <1>2, <1>5 DEF InSight
<1> QED BY <1>2, <1>3, <1>4, <1>5 DEF Seen, InSight

LEMMA SeenSolves ==
  ASSUME prompts \subseteq Dirs, NEW d \in Dirs
  PROVE  Seen(d) = IF d \in prompts THEN {d}
                   ELSE UNION {Seen(c) : c \in Children(d) \ Pruned}
<1>1. CASE d \in prompts
  <2>1. d \in Above[d]
    BY AboveOne
  <2> QED BY <1>1, <2>1 DEF Seen, InSight
<1>2. CASE d \notin prompts
  <2>1. \A c \in Seen(d) : \E e \in Children(d) \ Pruned : c \in Seen(e)
    BY <1>2, SeenFromAChild
  <2>2. \A e \in Children(d) \ Pruned : \A c \in Seen(e) : c \in Seen(d)
    BY <1>2, SeenFromItsParent
  <2> HIDE DEF Seen
  <2> QED BY <1>2, <2>1, <2>2
<1> QED BY <1>1, <1>2

\* The search finds what is in sight of where it starts, and nothing else.
LEMMA SearchFinds ==
  ASSUME prompts \subseteq Dirs
  PROVE  \A d \in Dirs : CaseDirectories[d] = Seen(d)
<1> DEFINE f == [d \in Dirs |-> Seen(d)]
<1>1. IsSearch(f)
  <2>1. ASSUME NEW d \in Dirs
        PROVE f[d] = IF d \in prompts THEN {d}
                     ELSE UNION {f[c] : c \in Children(d) \ Pruned}
    <3>1. \A c \in Children(d) : c \in Dirs
      BY DEF Children
    <3>2. \A c \in Children(d) \ Pruned : f[c] = Seen(c)
      BY <3>1
    <3>3. f[d] = Seen(d)
      OBVIOUS
    <3> HIDE DEF f
    <3> QED BY <3>2, <3>3, SeenSolves
  <2>2. f = [d \in Dirs |-> f[d]]
    OBVIOUS
  <2> HIDE DEF f
  <2> QED BY <2>1, <2>2 DEF IsSearch
<1>2. IsSearch(CaseDirectories)
  <2> HIDE DEF f
  <2> QED BY <1>1, SearchIsChosen
<1>3. ASSUME NEW d \in Dirs
      PROVE CaseDirectories[d] =
              IF d \in prompts THEN {d}
              ELSE UNION {CaseDirectories[c] : c \in Children(d) \ Pruned}
  <2> DEFINE step(g, e) == IF e \in prompts THEN {e}
                           ELSE UNION {g[c] : c \in Children(e) \ Pruned}
  <2>1. CaseDirectories = [e \in Dirs |-> step(CaseDirectories, e)]
    BY <1>2 DEF IsSearch
  <2>2. CaseDirectories[d] = step(CaseDirectories, d)
    <3> HIDE DEF step
    <3>1. [e \in Dirs |-> step(CaseDirectories, e)][d] = step(CaseDirectories, d)
      OBVIOUS
    <3> QED BY <2>1, <3>1
  <2> QED BY <2>2
<1> DEFINE F == {d \in Dirs : CaseDirectories[d] = Seen(d)}
<1>4. ASSUME NEW d \in Dirs, Children(d) \subseteq F PROVE d \in F
  <2>1. \A c \in Children(d) \ Pruned : CaseDirectories[c] = Seen(c)
    BY <1>4
  <2>2. UNION {CaseDirectories[c] : c \in Children(d) \ Pruned}
        = UNION {Seen(c) : c \in Children(d) \ Pruned}
    <3> HIDE DEF F
    <3> QED BY <2>1
  <2>3. CaseDirectories[d] = Seen(d)
    <3> HIDE DEF F
    <3> QED BY <1>3, <2>2, SeenSolves
  <2> QED BY <2>3
<1>5. Dirs \subseteq F
  <2> HIDE DEF F
  <2> QED BY <1>4, EveryDirectoryUpwards
<1> QED BY <1>5

\* For every tree, whatever is pruned in it and wherever the path points, what runs
\* is what was validated, but for what the path points into (cases.py `discover`,
\* validate.py `violations`, cli.py `_targets`).
THEOREM ValidatedRuns == TreeInit => ValidatedIsSelected
<1> SUFFICES ASSUME TreeInit PROVE ValidatedIsSelected
  OBVIOUS
<1>1. prompts \subseteq Dirs /\ target \in Dirs
  BY TreeAssumption DEF TreeInit
<1>2. PluginRoots \subseteq Dirs
  BY <1>1, AboveIsClosed, TreeAssumption DEF PluginRoots, NearestRoot
<1>3. Targets \subseteq Dirs
  BY <1>1, <1>2 DEF Targets
<1>4. \A c : c \in Selected <=> c \in prompts /\ \E t \in Targets : InSight(c, t)
  BY <1>1, <1>3, SearchFinds DEF Selected, Seen
<1> DEFINE evals == UNION {EvalsOf(p) : p \in PluginRoots}
<1>5. evals \subseteq Dirs /\ \A e \in evals : e # Top /\ Parent[e] \in PluginRoots
  BY TreeAssumption DEF EvalsOf
<1>6. \A c : c \in Validated <=> c \in prompts /\ \E e \in evals : InSight(c, e)
  BY <1>1, <1>5, SearchFinds DEF Validated, Seen
<1>7. ASSUME NEW c \in Selected \ Validated, NEW e \in evals, e \in Above[c]
      PROVE \E b \in (Above[c] \ Above[e]) \cup {e}, t \in Targets :
              b \in Pruned \cup (prompts \ {c}) /\ b \in Above[t]
  <2>1. PICK t \in Targets : InSight(c, t)
    BY <1>4, <1>7
  <2>2. c \in prompts /\ ~InSight(c, e)
    BY <1>4, <1>6, <1>7
  <2>3. PICK b \in (Above[c] \ Above[e]) \cup {e} : b \in Pruned \cup (prompts \ {c})
    BY <1>7, <2>2 DEF InSight
  <2>4. b \in Above[t]
    BY <1>7, <2>1, <2>3 DEF InSight
  <2> QED BY <2>3, <2>4
<1>8. ASSUME NEW c \in Validated, target \in Above[c]
      PROVE c \in Selected \/ \E t \in Targets : t \in Above[c] /\ ~InSight(c, t)
  <2>1. c \in prompts
    BY <1>6
  <2>2. CASE Targets = {target}
    BY <1>4, <1>8, <2>1, <2>2
  <2>3. CASE Targets = PluginRoots
    <3>1. PICK e \in evals : InSight(c, e)
      BY <1>6
    <3>2. Parent[e] \in Above[e] /\ Above[e] \subseteq Above[c]
      BY <1>1, <1>5, <2>1, <3>1, AboveOne, AboveIsClosed DEF InSight
    <3>3. Parent[e] \in Targets
      BY <1>5, <2>3
    <3> QED BY <1>4, <2>1, <3>2, <3>3
  <2> QED BY <2>2, <2>3 DEF Targets
<1>9. \A c \in prompts : (c \in Selected) = (\E t \in Targets : InSight(c, t))
  <2> SUFFICES ASSUME NEW c \in prompts
               PROVE  (c \in Selected) = (\E t \in Targets : InSight(c, t))
    OBVIOUS
  <2>1. (c \in Selected) <=> (\E t \in Targets : InSight(c, t))
    BY <1>4
  <2>2. (c \in Selected) \in BOOLEAN
    OBVIOUS
  <2>3. (\E t \in Targets : InSight(c, t)) \in BOOLEAN
    OBVIOUS
  <2> QED BY <2>1, <2>2, <2>3, Zenon
<1> QED BY <1>7, <1>8, <1>9 DEF ValidatedIsSelected

-----------------------------------------------------------------------------
(* A case.                                                                 *)

\* The keys of the two files have two names in common, and only one of them is of
\* what no session honours.
LEMMA KeysApart ==
  /\ PromptKeys \cap ContextKeys = {}
  /\ CaseYamlKeys \cap UnhonouredCaseKeys = {}
  /\ CaseYamlKeys \ ContextKeys = {"schema_version", "name"}
  /\ "name" \in RequiredPromptKeys /\ "name" \notin UnhonouredCaseKeys
BY DEF PromptKeys, ContextKeys, CaseYamlKeys, UnhonouredCaseKeys, RequiredPromptKeys

LEMMA NoViolations ==
  ASSUME Violations = {}
  PROVE  /\ RequiredPromptKeys \subseteq case.front
         /\ case.front \subseteq PromptKeys /\ case.yaml \subseteq CaseYamlKeys
         /\ Unrunnable <=> NoCoWork
<1>1. /\ "required-key" \notin Violations /\ "unknown-key" \notin Violations
      /\ "no-cowork-missing" \notin Violations
      /\ "no-cowork-unneeded" \notin Violations
  OBVIOUS
<1>2. RequiredPromptKeys \subseteq case.front
  BY <1>1 DEF Violations
<1>3. case.front \subseteq PromptKeys /\ case.yaml \subseteq CaseYamlKeys
  BY <1>1 DEF Violations
<1>4. ~(Unrunnable /\ ~NoCoWork)
  BY <1>1 DEF Violations
<1>5. ~(NoCoWork /\ ~Unrunnable)
  BY <1>1 DEF Violations
<1> QED BY <1>2, <1>3, <1>4, <1>5

\* Whatever keys an author writes in the two files, wherever the tag and the mocks
\* are: a case that validates is honoured, or declared, on both backends alike
\* (validate.py `_case_violations`, cowork_backend.py `unrunnable`).
THEOREM ValidCasesArePortable == ValidIsPortable
<1> SUFFICES ASSUME Violations = {}
             PROVE  /\ Declared <=> AskedOfHost
                    /\ ~Declared => AskedFor \ {"schema_version"} \subseteq HonouredHere
  BY DEF ValidIsPortable
<1>1. /\ RequiredPromptKeys \subseteq case.front
      /\ case.front \subseteq PromptKeys /\ case.yaml \subseteq CaseYamlKeys
      /\ Unrunnable <=> NoCoWork
  BY NoViolations
<1>2. case.front \cap ContextKeys = {} /\ case.yaml \cap UnhonouredCaseKeys = {}
  BY <1>1, KeysApart
<1>3. Unrunnable <=> AskedOfHost
  BY <1>2 DEF Unrunnable, AskedOfHost, AskedFor
<1>4. ~Unrunnable => AskedFor \ {"schema_version"} \subseteq HonouredHere
  <2> SUFFICES ASSUME ~Unrunnable, NEW k \in case.front \cup case.yaml,
                      k # "schema_version"
               PROVE  k \in case.front \ UnhonouredCaseKeys
    BY DEF AskedFor, HonouredHere
  <2>1. CASE k \in case.front
    BY <2>1 DEF Unrunnable
  <2>2. CASE k \in case.yaml
    <3>1. k \in {"schema_version", "name"}
      BY <1>1, <2>2, KeysApart DEF Unrunnable
    <3> QED BY <1>1, <3>1, KeysApart
  <2> QED BY <2>1, <2>2
<1> QED BY <1>1, <1>3, <1>4 DEF Declared
-----------------------------------------------------------------------------
(* Globs: the two recursive definitions of a match agree.                   *)

\* The two equations, as properties of a function.
BehindAt(b, path, glob, n) ==
  IF n = 0 THEN {0} ELSE UNION {After(glob, n, path, k) : k \in b[n - 1]}

IsBehind(b, path, glob) ==
  b = [n \in 0 .. Len(glob) |->
         IF n = 0 THEN {0} ELSE UNION {After(glob, n, path, k) : k \in b[n - 1]}]

Grid(path, glob) == (1 .. Len(glob) + 1) \X (1 .. Len(path) + 1)

RestAt(r, path, glob, n, k) ==
  IF n > Len(glob) \/ k > Len(path) THEN n > Len(glob) /\ k > Len(path)
  ELSE IF glob[n] = DoubleStar
       THEN n = Len(glob) \/ r[<<n + 1, k>>] \/ r[<<n, k + 1>>]
       ELSE <<path[k]>> \in glob[n] /\ r[<<n + 1, k + 1>>]

IsRest(r, path, glob) ==
  r = [here \in (1 .. Len(glob) + 1) \X (1 .. Len(path) + 1) |->
         LET n == here[1]  k == here[2] IN
         IF n > Len(glob) \/ k > Len(path) THEN n > Len(glob) /\ k > Len(path)
         ELSE IF glob[n] = DoubleStar
              THEN n = Len(glob) \/ r[<<n + 1, k>>] \/ r[<<n, k + 1>>]
              ELSE <<path[k]>> \in glob[n] /\ r[<<n + 1, k + 1>>]]

LEMMA BehindIsChosen ==
  ASSUME NEW path, NEW glob
  PROVE  FullMatch(path, glob) =
           (Len(path) \in (CHOOSE b : IsBehind(b, path, glob))[Len(glob)])
BY Zenon DEF FullMatch, IsBehind

LEMMA RestIsChosen ==
  ASSUME NEW path, NEW glob
  PROVE  Matches(path, glob) = (CHOOSE r : IsRest(r, path, glob))[<<1, 1>>]
BY Zenon DEF Matches, IsRest

LEMMA BehindExists ==
  ASSUME NEW path, NEW glob, Len(glob) \in Nat
  PROVE  \E b : IsBehind(b, path, glob)
<1>1. PICK N \in Nat : N = Len(glob)
  OBVIOUS
<1> DEFINE Good(b, m) ==
             /\ b = [n \in 0 .. N |-> b[n]]
             /\ \A n \in 0 .. N : n <= m => b[n] = BehindAt(b, path, glob, n)
           T == {m \in Nat : \E b : Good(b, m)}
<1>2. 0 \in T
  <2> DEFINE b == [n \in 0 .. N |-> {0}]
  <2>1. Good(b, 0)
    BY DEF BehindAt
  <2> QED BY <2>1
<1>3. ASSUME NEW m \in Nat, m \in T PROVE m + 1 \in T
  <2>1. PICK b : Good(b, m)
    BY <1>3
  <2> DEFINE c == [n \in 0 .. N |->
                     IF n = m + 1 THEN BehindAt(b, path, glob, m + 1) ELSE b[n]]
  <2>2. c = [n \in 0 .. N |-> c[n]]
    OBVIOUS
  <2>3. ASSUME NEW n \in 0 .. N, n <= m + 1 PROVE c[n] = BehindAt(c, path, glob, n)
    <3>1. CASE n = 0
      BY <2>1, <3>1 DEF BehindAt
    <3>2. CASE n # 0
      <4>1. n - 1 \in 0 .. N /\ n - 1 # m + 1
        BY <2>3, <3>2
      <4>2. c[n - 1] = b[n - 1]
        BY <4>1
      <4>3. BehindAt(c, path, glob, n) = BehindAt(b, path, glob, n)
        <5> HIDE DEF c
        <5> QED BY <4>2 DEF BehindAt
      <4>4. c[n] = BehindAt(b, path, glob, n)
        <5>1. CASE n = m + 1
          BY <5>1
        <5>2. CASE n # m + 1
          <6>1. n <= m
            BY <2>3, <5>2
          <6> QED BY <2>1, <5>2, <6>1
        <5> QED BY <5>1, <5>2
      <4> QED BY <4>3, <4>4
    <3> QED BY <3>1, <3>2
  <2>4. Good(c, m + 1)
    <3> HIDE DEF c
    <3> QED BY <2>2, <2>3
  <2> HIDE DEF c, Good
  <2> QED BY <2>4
<1>4. N \in T
  <2> HIDE DEF T
  <2> QED BY <1>2, <1>3, EveryNumber
<1>5. PICK b : Good(b, N)
  <2> HIDE DEF Good
  <2> QED BY <1>4
<1>6. \A n \in 0 .. N : b[n] = BehindAt(b, path, glob, n)
  BY <1>5
<1>7. b = [n \in 0 .. N |-> b[n]]
  BY <1>5
<1>8. [n \in 0 .. N |-> b[n]] = [n \in 0 .. N |-> BehindAt(b, path, glob, n)]
  <2> HIDE DEF Good, T
  <2> QED BY <1>6
<1>9. IsBehind(b, path, glob)
  <2> HIDE DEF Good, T
  <2> QED BY <1>1, <1>7, <1>8 DEF IsBehind, BehindAt
<1> QED BY <1>9

LEMMA BehindValues ==
  ASSUME NEW path, NEW glob, Len(glob) \in Nat, NEW b, IsBehind(b, path, glob)
  PROVE  \A n \in 0 .. Len(glob) : b[n] = BehindAt(b, path, glob, n)
<1> SUFFICES ASSUME NEW n \in 0 .. Len(glob) PROVE b[n] = BehindAt(b, path, glob, n)
  OBVIOUS
<1>1. b = [i \in 0 .. Len(glob) |-> BehindAt(b, path, glob, i)]
  BY DEF IsBehind, BehindAt
<1>2. [i \in 0 .. Len(glob) |-> BehindAt(b, path, glob, i)][n] = BehindAt(b, path, glob, n)
  OBVIOUS
<1> QED BY <1>1, <1>2

LEMMA RestValues ==
  ASSUME NEW path, NEW glob, Len(glob) \in Nat, Len(path) \in Nat,
         NEW r, IsRest(r, path, glob)
  PROVE  \A n \in 1 .. Len(glob) + 1, k \in 1 .. Len(path) + 1 :
           r[<<n, k>>] = RestAt(r, path, glob, n, k)
<1> SUFFICES ASSUME NEW n \in 1 .. Len(glob) + 1, NEW k \in 1 .. Len(path) + 1
             PROVE  r[<<n, k>>] = RestAt(r, path, glob, n, k)
  OBVIOUS
<1>1. r = [here \in Grid(path, glob) |-> RestAt(r, path, glob, here[1], here[2])]
  BY Zenon DEF IsRest, RestAt, Grid
<1>2. <<n, k>> \in Grid(path, glob) /\ <<n, k>>[1] = n /\ <<n, k>>[2] = k
  BY DEF Grid
<1>3. PICK here \in Grid(path, glob) : here = <<n, k>>
  BY <1>2
<1>4. [x \in Grid(path, glob) |-> RestAt(r, path, glob, x[1], x[2])][here]
      = RestAt(r, path, glob, here[1], here[2])
  OBVIOUS
<1> QED BY <1>1, <1>2, <1>3, <1>4, Zenon


\* A row of the grid below which the equation holds can be filled.
FilledRow(r, path, glob, n, k) ==
  /\ k <= Len(path)
  /\ IF glob[n] = DoubleStar
     THEN n = Len(glob) \/ \E j \in k .. Len(path) : r[<<n + 1, j>>]
     ELSE <<path[k]>> \in glob[n] /\ r[<<n + 1, k + 1>>]

Solved(r, path, glob, low) ==
  \A n \in 1 .. Len(glob) + 1, k \in 1 .. Len(path) + 1 :
    n >= low => r[<<n, k>>] = RestAt(r, path, glob, n, k)

LEMMA FillingSolves ==
  ASSUME NEW path, NEW glob, Len(glob) \in Nat, Len(path) \in Nat,
         NEW low \in 1 .. Len(glob), NEW r, Solved(r, path, glob, low + 1),
         NEW s, \A n \in 1 .. Len(glob) + 1, k \in 1 .. Len(path) + 1 :
                  s[<<n, k>>] = IF n = low THEN FilledRow(r, path, glob, low, k)
                                ELSE r[<<n, k>>]
  PROVE  Solved(s, path, glob, low)
<1> SUFFICES ASSUME NEW n \in 1 .. Len(glob) + 1, NEW k \in 1 .. Len(path) + 1,
                    n >= low
             PROVE  s[<<n, k>>] = RestAt(s, path, glob, n, k)
  BY DEF Solved
<1>1. PICK N \in Nat, P \in Nat : N = Len(glob) /\ P = Len(path)
  OBVIOUS
<1>2. CASE n # low
  <2>1. s[<<n, k>>] = r[<<n, k>>] /\ r[<<n, k>>] = RestAt(r, path, glob, n, k)
    BY <1>1, <1>2 DEF Solved
  <2>2. CASE n > N \/ k > P
    BY <1>1, <2>1, <2>2 DEF RestAt
  <2>3. CASE ~(n > N \/ k > P)
    <3>1. /\ n + 1 \in 1 .. N + 1 /\ k + 1 \in 1 .. P + 1 /\ n + 1 # low
      BY <1>1, <1>2, <2>3
    <3>2. /\ s[<<n + 1, k>>] = r[<<n + 1, k>>] /\ s[<<n, k + 1>>] = r[<<n, k + 1>>]
          /\ s[<<n + 1, k + 1>>] = r[<<n + 1, k + 1>>]
      BY <1>1, <1>2, <3>1
    <3> QED BY <2>1, <3>2 DEF RestAt
  <2> QED BY <2>2, <2>3
<1>3. CASE n = low
  <2>1. s[<<n, k>>] = FilledRow(r, path, glob, n, k)
    BY <1>3
  <2>2. CASE k > P
    <3>1. ~FilledRow(r, path, glob, n, k) /\ ~RestAt(s, path, glob, n, k)
      BY <1>1, <1>3, <2>2 DEF FilledRow, RestAt
    <3>2. FilledRow(r, path, glob, n, k) \in BOOLEAN /\ RestAt(s, path, glob, n, k) \in BOOLEAN
      BY <1>1, <1>3, <2>2 DEF FilledRow, RestAt
    <3> QED BY <2>1, <3>1, <3>2
  <2>3. CASE k <= P
    <3>1. /\ n + 1 \in 1 .. N + 1 /\ k + 1 \in 1 .. P + 1 /\ n + 1 # low /\ n <= N
      BY <1>1, <1>3, <2>3
    <3>2. /\ s[<<n + 1, k>>] = r[<<n + 1, k>>]
          /\ s[<<n + 1, k + 1>>] = r[<<n + 1, k + 1>>]
          /\ s[<<n, k + 1>>] = FilledRow(r, path, glob, n, k + 1)
      BY <1>1, <1>3, <3>1
    <3>3. CASE glob[n] # DoubleStar
      <4>1. FilledRow(r, path, glob, n, k) = (<<path[k]>> \in glob[n] /\ r[<<n + 1, k + 1>>])
        BY <1>1, <2>3, <3>3 DEF FilledRow
      <4>2. RestAt(s, path, glob, n, k) = (<<path[k]>> \in glob[n] /\ s[<<n + 1, k + 1>>])
        BY <1>1, <2>3, <3>1, <3>3 DEF RestAt
      <4> QED BY <2>1, <3>2, <4>1, <4>2
    <3>4. CASE glob[n] = DoubleStar
      <4>1. FilledRow(r, path, glob, n, k)
            <=> n = N \/ \E j \in k .. P : r[<<n + 1, j>>]
        BY <1>1, <2>3, <3>4 DEF FilledRow
      <4>2. FilledRow(r, path, glob, n, k + 1)
            <=> k + 1 <= P /\ (n = N \/ \E j \in k + 1 .. P : r[<<n + 1, j>>])
        BY <1>1, <2>3, <3>4 DEF FilledRow
      <4>3. RestAt(s, path, glob, n, k)
            <=> n = N \/ r[<<n + 1, k>>] \/ FilledRow(r, path, glob, n, k + 1)
        BY <1>1, <2>3, <3>1, <3>2, <3>4 DEF RestAt
      <4>4. k .. P = {k} \cup (k + 1 .. P)
        BY <2>3
      <4>5. (\E j \in k .. P : r[<<n + 1, j>>])
            <=> r[<<n + 1, k>>] \/ \E j \in k + 1 .. P : r[<<n + 1, j>>]
        BY <4>4
      <4>6. (\E j \in k + 1 .. P : r[<<n + 1, j>>]) => k + 1 <= P
        OBVIOUS
      <4>7. FilledRow(r, path, glob, n, k) <=> RestAt(s, path, glob, n, k)
        BY <4>1, <4>2, <4>3, <4>5, <4>6
      <4>8. FilledRow(r, path, glob, n, k) \in BOOLEAN /\ RestAt(s, path, glob, n, k) \in BOOLEAN
        BY <1>1, <2>3, <3>1, <3>4 DEF FilledRow, RestAt
      <4> QED BY <2>1, <4>7, <4>8
    <3> QED BY <3>3, <3>4
  <2> QED BY <1>1, <2>2, <2>3
<1> QED BY <1>2, <1>3


LEMMA RestExists ==
  ASSUME NEW path, NEW glob, Len(glob) \in Nat, Len(path) \in Nat
  PROVE  \E r : IsRest(r, path, glob)
<1>1. PICK N \in Nat, P \in Nat : N = Len(glob) /\ P = Len(path)
  OBVIOUS
<1> DEFINE Good(r, m) ==
             /\ r = [here \in Grid(path, glob) |-> r[here]]
             /\ Solved(r, path, glob, N + 1 - m)
           T == {m \in Nat : m <= N => \E r : Good(r, m)}
<1>2. 0 \in T
  <2> DEFINE r == [here \in Grid(path, glob) |-> here[2] > P]
  <2>1. r = [here \in Grid(path, glob) |-> r[here]]
    OBVIOUS
  <2>2. ASSUME NEW n \in 1 .. N + 1, NEW k \in 1 .. P + 1, n >= N + 1 - 0
        PROVE  r[<<n, k>>] = RestAt(r, path, glob, n, k)
    <3>1. <<n, k>> \in Grid(path, glob) /\ <<n, k>>[2] = k
      BY <1>1 DEF Grid
    <3>2. r[<<n, k>>] = (k > P)
      BY <3>1
    <3>3. RestAt(r, path, glob, n, k) = (n > N /\ k > P)
      BY <1>1, <2>2 DEF RestAt
    <3> QED BY <2>2, <3>2, <3>3
  <2>3. Good(r, 0)
    <3> HIDE DEF r
    <3> QED BY <1>1, <2>1, <2>2 DEF Solved
  <2> HIDE DEF r, Good
  <2> QED BY <2>3
<1>3. ASSUME NEW m \in Nat, m \in T PROVE m + 1 \in T
  <2> SUFFICES ASSUME m + 1 <= N PROVE \E s : Good(s, m + 1)
    OBVIOUS
  <2>1. PICK r : Good(r, m)
    BY <1>3
  <2>2. PICK low \in 1 .. N : low = N - m
    OBVIOUS
  <2> DEFINE s == [here \in Grid(path, glob) |->
                     IF here[1] = low THEN FilledRow(r, path, glob, low, here[2])
                     ELSE r[here]]
  <2>3. s = [here \in Grid(path, glob) |-> s[here]]
    OBVIOUS
  <2>4. ASSUME NEW n \in 1 .. N + 1, NEW k \in 1 .. P + 1
        PROVE  s[<<n, k>>] = IF n = low THEN FilledRow(r, path, glob, low, k)
                             ELSE r[<<n, k>>]
    <3>1. <<n, k>> \in Grid(path, glob) /\ <<n, k>>[1] = n /\ <<n, k>>[2] = k
      BY <1>1 DEF Grid
    <3> QED BY <3>1
  <2>5. Solved(r, path, glob, low + 1)
    BY <2>1, <2>2, N + 1 - m = low + 1
  <2>6. Solved(s, path, glob, low)
    <3>1. /\ Len(glob) \in Nat /\ Len(path) \in Nat /\ low \in 1 .. Len(glob)
          /\ \A n \in 1 .. Len(glob) + 1, k \in 1 .. Len(path) + 1 :
               s[<<n, k>>] = IF n = low THEN FilledRow(r, path, glob, low, k)
                             ELSE r[<<n, k>>]
      BY <1>1, <2>4
    <3> HIDE DEF s, Good, T
    <3> QED BY <2>5, <3>1, FillingSolves
  <2>7. N + 1 - (m + 1) = low
    BY <2>2
  <2>8. Good(s, m + 1)
    <3> HIDE DEF s
    <3> QED BY <2>3, <2>6, <2>7
  <2> HIDE DEF s, Good
  <2> QED BY <2>8
<1>4. N \in T
  <2> HIDE DEF T
  <2> QED BY <1>2, <1>3, EveryNumber
<1>5. PICK r : Good(r, N)
  <2> HIDE DEF Good
  <2> QED BY <1>4
<1>6. Solved(r, path, glob, 1)
  BY <1>5, N + 1 - N = 1
<1>7. ASSUME NEW here \in Grid(path, glob)
      PROVE  r[here] = RestAt(r, path, glob, here[1], here[2])
  <2>1. /\ here = <<here[1], here[2]>>
        /\ here[1] \in 1 .. Len(glob) + 1 /\ here[2] \in 1 .. Len(path) + 1
    BY DEF Grid
  <2>2. here[1] >= 1
    BY <1>1, <2>1
  <2>3. r[<<here[1], here[2]>>] = RestAt(r, path, glob, here[1], here[2])
    <3> HIDE DEF Good, T
    <3> QED BY <1>6, <2>1, <2>2 DEF Solved
  <2> QED BY <2>1, <2>3
<1>8. r = [here \in Grid(path, glob) |-> r[here]]
  BY <1>5
<1>9. [here \in Grid(path, glob) |-> r[here]]
      = [here \in Grid(path, glob) |-> RestAt(r, path, glob, here[1], here[2])]
  <2> HIDE DEF Good, T
  <2> QED BY <1>7
<1>10. r = [here \in Grid(path, glob) |-> RestAt(r, path, glob, here[1], here[2])]
  <2> HIDE DEF Good, T
  <2> QED BY <1>8, <1>9
<1>11. IsRest(r, path, glob)
  <2> HIDE DEF Good, T
  <2> QED BY <1>10, Zenon DEF IsRest, RestAt, Grid
<1> QED BY <1>11

\* A `**` is behind any number of the names that are left.
Skips(r, glob, N, P) ==
  \A n \in 1 .. N, k \in 1 .. P + 1 :
    glob[n] = DoubleStar =>
      (r[<<n, k>>] <=> k <= P /\ (n = N \/ \E j \in k .. P : r[<<n + 1, j>>]))

LEMMA StarSkips ==
  ASSUME NEW path, NEW glob, NEW N, NEW P, N \in Nat, P \in Nat,
         N = Len(glob), P = Len(path), NEW r, IsRest(r, path, glob)
  PROVE  Skips(r, glob, N, P)
<1> SUFFICES ASSUME NEW n \in 1 .. N, NEW k \in 1 .. P + 1, glob[n] = DoubleStar
             PROVE  r[<<n, k>>] <=> k <= P /\ (n = N \/ \E j \in k .. P : r[<<n + 1, j>>])
  BY DEF Skips
<1> DEFINE Claim(i) ==
             r[<<n, i>>] <=> i <= P /\ (n = N \/ \E j \in i .. P : r[<<n + 1, j>>])
           T == {m \in Nat : m <= P => Claim(P + 1 - m)}
<1>1. \A i \in 1 .. P + 1 : r[<<n, i>>] = RestAt(r, path, glob, n, i)
  BY RestValues, n \in 1 .. N + 1
<1>2. r[<<n, P + 1>>] = RestAt(r, path, glob, n, P + 1)
  BY <1>1
<1>3. ~r[<<n, P + 1>>]
  <2>1. ~RestAt(r, path, glob, n, P + 1)
    BY n <= Len(glob), P + 1 > Len(path) DEF RestAt
  <2> QED BY <1>2, <2>1
<1>4. 0 \in T
  BY <1>3, P + 1 - 0 = P + 1
<1>5. ASSUME NEW m \in Nat, m \in T PROVE m + 1 \in T
  <2> SUFFICES ASSUME m + 1 <= P PROVE Claim(P + 1 - (m + 1))
    <3> HIDE DEF Claim
    <3> QED OBVIOUS
  <2>1. PICK i \in 1 .. P : i = P - m
    <3>1. P - m \in 1 .. P
      <4> HIDE DEF T, Claim
      <4> QED OBVIOUS
    <3> QED BY <3>1
  <2>2. P + 1 - (m + 1) = i /\ P + 1 - m = i + 1
    BY <2>1
  <2>3. Claim(i + 1)
    <3>1. Claim(P + 1 - m)
      <4>1. m <= P
        OBVIOUS
      <4> HIDE DEF Claim
      <4> QED BY <1>5, <4>1
    <3> HIDE DEF Claim, T
    <3> QED BY <2>2, <3>1
  <2>4. r[<<n, i>>] = RestAt(r, path, glob, n, i)
    BY <1>1
  <2>5. r[<<n, i>>] <=> n = N \/ r[<<n + 1, i>>] \/ r[<<n, i + 1>>]
    <3>1. ~(n > Len(glob) \/ i > Len(path))
      OBVIOUS
    <3>2. RestAt(r, path, glob, n, i)
          = (n = Len(glob) \/ r[<<n + 1, i>>] \/ r[<<n, i + 1>>])
      BY <3>1 DEF RestAt
    <3> QED BY <2>4, <3>2
  <2>6. i .. P = {i} \cup (i + 1 .. P)
    OBVIOUS
  <2>7. (\E j \in i .. P : r[<<n + 1, j>>])
        <=> r[<<n + 1, i>>] \/ \E j \in i + 1 .. P : r[<<n + 1, j>>]
    BY <2>6
  <2>8. (\E j \in i + 1 .. P : r[<<n + 1, j>>]) => i + 1 <= P
    OBVIOUS
  <2>9. Claim(i)
    <3>1. CASE n = N
      BY <2>5, <3>1
    <3>2. CASE n # N
      <4>1. r[<<n, i + 1>>] <=> \E j \in i + 1 .. P : r[<<n + 1, j>>]
        BY <2>3, <2>8, <3>2
      <4>2. r[<<n, i>>] <=> \E j \in i .. P : r[<<n + 1, j>>]
        BY <2>5, <2>7, <3>2, <4>1
      <4> QED BY <3>2, <4>2
    <3> QED BY <3>1, <3>2
  <2> HIDE DEF Claim
  <2> QED BY <2>2, <2>9
<1>6. P + 1 - k \in T
  <2>1. \A m \in Nat : m \in T => m + 1 \in T
    BY <1>5
  <2>2. P + 1 - k \in Nat
    OBVIOUS
  <2> HIDE DEF T
  <2>3. Nat \subseteq T
    BY <1>4, <2>1, EveryNumber
  <2> QED BY <2>2, <2>3
<1>7. CASE k = P + 1
  BY <1>3, <1>7
<1>8. CASE k # P + 1
  <2>1. P + 1 - k <= P /\ P + 1 - (P + 1 - k) = k
    OBVIOUS
  <2>2. Claim(k)
    <3> HIDE DEF Claim
    <3> QED BY <1>6, <2>1
  <2> QED BY <2>2
<1> QED BY <1>7, <1>8


\* Each segment but the last leaves something of the path.
LEMMA BehindLeaves ==
  ASSUME NEW path, NEW glob, NEW N \in Nat, NEW P \in Nat \ {0},
         N = Len(glob), P = Len(path), NEW b, IsBehind(b, path, glob)
  PROVE  \A n \in 0 .. N : b[n] \subseteq 0 .. P /\ (n < N => b[n] \subseteq 0 .. P - 1)
<1> DEFINE T == {n \in Nat : n <= N => /\ b[n] \subseteq 0 .. P
                                       /\ n < N => b[n] \subseteq 0 .. P - 1}
<1>1. \A n \in 0 .. N : b[n] = BehindAt(b, path, glob, n)
  BY BehindValues
<1>2. 0 \in T
  <2>1. b[0] = BehindAt(b, path, glob, 0)
    BY <1>1
  <2>2. b[0] = {0}
    BY <2>1 DEF BehindAt
  <2> QED BY <2>2
<1>3. ASSUME NEW n \in Nat, n \in T PROVE n + 1 \in T
  <2> SUFFICES ASSUME n + 1 <= N
               PROVE  /\ b[n + 1] \subseteq 0 .. P
                      /\ n + 1 < N => b[n + 1] \subseteq 0 .. P - 1
    OBVIOUS
  <2>1. b[n] \subseteq 0 .. P - 1
    BY <1>3
  <2>2. b[n + 1] = UNION {After(glob, n + 1, path, k) : k \in b[n]}
    <3>1. n + 1 \in 0 .. N /\ n + 1 # 0 /\ (n + 1) - 1 = n
      OBVIOUS
    <3>2. b[n + 1] = BehindAt(b, path, glob, n + 1)
      BY <1>1, <3>1
    <3> QED BY <3>1, <3>2 DEF BehindAt
  <2>3. ASSUME NEW k \in 0 .. P - 1, NEW j \in After(glob, n + 1, path, k)
        PROVE  j \in 0 .. P /\ (n + 1 < N => j \in 0 .. P - 1)
    <3>1. CASE glob[n + 1] = DoubleStar /\ n + 1 = N
      BY <2>3, <3>1 DEF After
    <3>2. CASE glob[n + 1] = DoubleStar /\ n + 1 < N
      BY <2>3, <3>2 DEF After
    <3>3. CASE glob[n + 1] # DoubleStar
      BY <2>3, <3>3 DEF After, Takes
    <3> QED BY <3>1, <3>2, <3>3
  <2> HIDE DEF T
  <2> QED BY <2>1, <2>2, <2>3
<1>4. Nat \subseteq T
  <2> HIDE DEF T
  <2> QED BY <1>2, <1>3, EveryNumber
<1> QED BY <1>4

LEMMA PieceOfPath ==
  ASSUME NEW path, NEW P \in Nat, P = Len(path), NEW k \in Nat, NEW j \in k + 1 .. P
  PROVE  /\ SubSeq(path, k + 1, k + 1) = <<path[k + 1]>>
         /\ Len(SubSeq(path, k + 1, j)) = j - k
<1>1. SubSeq(path, k + 1, k + 1) = <<path[k + 1]>>
  <2>1. SubSeq(path, k + 1, k + 1) = [i \in 1 .. 1 |-> path[i + (k + 1) - 1]]
    BY (1 + (k + 1)) - (k + 1) = 1
  <2>2. \A i \in 1 .. 1 : path[i + (k + 1) - 1] = path[k + 1]
    OBVIOUS
  <2>3. SubSeq(path, k + 1, k + 1) = [i \in 1 .. 1 |-> path[k + 1]]
    BY <2>1, <2>2
  <2>4. <<path[k + 1]>> = [i \in 1 .. 1 |-> path[k + 1]]
    OBVIOUS
  <2> QED BY <2>3, <2>4
<1>2. Len(SubSeq(path, k + 1, j)) = j - k
  OBVIOUS
<1> QED BY <1>1, <1>2

\* What one segment leaves is what the rest of the glob goes on from; where it takes
\* no more than a name, only that.
LEMMA OneSegment ==
  ASSUME NEW path, NEW glob, NEW N, NEW P, N \in Nat, P \in Nat, P # 0,
         N = Len(glob), P = Len(path), NEW r, IsRest(r, path, glob),
         NEW n \in 1 .. N, NEW k \in 0 .. P - 1
  PROVE  LET on == \E j \in After(glob, n, path, k) : r[<<n + 1, j + 1>>] IN
         /\ r[<<n, k + 1>>] => on
         /\ Confined(glob) => (on => r[<<n, k + 1>>])
<1>1. \A i \in 1 .. N + 1, j \in 1 .. P + 1 : r[<<i, j>>] = RestAt(r, path, glob, i, j)
  <2>1. Len(glob) \in Nat /\ Len(path) \in Nat
    OBVIOUS
  <2>2. \A i \in 1 .. Len(glob) + 1, j \in 1 .. Len(path) + 1 :
          r[<<i, j>>] = RestAt(r, path, glob, i, j)
    BY <2>1, RestValues
  <2> QED BY <2>2
<1>2. \A j \in 1 .. P + 1 : r[<<N + 1, j>>] <=> j > P
  <2> SUFFICES ASSUME NEW j \in 1 .. P + 1 PROVE r[<<N + 1, j>>] <=> j > P
    OBVIOUS
  <2>1. r[<<N + 1, j>>] = RestAt(r, path, glob, N + 1, j)
    BY <1>1
  <2>2. RestAt(r, path, glob, N + 1, j) = (j > P)
    <3>1. N + 1 > Len(glob)
      OBVIOUS
    <3> QED BY <3>1 DEF RestAt
  <2> QED BY <2>1, <2>2
<1>3. n < N => ~r[<<n + 1, P + 1>>]
  <2> SUFFICES ASSUME n < N PROVE ~r[<<n + 1, P + 1>>]
    OBVIOUS
  <2>1. r[<<n + 1, P + 1>>] = RestAt(r, path, glob, n + 1, P + 1)
    BY <1>1
  <2>2. ~(n + 1 > Len(glob)) /\ P + 1 > Len(path)
    OBVIOUS
  <2>3. ~RestAt(r, path, glob, n + 1, P + 1)
    BY <2>2 DEF RestAt
  <2> QED BY <2>1, <2>3
<1>4. k + 1 \in 1 .. P + 1 /\ k + 1 <= P /\ n \in 1 .. N + 1
  OBVIOUS
<1>0. \A i \in 1 .. P + 1 :
        glob[n] = DoubleStar =>
          (r[<<n, i>>] <=> i <= P /\ (n = N \/ \E j \in i .. P : r[<<n + 1, j>>]))
  <2>1. Skips(r, glob, N, P)
    BY StarSkips
  <2> QED BY <2>1 DEF Skips
<1>5. CASE glob[n] = DoubleStar /\ n = N
  <2>1. After(glob, n, path, k) = {P}
    BY <1>5 DEF After
  <2>2. r[<<n + 1, P + 1>>]
    BY <1>2, <1>5
  <2>3. r[<<n, k + 1>>]
    BY <1>0, <1>4, <1>5
  <2> QED BY <2>1, <2>2, <2>3
<1>6. CASE glob[n] = DoubleStar /\ n < N
  <2>1. After(glob, n, path, k) = k .. P - 1
    BY <1>6 DEF After
  <2>2. r[<<n, k + 1>>] <=> \E j \in k + 1 .. P : r[<<n + 1, j>>]
    <3>1. \A i \in 1 .. P + 1 :
            r[<<n, i>>] <=> i <= P /\ (n = N \/ \E j \in i .. P : r[<<n + 1, j>>])
      BY <1>0, <1>6
    <3>2. r[<<n, k + 1>>] <=>
            k + 1 <= P /\ (n = N \/ \E j \in k + 1 .. P : r[<<n + 1, j>>])
      BY <1>4, <3>1
    <3>3. k + 1 <= P /\ n # N
      BY <1>4, <1>6
    <3> QED BY <3>2, <3>3, Zenon
  <2>3. ASSUME NEW j \in k + 1 .. P, r[<<n + 1, j>>]
        PROVE  \E i \in k .. P - 1 : r[<<n + 1, i + 1>>]
    <3>1. j - 1 \in k .. P - 1 /\ (j - 1) + 1 = j
      OBVIOUS
    <3> QED BY <2>3, <3>1
  <2>4. ASSUME NEW i \in k .. P - 1, r[<<n + 1, i + 1>>]
        PROVE  \E j \in k + 1 .. P : r[<<n + 1, j>>]
    <3>1. i + 1 \in k + 1 .. P
      OBVIOUS
    <3> QED BY <2>4, <3>1
  <2> QED BY <2>1, <2>2, <2>3, <2>4
<1>7. CASE glob[n] # DoubleStar
  <2>1. After(glob, n, path, k) =
          {j \in k + 1 .. P : SubSeq(path, k + 1, j) \in glob[n] /\ (j = P) = (n = N)}
    BY <1>7 DEF After, Takes
  <2>2. r[<<n, k + 1>>] <=> <<path[k + 1]>> \in glob[n] /\ r[<<n + 1, k + 2>>]
    <3>1. r[<<n, k + 1>>] = RestAt(r, path, glob, n, k + 1)
      BY <1>1, <1>4
    <3>2. ~(n > Len(glob) \/ k + 1 > Len(path)) /\ (k + 1) + 1 = k + 2
      OBVIOUS
    <3>3. RestAt(r, path, glob, n, k + 1)
          = (<<path[k + 1]>> \in glob[n] /\ r[<<n + 1, k + 2>>])
      BY <1>7, <3>2 DEF RestAt
    <3> QED BY <3>1, <3>3
  <2>3. r[<<n + 1, k + 2>>] => (k + 1 = P <=> n = N)
    <3>1. CASE n = N
      <4>1. k + 2 \in 1 .. P + 1
        OBVIOUS
      <4> QED BY <1>2, <3>1, <4>1
    <3>2. CASE n < N
      <4>1. k + 1 = P => k + 2 = P + 1
        OBVIOUS
      <4> QED BY <1>3, <3>2, <4>1
    <3> QED BY <3>1, <3>2
  <2>4. SubSeq(path, k + 1, k + 1) = <<path[k + 1]>> /\ k + 1 \in k + 1 .. P
    BY PieceOfPath
  <2>5. r[<<n, k + 1>>] => \E j \in After(glob, n, path, k) : r[<<n + 1, j + 1>>]
    BY <2>1, <2>2, <2>3, <2>4, (k + 1) + 1 = k + 2
  <2>6. ASSUME Confined(glob), NEW j \in After(glob, n, path, k), r[<<n + 1, j + 1>>]
        PROVE  r[<<n, k + 1>>]
    <3>1. j \in k + 1 .. P /\ SubSeq(path, k + 1, j) \in glob[n]
      BY <2>1
    <3>2. Len(SubSeq(path, k + 1, j)) = 1
      BY <1>7, <2>6, <3>1 DEF Confined
    <3>3. Len(SubSeq(path, k + 1, j)) = j - k
      BY <3>1, PieceOfPath
    <3>4. j = k + 1
      BY <3>1, <3>2, <3>3
    <3> QED BY <2>2, <2>4, <2>6, <3>1, <3>4, (k + 1) + 1 = k + 2
  <2> QED BY <2>5, <2>6
<1>8. n = N \/ n < N
  OBVIOUS
<1> QED BY <1>5, <1>6, <1>7, <1>8

\* Whatever the glob and the path, ours matches what the harness's glob does, and no
\* more where no segment takes a separator (grader.py, `_full_match`).
LEMMA GlobsAgree ==
  ASSUME NEW path, NEW glob, Len(glob) \in Nat, Len(path) \in Nat \ {0}
  PROVE  /\ Matches(path, glob) => FullMatch(path, glob)
         /\ Confined(glob) => (FullMatch(path, glob) => Matches(path, glob))
<1>1. PICK N \in Nat, P \in Nat \ {0} : N = Len(glob) /\ P = Len(path)
  OBVIOUS
<1>2. PICK b : IsBehind(b, path, glob) /\ FullMatch(path, glob) = (P \in b[N])
  <2> DEFINE b == CHOOSE b_1 : IsBehind(b_1, path, glob)
  <2>1. IsBehind(b, path, glob)
    BY BehindExists
  <2>2. FullMatch(path, glob) = (Len(path) \in b[Len(glob)])
    BY BehindIsChosen, Zenon
  <2> HIDE DEF b
  <2> QED BY <1>1, <2>1, <2>2
<1>3. PICK r : IsRest(r, path, glob) /\ Matches(path, glob) = r[<<1, 1>>]
  <2> DEFINE r == CHOOSE r_1 : IsRest(r_1, path, glob)
  <2>1. IsRest(r, path, glob)
    BY RestExists
  <2>2. Matches(path, glob) = r[<<1, 1>>]
    BY RestIsChosen, Zenon
  <2> HIDE DEF r
  <2> QED BY <2>1, <2>2
<1>4. \A n \in 0 .. N : b[n] \subseteq 0 .. P /\ (n < N => b[n] \subseteq 0 .. P - 1)
  BY <1>1, <1>2, BehindLeaves
<1> DEFINE On(n) == \E k \in b[n] : r[<<n + 1, k + 1>>]
           T == {m \in Nat : m <= N => /\ On(N - m) => P \in b[N]
                                       /\ Confined(glob) => (P \in b[N] => On(N - m))}
<1>5. 0 \in T
  <2>1. \A k \in 0 .. P : r[<<N + 1, k + 1>>] <=> k = P
    <3> SUFFICES ASSUME NEW k \in 0 .. P PROVE r[<<N + 1, k + 1>>] <=> k = P
      OBVIOUS
    <3>1. r[<<N + 1, k + 1>>] = RestAt(r, path, glob, N + 1, k + 1)
      BY <1>1, <1>3, RestValues
    <3>2. RestAt(r, path, glob, N + 1, k + 1) = (k + 1 > P)
      <4>1. N + 1 > Len(glob)
        BY <1>1
      <4> QED BY <1>1, <4>1 DEF RestAt
    <3>3. (k + 1 > P) <=> k = P
      OBVIOUS
    <3> HIDE DEF On, T
    <3> QED BY <3>1, <3>2, <3>3
  <2>2. N - 0 = N /\ b[N] \subseteq 0 .. P
    BY <1>4
  <2>3. On(N) <=> P \in b[N]
    BY <2>1, <2>2
  <2> HIDE DEF On
  <2> QED BY <2>2, <2>3
<1>6. ASSUME NEW m \in Nat, m \in T PROVE m + 1 \in T
  <2> SUFFICES ASSUME m + 1 <= N
               PROVE  /\ On(N - (m + 1)) => P \in b[N]
                      /\ Confined(glob) => (P \in b[N] => On(N - (m + 1)))
    <3> HIDE DEF On
    <3> QED BY DEF T
  <2>1. PICK n \in 1 .. N : n = N - m
    <3>1. N - m \in 1 .. N
      <4> HIDE DEF T, On
      <4> QED OBVIOUS
    <3> QED BY <3>1
  <2>2. N - (m + 1) = n - 1 /\ n - 1 \in 0 .. N /\ n - 1 < N /\ (n - 1) + 1 = n
    BY <2>1
  <2>3. /\ On(n) => P \in b[N]
        /\ Confined(glob) => (P \in b[N] => On(n))
    <3> HIDE DEF On
    <3> QED BY <1>6, <2>1
  <2>4. b[n - 1] \subseteq 0 .. P - 1
    BY <1>4, <2>2
  <2>5. b[n] = UNION {After(glob, n, path, k) : k \in b[n - 1]}
    <3>1. b[n] = BehindAt(b, path, glob, n)
      BY <1>1, <1>2, BehindValues
    <3> QED BY <3>1 DEF BehindAt
  <2>6. \A k \in 0 .. P - 1 :
          LET on == \E j \in After(glob, n, path, k) : r[<<n + 1, j + 1>>] IN
          /\ r[<<n, k + 1>>] => on
          /\ Confined(glob) => (on => r[<<n, k + 1>>])
    BY <1>1, <1>3, OneSegment
  <2>7. On(n - 1) <=> \E k \in b[n - 1] : r[<<n, k + 1>>]
    BY <2>2
  <2>8. On(n) <=> \E k \in b[n - 1] : \E j \in After(glob, n, path, k) : r[<<n + 1, j + 1>>]
    BY <2>5
  <2>9. (On(n - 1) => On(n)) /\ (Confined(glob) => (On(n) => On(n - 1)))
    <3> HIDE DEF On, T
    <3> QED BY <2>4, <2>6, <2>7, <2>8
  <2> HIDE DEF On
  <2> QED BY <2>2, <2>3, <2>9
<1>7. N \in T
  <2> HIDE DEF T
  <2> QED BY <1>5, <1>6, EveryNumber
<1>8. (On(0) => P \in b[N]) /\ (Confined(glob) => (P \in b[N] => On(0)))
  <2> HIDE DEF On
  <2> QED BY <1>7, N - N = 0
<1>9. b[0] = {0}
  <2>1. b[0] = BehindAt(b, path, glob, 0)
    BY <1>1, <1>2, BehindValues
  <2> QED BY <2>1 DEF BehindAt
<1>10. (r[<<1, 1>>] => P \in b[N]) /\ (Confined(glob) => (P \in b[N] => r[<<1, 1>>]))
  BY <1>8, <1>9
<1> QED BY <1>2, <1>3, <1>10

-----------------------------------------------------------------------------
(* The structural graders.                                                 *)

LEMMA LeastOfNaturals ==
  ASSUME NEW S, S \subseteq Nat, S # {}
  PROVE  Min(S) \in S /\ \A n \in S : Min(S) <= n
<1>1. S \in SUBSET Nat
  OBVIOUS
<1>2. \E n \in S : \A m \in S : n <= m
  BY <1>1, LeastNumber
<1> QED BY <1>2 DEF Min

\* A config with one field set anew.
LEMMA FieldSet ==
  ASSUME NEW g, NEW f, NEW v, NEW h, h = [g EXCEPT ![f] = v]
  PROVE  \A e \in DOMAIN g : h[e] = IF e = f THEN v ELSE g[e]
OBVIOUS

LEMMA MatchingAreCalls ==
  ASSUME NEW s, Len(s.calls) \in Nat, DOMAIN s.calls = 1 .. Len(s.calls),
         NEW tool, NEW picky
  PROVE  /\ MatchingCalls(tool, picky, s) \subseteq Nat
         /\ Cardinality(MatchingCalls(tool, picky, s)) \in Nat
         /\ MatchingCalls(tool, picky, s) \subseteq MatchingCalls(tool, FALSE, s)
<1>1. IsFiniteSet(1 .. Len(s.calls))
  BY FS_Interval
<1>2. MatchingCalls(tool, picky, s) \subseteq 1 .. Len(s.calls)
  BY DEF MatchingCalls
<1>3. IsFiniteSet(MatchingCalls(tool, picky, s))
  BY <1>1, <1>2, FS_Subset
<1>4. Cardinality(MatchingCalls(tool, picky, s)) \in Nat
  BY <1>3, FS_CardinalityType
<1>5. MatchingCalls(tool, picky, s) \subseteq MatchingCalls(tool, FALSE, s)
  BY DEF MatchingCalls
<1>6. 1 .. Len(s.calls) \subseteq Nat
  OBVIOUS
<1>7. MatchingCalls(tool, picky, s) \subseteq Nat
  BY <1>2, <1>6
<1> QED BY <1>4, <1>5, <1>7


\* What GradersAreExact says of one grader.
Exact(g, s) ==
  LET lost == \/ g.broken
              \/ g.type = "regex" /\ s.text[g.target] = Absent
  IN
  /\ Negatable(g) /\ ~Raises(g, s) =>
       (Structural(g, s) = Structural(Negation(g), s)) = lost
  /\ g.type = "file_exists" /\ Compiles(g.glob) =>
       \A path \in s.created :
         /\ Matches(path, g.glob) => FullMatch(path, g.glob)
         /\ Confined(g.glob) => (FullMatch(path, g.glob) => Matches(path, g.glob))
  /\ g.type = "tool_order" =>
       ~(/\ Structural(g, s)
         /\ Structural([g EXCEPT !.before = g.after, !.after = g.before], s))

\* A session, as GradingAssumption has it.
Recorded(s) ==
  /\ s.text \in [{"last_message", "file"} -> Nat \cup {Absent}]
  /\ Len(s.calls) \in Nat /\ DOMAIN s.calls = 1 .. Len(s.calls)
  /\ \A path \in s.created : Len(path) \in Nat \ {0}

LEMMA RegexIsExact ==
  ASSUME NEW g, Configured(g), NEW s, Recorded(s), Negatable(g), g.type = "regex"
  PROVE  (Structural(g, s) = Structural(Negation(g), s))
         = (g.broken \/ s.text[g.target] = Absent)
<1>1. PICK h : h = Negation(g)
  OBVIOUS
<1>2. h = [g EXCEPT !.match = IF @ = "contains" THEN "not_contains" ELSE "contains"]
  BY <1>1 DEF Negation
<1>3. /\ {"name", "standin", "broken", "type", "target", "match", "expected"} \subseteq DOMAIN g
      /\ g.broken \in BOOLEAN /\ g.match \in {"contains", "not_contains"}
      /\ g.target \in {"last_message", "file"}
  BY DEF Configured, Negatable
<1>4. /\ h.type = "regex" /\ h.broken = g.broken /\ h.target = g.target
      /\ h.match = IF g.match = "contains" THEN "not_contains" ELSE "contains"
  BY <1>2, <1>3
<1>5. PICK hits \in Nat \cup {Absent} : hits = s.text[g.target]
  BY <1>3 DEF Recorded
<1>6. Structural(g, s) = (~g.broken /\ Regex(g, s))
  BY DEF Structural
<1>7. Structural(h, s) = (~g.broken /\ Regex(h, s))
  BY <1>4 DEF Structural
<1>8. Regex(g, s) = (hits # Absent /\ IF g.match = "contains" THEN hits > 0 ELSE hits = 0)
  BY <1>3, <1>5 DEF Regex
<1>9. Regex(h, s) = (hits # Absent /\ IF g.match = "contains" THEN hits = 0 ELSE hits > 0)
  BY <1>3, <1>4, <1>5 DEF Regex
<1>10. hits # Absent => hits \in Nat /\ ((hits > 0) <=> ~(hits = 0))
  OBVIOUS
<1>11. (Structural(g, s) = Structural(h, s)) = (g.broken \/ hits = Absent)
  BY <1>3, <1>6, <1>7, <1>8, <1>9, <1>10
<1> QED BY <1>1, <1>5, <1>11

LEMMA UseIsExact ==
  ASSUME NEW g, Configured(g), NEW s, Recorded(s), Negatable(g), g.type = "tool_used"
  PROVE  (Structural(g, s) = Structural(Negation(g), s)) = g.broken
<1>1. PICK h : h = Negation(g)
  OBVIOUS
<1>2. h = [g EXCEPT !.min = 0, !.max = g.min - 1]
  BY <1>1 DEF Negation
<1>3. /\ {"name", "standin", "broken", "type", "tool", "picky", "min", "max"} \subseteq DOMAIN g
      /\ g.broken \in BOOLEAN /\ g.min \in Nat /\ g.min > 0 /\ g.max = Absent
  BY DEF Configured, Negatable
<1>4. /\ h.type = "tool_used" /\ h.broken = g.broken /\ h.tool = g.tool
      /\ h.picky = g.picky /\ h.min = 0 /\ h.max = g.min - 1
  BY <1>2, <1>3
<1>5. PICK count \in Nat : count = Cardinality(MatchingCalls(g.tool, g.picky, s))
  BY MatchingAreCalls DEF Recorded
<1>6. Structural(g, s) = (~g.broken /\ ToolUsed(g, s))
  BY DEF Structural
<1>7. Structural(h, s) = (~g.broken /\ ToolUsed(h, s))
  BY <1>4 DEF Structural
<1>8. ToolUsed(g, s) = (count >= g.min)
  BY <1>3, <1>5 DEF ToolUsed
<1>9. ToolUsed(h, s) = (count <= g.min - 1)
  <2>1. g.min - 1 \in Nat /\ g.min - 1 # Absent
    BY <1>3, GradingAssumption
  <2> QED BY <1>4, <1>5, <2>1 DEF ToolUsed
<1>10. (count >= g.min) <=> ~(count <= g.min - 1)
  BY <1>3
<1>11. (Structural(g, s) = Structural(h, s)) = g.broken
  BY <1>3, <1>6, <1>7, <1>8, <1>9, <1>10
<1> QED BY <1>1, <1>11

LEMMA FileIsExact ==
  ASSUME NEW g, Configured(g), NEW s, Recorded(s), g.type = "file_exists"
  PROVE  /\ (Structural(g, s) = Structural(Negation(g), s)) = g.broken
         /\ \A path \in s.created :
              /\ Matches(path, g.glob) => FullMatch(path, g.glob)
              /\ Confined(g.glob) => (FullMatch(path, g.glob) => Matches(path, g.glob))
<1>1. PICK h : h = Negation(g)
  OBVIOUS
<1>2. h = [g EXCEPT !.exists = ~@]
  BY <1>1 DEF Negation
<1>3. /\ {"name", "standin", "broken", "type", "glob", "exists"} \subseteq DOMAIN g
      /\ g.broken \in BOOLEAN /\ g.exists \in BOOLEAN /\ Len(g.glob) \in Nat
  BY DEF Configured
<1>4. /\ h.type = "file_exists" /\ h.broken = g.broken /\ h.glob = g.glob
      /\ h.exists = ~g.exists
  BY <1>2, <1>3
<1>5. PICK found \in BOOLEAN : found = \E path \in s.created : FullMatch(path, g.glob)
  OBVIOUS
<1>6. Structural(g, s) = (~g.broken /\ g.exists = found)
  BY <1>5 DEF Structural, FileExists
<1>7. Structural(h, s) = (~g.broken /\ (~g.exists) = found)
  BY <1>4, <1>5 DEF Structural, FileExists
<1>8. (Structural(g, s) = Structural(h, s)) = g.broken
  BY <1>3, <1>6, <1>7
<1>9. \A path \in s.created :
        /\ Matches(path, g.glob) => FullMatch(path, g.glob)
        /\ Confined(g.glob) => (FullMatch(path, g.glob) => Matches(path, g.glob))
  BY <1>3, GlobsAgree DEF Recorded
<1> QED BY <1>1, <1>8, <1>9

LEMMA OrderIsExact ==
  ASSUME NEW g, Configured(g), NEW s, Recorded(s), g.type = "tool_order",
         Structural(g, s),
         Structural([g EXCEPT !.before = g.after, !.after = g.before], s)
  PROVE  FALSE
<1>1. PICK h : h = [g EXCEPT !.before = g.after, !.after = g.before]
  OBVIOUS
<1>2. {"name", "standin", "broken", "type", "before", "after", "picky"} \subseteq DOMAIN g
  BY DEF Configured
<1>3. /\ h.type = "tool_order" /\ h.picky = g.picky
      /\ h.before = g.after /\ h.after = g.before
  BY <1>1, <1>2
<1> DEFINE Wanted(tool) == MatchingCalls(tool, g.picky, s)
           Called(tool) == MatchingCalls(tool, FALSE, s)
<1>4. /\ Wanted(g.before) # {} /\ Called(g.after) # {}
      /\ Min(Wanted(g.before)) < Min(Called(g.after))
  BY DEF Structural, ToolOrder
<1>5. /\ Wanted(g.after) # {} /\ Called(g.before) # {}
      /\ Min(Wanted(g.after)) < Min(Called(g.before))
  BY <1>1, <1>3 DEF Structural, ToolOrder
<1>6. \A tool : /\ Wanted(tool) \subseteq Called(tool)
                /\ Wanted(tool) \subseteq Nat /\ Called(tool) \subseteq Nat
  BY MatchingAreCalls DEF Recorded
<1>7. ASSUME NEW tool, Wanted(tool) # {}
      PROVE  /\ Min(Wanted(tool)) \in Nat /\ Min(Called(tool)) \in Nat
             /\ Min(Called(tool)) <= Min(Wanted(tool))
  <2> HIDE DEF Wanted, Called
  <2>1. Min(Wanted(tool)) \in Wanted(tool)
    BY <1>6, <1>7, LeastOfNaturals
  <2>2. Called(tool) # {}
    BY <1>6, <1>7
  <2>3. Min(Called(tool)) \in Called(tool) /\ \A n \in Called(tool) : Min(Called(tool)) <= n
    BY <1>6, <2>2, LeastOfNaturals
  <2> QED BY <1>6, <2>1, <2>3
<1> HIDE DEF Wanted, Called
<1>8. PICK a \in Nat, b \in Nat, c \in Nat, d \in Nat :
        /\ a = Min(Wanted(g.before)) /\ b = Min(Called(g.after))
        /\ c = Min(Wanted(g.after)) /\ d = Min(Called(g.before))
  BY <1>4, <1>5, <1>7
<1>9. a < b /\ c < d /\ b <= c /\ d <= a
  BY <1>4, <1>5, <1>7, <1>8
<1> QED BY <1>9

LEMMA GraderIsExact ==
  ASSUME NEW g, Configured(g), NEW s, Recorded(s)
  PROVE  Exact(g, s)
<1> DEFINE lost == g.broken \/ (g.type = "regex" /\ s.text[g.target] = Absent)
<1>0. g.broken \in BOOLEAN
  BY DEF Configured
<1>1. Negatable(g) => (Structural(g, s) = Structural(Negation(g), s)) = lost
  <2>1. CASE g.type = "regex"
    <3>1. lost = (g.broken \/ s.text[g.target] = Absent)
      BY <2>1
    <3> HIDE DEF lost
    <3> QED BY <2>1, <3>1, RegexIsExact
  <2>2. CASE g.type = "tool_used"
    <3>1. lost = g.broken
      BY <1>0, <2>2
    <3> HIDE DEF lost
    <3> QED BY <2>2, <3>1, UseIsExact
  <2>3. CASE g.type = "file_exists"
    <3>1. lost = g.broken
      BY <1>0, <2>3
    <3> HIDE DEF lost
    <3> QED BY <2>3, <3>1, FileIsExact
  <2> HIDE DEF lost
  <2> QED BY <2>1, <2>2, <2>3 DEF Negatable
<1>2. g.type = "file_exists" =>
        \A path \in s.created :
          /\ Matches(path, g.glob) => FullMatch(path, g.glob)
          /\ Confined(g.glob) => (FullMatch(path, g.glob) => Matches(path, g.glob))
  BY FileIsExact
<1>3. g.type = "tool_order" =>
        ~(/\ Structural(g, s)
          /\ Structural([g EXCEPT !.before = g.after, !.after = g.before], s))
  BY OrderIsExact
<1> QED BY <1>1, <1>2, <1>3, Zenon DEF Exact

Chosen == graders \in Suites /\ session \in Sessions

\* Of every structural grader and its opposite exactly one passes, unless nobody
\* could look or its glob does not compile; its glob matches what the harness's does,
\* and more only by a class that takes a separator (grader.py, `grade`).
THEOREM GradersStayExact == GradingSpec => []GradersAreExact
<1>1. GradingInit => Chosen
  BY DEF GradingInit, Chosen
<1>2. Chosen /\ [GradingNext]_gradingVars => Chosen'
  BY DEF Chosen, GradingNext, gradingVars, Skip, GradeStructural, GradeRaises, DoNotAsk,
         Vote, Count, Give
<1>3. Chosen => GradersAreExact
  <2> SUFFICES ASSUME Chosen, NEW n \in DOMAIN graders PROVE Exact(graders[n], session)
    BY Zenon DEF GradersAreExact, Exact
  <2>1. Configured(graders[n]) /\ Recorded(session)
    BY GradingAssumption DEF Chosen, Recorded
  <2> QED BY <2>1, GraderIsExact
<1> QED BY <1>1, <1>2, <1>3, PTL DEF GradingSpec
-----------------------------------------------------------------------------
(* The judge.                                                              *)

Reply == [vote : {"PASS", "FAIL", "LOST"}, said : BOOLEAN]

Outcome ==
  [passed : BOOLEAN, skipped : BOOLEAN, from : Seq(Reply), said : Nat \cup {Absent},
   votes : Seq(BOOLEAN)]

\* What VotesDecide says of one result.
Yes(r) == {k \in DOMAIN r.votes : r.votes[k]}

Decided(r) ==
  /\ r.votes # <<>> => /\ Len(r.votes) = votes
                       /\ r.passed = (2 * Cardinality(Yes(r)) > votes)
  /\ r.votes = <<>> => ~r.passed
  /\ r.said # Absent => r.from[r.said].vote = IF r.passed THEN "PASS" ELSE "FAIL"

GradingInv ==
  /\ votes \in Nat \ {0}
  /\ replies \in Seq(Reply) /\ results \in Seq(Outcome)
  /\ \A n \in DOMAIN results : AsksJudge(graders[n]) => Decided(results[n])
-----------------------------------------------------------------------------
LEMMA RepliesRead == \A stdout \in DOMAIN ReadReply : ReadReply[stdout] \in Reply
<1>1. DOMAIN ReadReply = {"lost", "barePass", "bareFail", "pass", "fail"}
  BY DEF ReadReply
<1>2. /\ ReadReply["lost"] \in Reply /\ ReadReply["barePass"] \in Reply
      /\ ReadReply["bareFail"] \in Reply /\ ReadReply["pass"] \in Reply
      /\ ReadReply["fail"] \in Reply
  BY DEF ReadReply, Reply
<1> QED BY <1>1, <1>2

\* The votes of a result are as many as the replies they were read from.
LEMMA VotesOfReplies ==
  ASSUME NEW from \in Seq(Reply), NEW v, v = [n \in DOMAIN from |-> from[n].vote = "PASS"]
  PROVE  /\ v \in Seq(BOOLEAN) /\ Len(v) = Len(from)
         /\ (v = <<>>) <=> (Len(from) = 0)
         /\ {k \in DOMAIN v : v[k]} = Cast(from, "PASS")
<1>1. Len(from) \in Nat /\ DOMAIN from = 1 .. Len(from)
  BY LenProperties
<1>2. v \in [1 .. Len(from) -> BOOLEAN]
  BY <1>1
<1>3. v \in Seq(BOOLEAN)
  BY <1>1, <1>2, SeqDef
<1>4. DOMAIN v = 1 .. Len(from) /\ Len(v) = Len(from)
  BY <1>1, <1>2, <1>3, LenProperties
<1>5. (v = <<>>) <=> (Len(from) = 0)
  BY <1>1, <1>3, <1>4, EmptySeq
<1>6. {k \in DOMAIN v : v[k]} = Cast(from, "PASS")
  BY <1>1, <1>4 DEF Cast
<1> QED BY <1>3, <1>4, <1>5, <1>6

\* A result nobody voted for fails, and quotes nobody.
LEMMA UnaskedFails ==
  ASSUME NEW skipped \in BOOLEAN
  PROVE  /\ Result(FALSE, skipped, <<>>, Absent) \in Outcome
         /\ Decided(Result(FALSE, skipped, <<>>, Absent))
<1>1. <<>> \in Seq(Reply) /\ Len(<<>>) = 0
  BY EmptySeq
<1>2. PICK r : r = Result(FALSE, skipped, <<>>, Absent)
  OBVIOUS
<1>3. /\ ~r.passed /\ r.from = <<>> /\ r.said = Absent
      /\ r.votes = [n \in DOMAIN <<>> |-> <<>>[n].vote = "PASS"]
  BY <1>2 DEF Result
<1>4. r.votes \in Seq(BOOLEAN) /\ r.votes = <<>>
  BY <1>1, <1>3, VotesOfReplies
<1>5. r \in Outcome
  BY <1>1, <1>2, <1>4 DEF Result, Outcome
<1> QED BY <1>2, <1>3, <1>4, <1>5 DEF Decided

\* The tally of as many replies as were asked for.
LEMMA TallyDecides ==
  ASSUME votes \in Nat \ {0}, replies \in Seq(Reply), Len(replies) = votes
  PROVE  Tally(replies) \in Outcome /\ Decided(Tally(replies))
<1> DEFINE yes == Cast(replies, "PASS")
           passed == Cardinality(yes) >= Len(replies) \div 2 + 1
           side == {n \in Cast(replies, IF passed THEN "PASS" ELSE "FAIL") : replies[n].said}
           said == IF side = {} THEN Absent ELSE Min(side)
<1>1. CASE Cast(replies, "LOST") = DOMAIN replies
  BY <1>1, UnaskedFails DEF Tally
<1>2. CASE Cast(replies, "LOST") # DOMAIN replies
  <2>1. Tally(replies) = Result(passed, FALSE, replies, said)
    BY <1>2 DEF Tally
  <2>2. DOMAIN replies = 1 .. votes
    BY LenProperties
  <2>3. side \subseteq Nat /\ \A n \in side : replies[n].vote = IF passed THEN "PASS" ELSE "FAIL"
    BY <2>2 DEF Cast
  <2>4. said \in Nat \cup {Absent} /\ (said # Absent => said \in side)
    BY <2>3, LeastOfNaturals
  <2>5. Cardinality(yes) \in Nat
    <3>1. IsFiniteSet(1 .. votes) /\ yes \subseteq 1 .. votes
      BY <2>2, FS_Interval DEF Cast
    <3> QED BY <3>1, FS_Subset, FS_CardinalityType
  <2>6. passed = (2 * Cardinality(yes) > votes)
    BY <2>5
  <2> HIDE DEF passed, side, said, yes
  <2>7. passed \in BOOLEAN
    BY DEF passed
  <2>8. PICK r : r = Result(passed, FALSE, replies, said)
    OBVIOUS
  <2>9. /\ r.passed <=> passed
        /\ r.from = replies /\ r.said = said
        /\ r.votes = [n \in DOMAIN replies |-> replies[n].vote = "PASS"]
    BY <2>8 DEF Result
  <2>10. /\ r.votes \in Seq(BOOLEAN) /\ Len(r.votes) = votes /\ r.votes # <<>>
         /\ Yes(r) = yes
    BY <2>9, VotesOfReplies DEF yes, Yes
  <2>11. r \in Outcome
    BY <2>4, <2>7, <2>8, <2>10 DEF Result, Outcome
  <2>12. r.passed = (2 * Cardinality(Yes(r)) > votes)
    BY <2>6, <2>7, <2>8, <2>10 DEF Result
  <2>13. r.said # Absent => r.from[r.said].vote = IF r.passed THEN "PASS" ELSE "FAIL"
    BY <2>3, <2>4, <2>9
  <2>14. Decided(r)
    BY <2>10, <2>12, <2>13 DEF Decided
  <2> QED BY <2>1, <2>8, <2>11, <2>14
<1> QED BY <1>1, <1>2
-----------------------------------------------------------------------------
\* A result that is decided keeps the invariant when it is given.
LEMMA GivingKeeps ==
  ASSUME GradingInv, NEW r \in Outcome, AsksJudge(This) => Decided(r), Give(r)
  PROVE  GradingInv'
<1>1. /\ results' = Append(results, r) /\ replies' = <<>>
      /\ UNCHANGED <<graders, votes>>
  BY DEF Give
<1>2. /\ results' \in Seq(Outcome) /\ Len(results') = Len(results) + 1
      /\ \A i \in 1 .. Len(results) : results'[i] = results[i]
      /\ results'[Len(results) + 1] = r
  BY <1>1, AppendProperties DEF GradingInv
<1>3. /\ DOMAIN results = 1 .. Len(results) /\ Len(results) \in Nat
      /\ DOMAIN results' = 1 .. Len(results')
  BY <1>2, LenProperties DEF GradingInv
<1>4. ASSUME NEW n \in DOMAIN results', AsksJudge(graders[n])' PROVE Decided(results[n])'
  <2>1. \A s \in Outcome : Decided(s)' = Decided(s)
    BY <1>1 DEF Decided, Yes
  <2>2. AsksJudge(graders[n])
    BY <1>1, <1>4 DEF AsksJudge
  <2>3. n \in 1 .. Len(results) \/ n = Len(results) + 1
    BY <1>2, <1>3
  <2>4. CASE n \in 1 .. Len(results)
    BY <1>1, <1>2, <1>3, <2>2, <2>4 DEF GradingInv, Decided, Yes
  <2>5. CASE n = Len(results) + 1
    BY <1>1, <1>2, <2>2, <2>5 DEF Decided, Yes, This
  <2> QED BY <2>3, <2>4, <2>5
<1>5. replies' \in Seq(Reply)
  BY <1>1, EmptySeq
<1> QED BY <1>1, <1>2, <1>4, <1>5 DEF GradingInv

LEMMA GradingStep == ASSUME GradingInv, [GradingNext]_gradingVars PROVE GradingInv'
<1>1. CASE Skip
  BY <1>1, UnaskedFails, GivingKeeps DEF Skip
<1>2. CASE GradeStructural
  <2> DEFINE r == Result(Structural(This, session), FALSE, <<>>, Absent)
  <2>1. Give(r) /\ ~AsksJudge(This)
    BY <1>2 DEF GradeStructural
  <2>2. Structural(This, session) \in BOOLEAN
    BY DEF Structural
  <2>3. r \in Outcome
    <3>1. <<>> \in Seq(Reply) /\ Len(<<>>) = 0
      BY EmptySeq
    <3>2. r.votes = [n \in DOMAIN <<>> |-> <<>>[n].vote = "PASS"]
      BY DEF Result
    <3>3. r.votes \in Seq(BOOLEAN)
      BY <3>1, <3>2, VotesOfReplies
    <3> QED BY <2>2, <3>1, <3>3 DEF Result, Outcome
  <2> QED BY <2>1, <2>3, GivingKeeps
<1>3. CASE DoNotAsk
  BY <1>3, UnaskedFails, GivingKeeps DEF DoNotAsk
<1>4. CASE Vote
  <2>1. PICK stdout \in DOMAIN ReadReply : replies' = Append(replies, ReadReply[stdout])
    BY <1>4 DEF Vote
  <2>2. replies' \in Seq(Reply)
    BY <2>1, RepliesRead, AppendProperties DEF GradingInv
  <2>3. UNCHANGED <<graders, votes, results>>
    BY <1>4 DEF Vote
  <2> QED BY <2>2, <2>3 DEF GradingInv, Decided, Yes, AsksJudge
<1>5. CASE Count
  BY <1>5, TallyDecides, GivingKeeps DEF Count, GradingInv
<1>6. CASE GradeRaises
  BY <1>6 DEF GradeRaises, GradingInv, Decided, Yes, AsksJudge
<1>7. CASE UNCHANGED gradingVars
  BY <1>7 DEF gradingVars, GradingInv, Decided, Yes, AsksJudge
<1> QED BY <1>1, <1>2, <1>3, <1>4, <1>5, <1>6, <1>7 DEF GradingNext

\* The result of a judged grader is the majority of the votes that were asked for,
\* however many there are and whichever are lost (judge.py, `tally`).
THEOREM VotesAreDecisive == GradingSpec => []VotesDecide
<1>1. GradingInit => GradingInv
  <2> SUFFICES ASSUME GradingInit PROVE GradingInv
    OBVIOUS
  <2>1. votes \in Nat \ {0}
    BY GradingAssumption DEF GradingInit
  <2>2. replies = <<>> /\ results = <<>>
    BY DEF GradingInit
  <2>3. replies \in Seq(Reply) /\ results \in Seq(Outcome) /\ DOMAIN results = {}
    BY <2>2, EmptySeq
  <2> QED BY <2>1, <2>3 DEF GradingInv
<1>2. GradingInv /\ [GradingNext]_gradingVars => GradingInv'
  BY GradingStep
<1>3. GradingInv => VotesDecide
  BY DEF GradingInv, VotesDecide, Decided, Yes
<1> QED BY <1>1, <1>2, <1>3, PTL DEF GradingSpec

-----------------------------------------------------------------------------
(* A document: every number in it is made of what happened.                *)

Runs == UNION {RunIds(c, "with") \cup RunIds(c, "without") : c \in Cases}

\* What was chosen at the start, and never changes.
ChosenWell ==
  /\ arms \in {{"with"}, {"with", "without"}} /\ reps \in 1 .. MaxEntries
  /\ status \in [Cases -> Statuses] /\ order = Walk

\* The marks of a run are its graders', and its checks' once they are done.
ResultsAre(marks, r, trace, checks) ==
  LET graded == GraderResults(r, facts[r]) IN
  /\ DOMAIN marks = DOMAIN graded \cup checks
  /\ \A s \in DOMAIN graded : marks[s] = graded[s]
  /\ \A k \in checks : marks[k] = CheckResult(trace, k)

EntryIs(e, r, checks) ==
  /\ e = [results |-> e.results, score |-> e.score, passed |-> e.passed,
          error |-> e.error, denied |-> e.denied, paid |-> e.paid, trace |-> e.trace]
  /\ ResultsAre(e.results, r, e.trace, checks)
  /\ e.score = Score(e.results) /\ e.passed = (e.score = Unit)
  /\ e.error = (facts[r].flaw \in {"error", "late"})
  /\ e.paid = (facts[r].flaw = "paid")
  /\ e.denied => facts[r].flaw = "denied"
  /\ e.trace # Nothing =>
       /\ e.trace = RunDir(r) /\ RunDir(r) \in DOMAIN tree
       /\ facts[r].flaw = "denied" => e.denied \/ r \in unread

\* The numbers of the cases and of the suite are as they would be built anew.
DocIs(d, checked) ==
  /\ d = [defs |-> d.defs, entry |-> d.entry, agg |-> d.agg, suite |-> d.suite]
  /\ DOMAIN d.entry = Runs
  /\ \A r \in Runs : EntryIs(d.entry[r], r, IF checked THEN Checks[r[1]] ELSE {})
  /\ \A c \in Ran : d.defs[c] = IF checked THEN Slots(c) ELSE Graders[c]
  /\ d.agg = [c \in Cases |-> CaseMeans(d.entry, c)]
  /\ d.suite = SuiteMeans(d.agg)

\* Every check and grader of a case has a name of its own, and every name of a case a
\* directory name that is no other's, with or without a number. Where they are not,
\* FailedGraderFails and DirectoriesAreOwn are violated.
LabelsApart ==
  \A c \in Cases : \A s, k \in Slots(c) : Label[s] = Label[k] => s = k

SlugsApart ==
  \A c, d \in Cases : CaseName[c] # CaseName[d] =>
    /\ Slug[CaseName[c]] # Slug[CaseName[d]]
    /\ \A n \in Nat : Slug[CaseName[c]] # Append(Slug[CaseName[d]], n)

RunSoFar == {order[n] : n \in 1 .. at}

TreeIs ==
  \A r \in Runs : RunDir(r) \in DOMAIN tree =>
    tree[RunDir(r)].workspace \in {Nothing, r}

FactsAre ==
  /\ \A r \in DOMAIN facts : facts[r].skips \subseteq Graders[r[1]]
  /\ pc # "run" => DOMAIN facts = Runs

AtStep ==
  CASE pc = "run" ->
         /\ at \in 0 .. Len(order) /\ disk = Nothing /\ DOMAIN facts = RunSoFar
         /\ doc = [entry |-> doc.entry] /\ DOMAIN doc.entry = RunSoFar
         /\ \A r \in RunSoFar : EntryIs(doc.entry[r], r, {})
    [] pc = "collect" ->
         /\ at \in 0 .. Len(order)
         /\ DocIs(doc, FALSE)
         /\ disk # Nothing => DocIs(disk, FALSE)
    [] pc = "check" -> disk # Nothing => DocIs(disk, FALSE)
    [] pc \in {"decide", "done"} ->
         disk # Nothing => IF ChecksSaid THEN DocIs(disk, TRUE) ELSE DocIs(disk, FALSE)
    [] OTHER -> FALSE

WordsAre ==
  pc = "done" => words = [c \in IF disk = Nothing THEN {} ELSE Cases |-> WordOn(disk, c)]

VerdictInv ==
  ChosenWell /\ FactsAre /\ (SlugsApart => TreeIs) /\ AtStep /\ WordsAre

-----------------------------------------------------------------------------
(* The runs, in the order every reader walks them.                         *)

LEMMA SuiteIsFinite ==
  /\ IsFiniteSet(Cases) /\ Cardinality(Cases) \in Nat
  /\ \A C \in SUBSET Cases : /\ IsFiniteSet(C) /\ Cardinality(C) \in Nat
                             /\ Cardinality(C) <= Cardinality(Cases)
                             /\ C # {} => Cardinality(C) # 0
<1>1. PICK n \in Nat : n = Len(Suite) /\ DOMAIN Suite = 1 .. n
  BY VerdictAssumption
<1>2. Suite \in Surjection(1 .. n, Cases)
  BY <1>1, VerdictAssumption DEF Surjection, Cases, Range
<1>3. IsFiniteSet(Cases)
  BY <1>2, FS_Interval, FS_Surjection
<1> QED BY <1>3, FS_CardinalityType, FS_Subset, FS_EmptySet

LEMMA RunsAre ==
  ASSUME ChosenWell, NEW c \in Cases, NEW arm \in {"with", "without"}
  PROVE  /\ \A r \in RunIds(c, arm) :
              r \in Runs /\ r[1] = c /\ r[2] = arm /\ c \in Ran /\ r[3] \in 1 .. reps
         /\ IsFiniteSet(RunIds(c, arm))
         /\ RunIds(c, arm) # {} => Cardinality(RunIds(c, arm)) = reps
<1>1. reps \in Nat \ {0}
  BY VerdictAssumption DEF ChosenWell
<1>2. \A r \in RunIds(c, arm) :
         r \in Runs /\ r[1] = c /\ r[2] = arm /\ c \in Ran /\ r[3] \in 1 .. reps
  BY DEF RunIds, Runs
<1>3. CASE RunIds(c, arm) = {}
  BY <1>2, <1>3, FS_EmptySet
<1>4. CASE RunIds(c, arm) # {}
  <2> DEFINE T == {<<c, arm, k>> : k \in 1 .. reps}
             f == [k \in 1 .. reps |-> <<c, arm, k>>]
  <2>1. RunIds(c, arm) = T
    BY <1>4 DEF RunIds
  <2>2. f \in Surjection(1 .. reps, T)
    BY DEF Surjection
  <2>3. f \in Injection(1 .. reps, T)
    BY DEF Injection, IsInjective
  <2>4. IsFiniteSet(1 .. reps) /\ Cardinality(1 .. reps) = reps
    BY <1>1, FS_Interval
  <2>5. IsFiniteSet(T) /\ Cardinality(T) = reps
    <3> HIDE DEF T, f
    <3> QED BY <2>2, <2>3, <2>4, FS_Surjection
  <2> HIDE DEF T, f
  <2> QED BY <1>2, <2>1, <2>5
<1> QED BY <1>3, <1>4

LEMMA RunIsItsOwn ==
  ASSUME NEW r \in Runs
  PROVE  /\ r = <<r[1], r[2], r[3]>> /\ r[1] \in Cases /\ r[1] \in Ran
         /\ r[2] \in {"with", "without"} /\ r \in RunIds(r[1], r[2])
BY DEF Runs, RunIds

\* The order of the document is that of the runs, and leaves none out.
LEMMA OrderHasRuns ==
  ASSUME ChosenWell
  PROVE  /\ order \in Seq(Runs) /\ Len(order) \in Nat
         /\ {order[n] : n \in 1 .. Len(order)} = Runs
<1> DEFINE g == [c \in Cases |-> InOrder(c, "with") \o InOrder(c, "without")]
<1>1. reps \in Nat \ {0}
  BY VerdictAssumption DEF ChosenWell
<1>2. ASSUME NEW c \in Cases, NEW arm \in {"with", "without"}
      PROVE  InOrder(c, arm) \in Seq(Runs) /\ Range(InOrder(c, arm)) = RunIds(c, arm)
  <2>1. CASE RunIds(c, arm) = {}
    <3>1. <<>> \in Seq(Runs) /\ Range(<<>>) = {}
      BY DEF Range
    <3> QED BY <2>1, <3>1 DEF InOrder
  <2>2. CASE RunIds(c, arm) # {}
    <3>1. PICK s : s = [k \in 1 .. reps |-> <<c, arm, k>>]
      OBVIOUS
    <3>2. RunIds(c, arm) = {<<c, arm, k>> : k \in 1 .. reps} /\ RunIds(c, arm) \subseteq Runs
      BY <2>2 DEF RunIds, Runs
    <3>3. \A k \in 1 .. reps : s[k] \in Runs
      BY <3>1, <3>2
    <3>4. s \in Seq(Runs)
      BY <1>1, <3>1, <3>3
    <3>5. Range(s) = RunIds(c, arm)
      BY <3>1, <3>2 DEF Range
    <3> QED BY <2>2, <3>1, <3>4, <3>5 DEF InOrder
  <2> QED BY <2>1, <2>2
<1>3. ASSUME NEW c \in Cases
      PROVE  /\ g[c] \in Seq(Runs)
             /\ Range(g[c]) = RunIds(c, "with") \cup RunIds(c, "without")
  <2>1. PICK s \in Seq(Runs), t \in Seq(Runs) :
          s = InOrder(c, "with") /\ t = InOrder(c, "without")
    BY <1>2
  <2>2. g[c] = s \o t /\ s \o t \in Seq(Runs)
    BY <2>1
  <2> HIDE DEF g
  <2> QED BY <1>2, <2>1, <2>2, RangeConcatenation
<1>4. g \in [Cases -> Seq(Runs)]
  BY <1>3
<1>5. Walk = Mapped(Suite, g)
  <2>1. DOMAIN Suite = 1 .. Len(Suite) /\ \A i \in DOMAIN Suite : Suite[i] \in Cases
    BY VerdictAssumption
  <2>2. [i \in DOMAIN Suite |-> InOrder(Suite[i], "with") \o InOrder(Suite[i], "without")]
        = [i \in 1 .. Len(Suite) |-> g[Suite[i]]]
    BY <2>1
  <2> HIDE DEF g
  <2> QED BY <2>2, Zenon DEF Walk, Mapped
<1> HIDE DEF g
<1>6. Walk \in Seq(Runs)
  BY <1>4, <1>5, MappedType, VerdictAssumption
<1>7. \A v : v \in Range(Walk) <=> \E c \in Range(Suite) : v \in Range(g[c])
  BY <1>4, <1>5, MappedRange, VerdictAssumption
<1>8. Range(Walk) = Runs
  BY <1>3, <1>7 DEF Cases, Runs
<1>9. order = Walk
  BY DEF ChosenWell
<1>10. Range(order) = {order[n] : n \in 1 .. Len(order)}
  BY <1>6, <1>9, RangeEquality
<1> QED BY <1>6, <1>8, <1>9, <1>10

-----------------------------------------------------------------------------
(* The directories.                                                        *)

\* The cases of a name up to this one.
Namesakes(c) ==
  {i \in DOMAIN Suite : /\ CaseName[Suite[i]] = CaseName[c]
                        /\ \E j \in DOMAIN Suite : Suite[j] = c /\ i <= j}

LEMMA DirOfCase ==
  ASSUME NEW c \in Cases
  PROVE  CaseDir(c) = IF Cardinality(Namesakes(c)) = 1 THEN Slug[CaseName[c]]
                      ELSE Append(Slug[CaseName[c]], Cardinality(Namesakes(c)))
BY DEF CaseDir, Namesakes

LEMMA NamesakesCount ==
  /\ \A c \in Cases : IsFiniteSet(Namesakes(c)) /\ Cardinality(Namesakes(c)) \in Nat
  /\ \A c, d \in Cases :
       CaseName[c] = CaseName[d] /\ Cardinality(Namesakes(c)) = Cardinality(Namesakes(d))
         => c = d
<1>1. PICK n \in Nat : n = Len(Suite) /\ DOMAIN Suite = 1 .. n
  BY VerdictAssumption
<1>2. /\ \A c \in Cases : \E j \in 1 .. n : Suite[j] = c
      /\ \A i, j \in 1 .. n : Suite[i] = Suite[j] => i = j
  BY <1>1, VerdictAssumption DEF Cases, Range, IsInjective
<1>3. ASSUME NEW c \in Cases
      PROVE  IsFiniteSet(Namesakes(c)) /\ Cardinality(Namesakes(c)) \in Nat
  <2>1. Namesakes(c) \in SUBSET (1 .. n)
    BY <1>1 DEF Namesakes
  <2>2. IsFiniteSet(1 .. n)
    BY FS_Interval
  <2>3. IsFiniteSet(Namesakes(c))
    BY <2>1, <2>2, FS_Subset
  <2> QED BY <2>3, FS_CardinalityType
<1>4. ASSUME NEW c \in Cases, NEW d \in Cases, CaseName[c] = CaseName[d],
             NEW i \in 1 .. n, NEW j \in 1 .. n, Suite[i] = c, Suite[j] = d, i < j
      PROVE  Cardinality(Namesakes(c)) # Cardinality(Namesakes(d))
  <2>1. Namesakes(c) \in SUBSET Namesakes(d)
    <3> SUFFICES ASSUME NEW m \in Namesakes(c) PROVE m \in Namesakes(d)
      OBVIOUS
    <3>1. m \in 1 .. n /\ CaseName[Suite[m]] = CaseName[c] /\ m <= i
      BY <1>1, <1>2, <1>4 DEF Namesakes
    <3> QED BY <1>1, <1>4, <3>1 DEF Namesakes
  <2>2. j \in Namesakes(d)
    BY <1>1, <1>4 DEF Namesakes
  <2>3. j \notin Namesakes(c)
    BY <1>1, <1>2, <1>4 DEF Namesakes
  <2> QED BY <1>3, <2>1, <2>2, <2>3, FS_Subset
<1>5. ASSUME NEW c \in Cases, NEW d \in Cases, CaseName[c] = CaseName[d], c # d
      PROVE  Cardinality(Namesakes(c)) # Cardinality(Namesakes(d))
  <2>1. PICK i \in 1 .. n, j \in 1 .. n : Suite[i] = c /\ Suite[j] = d
    BY <1>2
  <2>2. i < j \/ j < i
    BY <1>5, <2>1
  <2> QED BY <1>4, <1>5, <2>1, <2>2
<1> QED BY <1>3, <1>5

LEMMA CaseDirIsOwn ==
  ASSUME SlugsApart, NEW c \in Cases, NEW d \in Cases, CaseDir(c) = CaseDir(d)
  PROVE  c = d
<1>1. PICK m \in Nat, n \in Nat :
        m = Cardinality(Namesakes(c)) /\ n = Cardinality(Namesakes(d))
  BY NamesakesCount
<1> DEFINE s == Slug[CaseName[c]]
           t == Slug[CaseName[d]]
<1>2. PICK X : X = Range(s) \cup Range(t) \cup Nat
  OBVIOUS
<1>3. s \in Seq(X) /\ t \in Seq(X)
  BY <1>2, VerdictAssumption
<1> HIDE DEF s, t
<1>4. /\ Append(s, m) \in Seq(X) /\ Len(Append(s, m)) = Len(s) + 1
      /\ Append(s, n) \in Seq(X) /\ Len(Append(s, n)) = Len(s) + 1
      /\ Append(s, m) = Append(t, n) => s = t /\ m = n
      /\ Len(s) \in Nat
  BY <1>2, <1>3, AppendProperties, AppendInjective
<1>5. (IF m = 1 THEN s ELSE Append(s, m)) = (IF n = 1 THEN t ELSE Append(t, n))
  BY <1>1, DirOfCase DEF s, t
<1>6. CaseName[c] = CaseName[d]
  BY <1>4, <1>5 DEF SlugsApart, s, t
<1>7. s = t
  BY <1>6 DEF s, t
<1>8. Append(s, n) # s /\ Append(s, m) # s
  BY <1>4
<1>9. m = n
  BY <1>4, <1>5, <1>7, <1>8
<1> QED BY <1>1, <1>6, <1>9, NamesakesCount

LEMMA RunDirIsOwn ==
  ASSUME SlugsApart, NEW r \in Runs, NEW s \in Runs, RunDir(r) = RunDir(s)
  PROVE  r = s
<1>1. CaseDir(r[1]) = CaseDir(s[1]) /\ r[2] = s[2] /\ r[3] = s[3]
  BY DEF RunDir
<1>2. r[1] = s[1]
  BY <1>1, RunIsItsOwn, CaseDirIsOwn
<1> QED BY <1>1, <1>2, RunIsItsOwn

-----------------------------------------------------------------------------
(* Scores and means are exact.                                             *)

LEMMA ZeroIsMultiple ==
  ASSUME NEW k \in Nat \ {0}
  PROVE  0 \in Multiples(k)
BY k * 0 = 0 DEF Multiples

LEMMA MultiplesAreNumbers == \A k \in Nat \ {0} : Multiples(k) \subseteq Int
BY DEF Multiples

LEMMA Cancelled ==
  ASSUME NEW k \in Nat \ {0}, NEW a \in Int, NEW b \in Int, k * a = k * b
  PROVE  a = b
BY (k * a) \div k = a, (k * b) \div k = b

LEMMA ShareIsMultiple ==
  ASSUME NEW w \in Nat \ {0}, NEW a \in Nat, NEW k \in Nat \ {0}, NEW q \in Nat
  PROVE  /\ ((w * (k * q)) * a) \div w = k * (q * a)
         /\ (((w * (k * q)) * a) \div w) * w = (w * (k * q)) * a
<1>1. (w * (k * q)) * a = w * (k * (q * a)) /\ k * (q * a) \in Int
  OBVIOUS
<1> QED BY <1>1, MultipleDivided

LEMMA ScoreIsExact ==
  ASSUME ChosenWell, NEW c \in Cases, NEW marks, DOMAIN marks \subseteq Slots(c)
  PROVE  /\ Score(marks) * Weights(Scored(marks)) = Unit * Weights(Right(marks))
         /\ (Score(marks) = Unit)
            <=> Scored(marks) # {} /\ Scored(marks) = Right(marks)
         /\ \A m \in 1 .. Cardinality(Cases) : Score(marks) \in Multiples(reps * m)
<1>1. reps \in 1 .. MaxEntries /\ MaxEntries \in Nat /\ Unit \in Nat \ {0}
  BY VerdictAssumption DEF ChosenWell
<1>2. Cardinality(Cases) \in Nat /\ Cardinality(Cases) # 0
  BY SuiteIsFinite
<1>3. PICK S, R : S = Scored(marks) /\ R = Right(marks)
  OBVIOUS
<1>4. S \in SUBSET Slots(c) /\ R \in SUBSET S
  BY <1>3 DEF Scored, Right
<1>5. IsFiniteSet(S) /\ \A s \in S : Weight[s] \in Nat \ {0}
  BY <1>4, FS_Subset, VerdictAssumption
<1>6. PICK w, a : w = Weights(S) /\ a = Weights(R)
  OBVIOUS
<1>7. w \in Nat /\ a \in Nat /\ (S # {} => w # 0) /\ (a = w => R = S)
  BY <1>4, <1>5, <1>6, SumPositive DEF Weights
<1>8. CASE S = {}
  <2>1. Score(marks) = 0 /\ w = 0 /\ a = 0
    BY <1>3, <1>4, <1>6, <1>8, SumEmpty DEF Score, Weights
  <2>2. ASSUME NEW m \in 1 .. Cardinality(Cases) PROVE 0 \in Multiples(reps * m)
    BY <1>1, <1>2, ZeroIsMultiple, reps * m \in Nat \ {0}
  <2> QED BY <1>1, <1>3, <1>6, <1>8, <2>1, <2>2
<1>9. CASE S # {}
  <2>1. PICK score : score = Score(marks)
    OBVIOUS
  <2>2. score = (Unit * a) \div w
    BY <1>3, <1>6, <1>9, <2>1 DEF Score
  <2>3. ASSUME NEW m \in 1 .. Cardinality(Cases)
        PROVE  /\ score \in Multiples(reps * m) /\ score * w = Unit * a
               /\ score \in Int
    <3>1. PICK q \in 1 .. Unit : Unit = Weights(S) * (reps * (m * q))
      <4>1. S \in (SUBSET Slots(c)) \ {{}}
        BY <1>4, <1>9
      <4>2. Divisible
        BY VerdictAssumption
      <4>3. \A n \in 1 .. MaxEntries, l \in 1 .. Cardinality(Cases) :
              \E q \in 1 .. Unit : Unit = Weights(S) * (n * (l * q))
        BY <4>1, <4>2, Zenon DEF Divisible
      <4> QED BY <1>1, <4>3, Zenon
    <3>2. PICK k \in Nat \ {0} : k = reps * m
      BY <1>1, <1>2
    <3>3. Unit = w * (k * q) /\ q \in Nat
      BY <1>1, <1>2, <1>6, <3>1, <3>2
    <3>4. score = k * (q * a) /\ score * w = Unit * a
      BY <1>7, <1>9, <2>2, <3>3, ShareIsMultiple
    <3>5. q * a \in Int /\ k * (q * a) \in Int
      BY <1>7, <3>3
    <3> QED BY <3>2, <3>4, <3>5 DEF Multiples
  <2>4. score * w = Unit * a /\ score \in Int
    BY <1>2, <2>3
  <2>5. score = Unit <=> a = w
    <3>1. w * score = Unit * a /\ Unit * w = w * Unit
      BY <1>1, <1>7, <2>4
    <3>2. ASSUME score = Unit PROVE a = w
      <4>1. Unit * w = Unit * a
        BY <3>1, <3>2
      <4> QED BY <1>1, <1>7, <4>1, Cancelled
    <3>3. ASSUME a = w PROVE score = Unit
      <4>1. w * score = w * Unit
        BY <3>1, <3>3
      <4> QED BY <1>1, <1>7, <1>9, <2>4, <4>1, Cancelled
    <3> QED BY <3>2, <3>3
  <2> QED BY <1>3, <1>6, <1>7, <1>9, <2>1, <2>3, <2>4, <2>5
<1> QED BY <1>8, <1>9

LEMMA MeanIsExact ==
  ASSUME NEW f, NEW S, IsFiniteSet(S), NEW k \in Nat \ {0},
         \A x \in S : f[x] \in Multiples(Cardinality(S) * k)
  PROVE  /\ Mean(f, S) \in Multiples(k) /\ Mean(f, S) \in Int
         /\ Mean(f, S) * Cardinality(S) = SumFunctionOnSet(f, S)
<1>1. CASE S = {}
  <2>1. Cardinality(S) = 0 /\ SumFunctionOnSet(f, S) = 0 /\ Mean(f, S) = 0
    BY <1>1, FS_EmptySet, SumEmpty DEF Mean
  <2> QED BY <2>1, ZeroIsMultiple
<1>2. CASE S # {}
  <2>1. PICK n \in Nat \ {0} : n = Cardinality(S)
    BY <1>2, FS_CardinalityType, FS_EmptySet
  <2>2. n * k \in Nat \ {0}
    OBVIOUS
  <2>3. SumFunctionOnSet(f, S) \in Multiples(n * k)
    BY <2>1, <2>2, SumOfMultiples
  <2>4. PICK q \in Int : SumFunctionOnSet(f, S) = (n * k) * q
    BY <2>3 DEF Multiples
  <2>5. PICK x \in Int : x = k * q
    OBVIOUS
  <2>6. (n * k) * q = n * x
    BY <2>5
  <2>7. Mean(f, S) = (n * x) \div n
    BY <1>2, <2>1, <2>4, <2>6 DEF Mean
  <2>8. Mean(f, S) = x /\ Mean(f, S) * n = n * x
    BY <2>7, MultipleDivided
  <2> QED BY <2>1, <2>4, <2>5, <2>6, <2>8 DEF Multiples
<1> QED BY <1>1, <1>2

\* Differences of multiples.
LEMMA DifferenceIsMultiple ==
  ASSUME NEW k \in Nat \ {0}, NEW a \in Multiples(k), NEW b \in Multiples(k)
  PROVE  a - b \in Multiples(k)
<1>1. PICK p \in Int, q \in Int : a = k * p /\ b = k * q
  BY DEF Multiples
<1>2. a - b = k * (p - q) /\ p - q \in Int
  BY <1>1
<1> QED BY <1>2 DEF Multiples

-----------------------------------------------------------------------------
(* What stays as it is.                                                    *)

LEMMA ChoiceStays ==
  ASSUME UNCHANGED chosen
  PROVE  /\ TwoArm' = TwoArm /\ Ran' = Ran /\ Runs' = Runs /\ Walk' = Walk
         /\ \A c, arm : RunIds(c, arm)' = RunIds(c, arm)
         /\ ChosenWell => ChosenWell'
<1>1. /\ backend' = backend /\ arms' = arms /\ reps' = reps
      /\ status' = status /\ order' = order
  BY DEF chosen
<1>2. TwoArm' = TwoArm /\ Ran' = Ran
  BY <1>1 DEF TwoArm, Ran
<1>3. \A c, arm : RunIds(c, arm)' = RunIds(c, arm)
  BY <1>1, <1>2 DEF RunIds
<1>4. Runs' = Runs
  BY <1>3 DEF Runs
<1>5. \A c, arm : InOrder(c, arm)' = InOrder(c, arm)
  BY <1>1, <1>3 DEF InOrder
<1>6. Walk' = Walk
  BY <1>5 DEF Walk
<1>7. ChosenWell => ChosenWell'
  BY <1>1, <1>2, <1>6 DEF ChosenWell, Statuses
<1> QED BY <1>2, <1>3, <1>4, <1>6, <1>7

LEMMA ResultsStay ==
  ASSUME UNCHANGED chosen, NEW r, facts'[r] = facts[r]
  PROVE  GraderResults(r, facts[r])' = GraderResults(r, facts[r])
<1>1. TwoArm' = TwoArm
  BY ChoiceStays
<1>2. Indicators(r[1])' = Indicators(r[1])
  BY <1>1 DEF Indicators
<1> QED BY <1>2 DEF GraderResults

LEMMA EntryStays ==
  ASSUME UNCHANGED chosen, NEW r, facts'[r] = facts[r],
         unread \subseteq unread', DOMAIN tree \subseteq DOMAIN tree'
  PROVE  /\ \A e : EntryIs(e, r, {}) => EntryIs(e, r, {})'
         /\ UNCHANGED <<facts, tree>> =>
              \A e, checks : EntryIs(e, r, checks) => EntryIs(e, r, checks)'
<1>1. ASSUME NEW e, NEW checks, checks = {} \/ UNCHANGED <<facts, tree>>,
             EntryIs(e, r, checks)
      PROVE  EntryIs(e, r, checks)'
  <2>1. ResultsAre(e.results, r, e.trace, checks)'
    <3>1. ResultsAre(e.results, r, e.trace, checks)
      BY <1>1 DEF EntryIs
    <3>2. \A k \in checks : CheckResult(e.trace, k)' = CheckResult(e.trace, k)
      BY <1>1 DEF CheckResult, Holds
    <3> QED BY <3>1, <3>2, ResultsStay DEF ResultsAre
  <2> QED BY <1>1, <2>1 DEF EntryIs
<1> QED BY <1>1

LEMMA MeansStay ==
  ASSUME UNCHANGED chosen
  PROVE  /\ \A entries, c : CaseMeans(entries, c)' = CaseMeans(entries, c)
         /\ \A agg : SuiteMeans(agg)' = SuiteMeans(agg)
<1>1. ASSUME NEW entries, NEW c
      PROVE  CaseMeans(entries, c)' = CaseMeans(entries, c)
  <2>1. \A arm : RunIds(c, arm)' = RunIds(c, arm)
    BY ChoiceStays
  <2>2. \A arm : /\ ArmScore(entries, c, arm)' = ArmScore(entries, c, arm)
                 /\ ArmRate(entries, c, arm)' = ArmRate(entries, c, arm)
    BY <2>1 DEF ArmScore, ArmRate
  <2>3. Comparable(entries, c)' <=> Comparable(entries, c)
    BY <2>1 DEF Comparable
  <2> QED BY <2>2, <2>3 DEF CaseMeans
<1>2. ASSUME NEW agg PROVE SuiteMeans(agg)' = SuiteMeans(agg)
  BY DEF SuiteMeans, chosen
<1> QED BY <1>1, <1>2

LEMMA DocStays ==
  ASSUME UNCHANGED <<chosen, facts>>, unread \subseteq unread',
         DOMAIN tree \subseteq DOMAIN tree'
  PROVE  /\ \A d : DocIs(d, FALSE) => DocIs(d, FALSE)'
         /\ UNCHANGED tree =>
              \A d : \A checked \in BOOLEAN : DocIs(d, checked) => DocIs(d, checked)'
<1>1. ASSUME NEW d, NEW checked \in BOOLEAN, checked = FALSE \/ UNCHANGED tree,
             DocIs(d, checked)
      PROVE  DocIs(d, checked)'
  <2>1. Runs' = Runs /\ Ran' = Ran
    BY ChoiceStays
  <2>2. \A r \in Runs : EntryIs(d.entry[r], r, IF checked THEN Checks[r[1]] ELSE {})
    BY <1>1 DEF DocIs
  <2>3. ASSUME NEW r \in Runs
        PROVE  EntryIs(d.entry[r], r, IF checked THEN Checks[r[1]] ELSE {})'
    <3>1. CASE checked
      BY <1>1, <2>2, <3>1, EntryStays
    <3>2. CASE ~checked
      BY <1>1, <2>2, <3>2, EntryStays
    <3> QED BY <3>1, <3>2
  <2>4. [c \in Cases |-> CaseMeans(d.entry, c)'] = [c \in Cases |-> CaseMeans(d.entry, c)]
    BY MeansStay
  <2>5. SuiteMeans(d.agg)' = SuiteMeans(d.agg)
    BY MeansStay
  <2> QED BY <1>1, <2>1, <2>3, <2>4, <2>5 DEF DocIs
<1> QED BY <1>1

-----------------------------------------------------------------------------
(* The numbers of a document.                                              *)

LEMMA ResultsAreOfCase ==
  ASSUME NEW r, NEW e, NEW checks, checks \subseteq Checks[r[1]], EntryIs(e, r, checks)
  PROVE  DOMAIN e.results \subseteq Slots(r[1])
<1>1. DOMAIN GraderResults(r, facts[r]) \subseteq Graders[r[1]]
  BY DEF GraderResults
<1> QED BY <1>1 DEF EntryIs, ResultsAre, Slots

LEMMA EntryOfDoc ==
  ASSUME NEW d, NEW checked \in BOOLEAN, DocIs(d, checked), NEW r \in Runs
  PROVE  /\ DOMAIN d.entry[r].results \subseteq Slots(r[1])
         /\ d.entry[r].score = Score(d.entry[r].results)
         /\ d.entry[r].passed <=> d.entry[r].score = Unit
         /\ d.entry[r].passed \in BOOLEAN
<1>1. PICK checks : checks = IF checked THEN Checks[r[1]] ELSE {}
  OBVIOUS
<1>2. EntryIs(d.entry[r], r, checks) /\ checks \subseteq Checks[r[1]]
  BY <1>1 DEF DocIs
<1>3. DOMAIN d.entry[r].results \subseteq Slots(r[1])
  BY <1>2, ResultsAreOfCase
<1> QED BY <1>2, <1>3 DEF EntryIs

LEMMA ArmIsExact ==
  ASSUME ChosenWell, NEW d, NEW checked \in BOOLEAN, DocIs(d, checked),
         NEW c \in Cases, NEW arm \in {"with", "without"}
  PROVE  /\ ArmScore(d.entry, c, arm) * Cardinality(RunIds(c, arm))
            = SumFunctionOnSet([r \in RunIds(c, arm) |-> d.entry[r].score], RunIds(c, arm))
         /\ ArmScore(d.entry, c, arm) \in Int
         /\ \A m \in 1 .. Cardinality(Cases) : ArmScore(d.entry, c, arm) \in Multiples(m)
<1>1. PICK S : S = RunIds(c, arm)
  OBVIOUS
<1>2. PICK f : f = [r \in S |-> d.entry[r].score]
  OBVIOUS
<1>3. ArmScore(d.entry, c, arm) = Mean(f, S)
  BY <1>1, <1>2 DEF ArmScore
<1>4. IsFiniteSet(S) /\ (S # {} => Cardinality(S) = reps)
  BY <1>1, RunsAre
<1>5. Cardinality(Cases) \in Nat /\ Cardinality(Cases) # 0
  BY SuiteIsFinite
<1>6. ASSUME NEW m \in 1 .. Cardinality(Cases), NEW r \in S
      PROVE  f[r] \in Multiples(Cardinality(S) * m)
  <2>1. r \in Runs /\ r[1] = c
    BY <1>1, RunsAre
  <2>2. d.entry[r].score \in Multiples(reps * m)
    BY <2>1, EntryOfDoc, ScoreIsExact
  <2> QED BY <1>2, <1>4, <2>2
<1>7. ASSUME NEW m \in 1 .. Cardinality(Cases)
      PROVE  /\ Mean(f, S) \in Multiples(m) /\ Mean(f, S) \in Int
             /\ Mean(f, S) * Cardinality(S) = SumFunctionOnSet(f, S)
  <2>1. m \in Nat \ {0}
    BY <1>5
  <2> QED BY <1>4, <1>6, <2>1, MeanIsExact
<1> QED BY <1>1, <1>2, <1>3, <1>5, <1>7

\* ScoresMatchResults, of any document.
NumbersMatch(d) ==
  /\ \A r \in DOMAIN d.entry :
       LET e == d.entry[r] IN
       /\ e.score * Weights(Scored(e.results)) = Unit * Weights(Right(e.results))
       /\ e.passed = (Scored(e.results) # {} /\ Scored(e.results) = Right(e.results))
  /\ \A c \in Ran :
       LET a == d.agg[c] IN
       /\ a.score * reps = SumFunctionOnSet(
            [r \in RunIds(c, "with") |-> d.entry[r].score], RunIds(c, "with"))
       /\ a.delta # Nothing =>
            (a.score - a.delta) * reps = SumFunctionOnSet(
              [r \in RunIds(c, "without") |-> d.entry[r].score], RunIds(c, "without"))
  /\ LET counted == {c \in Cases : status[c] # "declared"}
         deltas == {c \in counted : d.agg[c].delta # Nothing} IN
     /\ d.suite.score * Cardinality(counted) =
          SumFunctionOnSet([c \in counted |-> d.agg[c].score], counted)
     /\ IF deltas = {} THEN d.suite.delta = Nothing
        ELSE d.suite.delta * Cardinality(deltas) =
               SumFunctionOnSet([c \in deltas |-> d.agg[c].delta], deltas)

LEMMA CaseIsExact ==
  ASSUME ChosenWell, NEW d, NEW checked \in BOOLEAN, DocIs(d, checked), NEW c \in Cases
  PROVE  /\ d.agg[c].score = ArmScore(d.entry, c, "with")
         /\ d.agg[c].delta # Nothing =>
              /\ RunIds(c, "without") # {}
              /\ d.agg[c].delta = d.agg[c].score - ArmScore(d.entry, c, "without")
         /\ \A m \in 1 .. Cardinality(Cases) :
              /\ d.agg[c].score \in Multiples(m)
              /\ d.agg[c].delta # Nothing => d.agg[c].delta \in Multiples(m)
<1>1. d.agg[c] = CaseMeans(d.entry, c)
  BY DEF DocIs
<1>2. /\ d.agg[c].score = ArmScore(d.entry, c, "with")
      /\ d.agg[c].delta # Nothing =>
           /\ RunIds(c, "without") # {}
           /\ d.agg[c].delta = d.agg[c].score - ArmScore(d.entry, c, "without")
  BY <1>1 DEF CaseMeans, Comparable
<1>3. ASSUME NEW m \in 1 .. Cardinality(Cases)
      PROVE  /\ d.agg[c].score \in Multiples(m)
             /\ d.agg[c].delta # Nothing => d.agg[c].delta \in Multiples(m)
  <2>1. /\ ArmScore(d.entry, c, "with") \in Multiples(m)
        /\ ArmScore(d.entry, c, "without") \in Multiples(m)
    BY ArmIsExact
  <2>2. m \in Nat \ {0}
    BY SuiteIsFinite
  <2> QED BY <1>2, <2>1, <2>2, DifferenceIsMultiple
<1> QED BY <1>2, <1>3

LEMMA RanHasRuns ==
  ASSUME ChosenWell, NEW c \in Ran
  PROVE  RunIds(c, "with") # {}
<1>1. "with" \in arms /\ 1 \in 1 .. reps
  BY VerdictAssumption DEF ChosenWell
<1>2. <<c, "with", 1>> \in RunIds(c, "with")
  BY <1>1 DEF RunIds
<1> QED BY <1>2

LEMMA DocNumbers ==
  ASSUME ChosenWell, NEW d, NEW checked \in BOOLEAN, DocIs(d, checked)
  PROVE  NumbersMatch(d)
<1>1. ASSUME NEW r \in DOMAIN d.entry, NEW e, e = d.entry[r]
      PROVE  /\ e.score * Weights(Scored(e.results)) = Unit * Weights(Right(e.results))
             /\ e.passed = (Scored(e.results) # {} /\ Scored(e.results) = Right(e.results))
  <2>1. r \in Runs
    BY DEF DocIs
  <2>2. r[1] \in Cases
    BY <2>1, RunIsItsOwn
  <2> QED BY <1>1, <2>1, <2>2, EntryOfDoc, ScoreIsExact
<1>2. ASSUME NEW c \in Ran, NEW a, a = d.agg[c]
      PROVE  /\ a.score * reps = SumFunctionOnSet(
                  [r \in RunIds(c, "with") |-> d.entry[r].score], RunIds(c, "with"))
             /\ a.delta # Nothing =>
                  (a.score - a.delta) * reps = SumFunctionOnSet(
                    [r \in RunIds(c, "without") |-> d.entry[r].score],
                    RunIds(c, "without"))
  <2>1. c \in Cases /\ RunIds(c, "with") # {}
    BY RanHasRuns DEF Ran
  <2>2. Cardinality(RunIds(c, "with")) = reps
    BY <2>1, RunsAre
  <2>3. a.score * reps = SumFunctionOnSet(
          [r \in RunIds(c, "with") |-> d.entry[r].score], RunIds(c, "with"))
    BY <1>2, <2>1, <2>2, ArmIsExact, CaseIsExact
  <2>4. ASSUME a.delta # Nothing
        PROVE  (a.score - a.delta) * reps = SumFunctionOnSet(
                 [r \in RunIds(c, "without") |-> d.entry[r].score], RunIds(c, "without"))
    <3>1. PICK base : base = ArmScore(d.entry, c, "without")
      OBVIOUS
    <3>2. /\ RunIds(c, "without") # {} /\ a.delta = a.score - base
          /\ base \in Int /\ a.score \in Int
      BY <1>2, <2>1, <2>4, <3>1, ArmIsExact, CaseIsExact
    <3>3. a.score - a.delta = base
      BY <3>2
    <3>4. Cardinality(RunIds(c, "without")) = reps
      BY <2>1, <3>2, RunsAre
    <3> QED BY <2>1, <3>1, <3>3, <3>4, ArmIsExact
  <2> QED BY <2>3, <2>4
<1>3. ASSUME NEW counted, counted = {c \in Cases : status[c] # "declared"},
             NEW deltas, deltas = {c \in counted : d.agg[c].delta # Nothing}
      PROVE  /\ d.suite.score * Cardinality(counted) =
                  SumFunctionOnSet([c \in counted |-> d.agg[c].score], counted)
             /\ IF deltas = {} THEN d.suite.delta = Nothing
                ELSE d.suite.delta * Cardinality(deltas) =
                       SumFunctionOnSet([c \in deltas |-> d.agg[c].delta], deltas)
  <2>1. counted \in SUBSET Cases /\ deltas \in SUBSET Cases
    BY <1>3
  <2>2. PICK f, g : /\ f = [c \in counted |-> d.agg[c].score]
                    /\ g = [c \in deltas |-> d.agg[c].delta]
    OBVIOUS
  <2>3. /\ d.suite.score = Mean(f, counted)
        /\ d.suite.delta = IF deltas = {} THEN Nothing ELSE Mean(g, deltas)
    BY <1>3, <2>2 DEF DocIs, SuiteMeans
  <2>4. ASSUME NEW C \in SUBSET Cases, NEW c \in C
        PROVE  /\ Cardinality(C) * 1 \in 1 .. Cardinality(Cases) /\ c \in Cases
               /\ IsFiniteSet(C)
    BY SuiteIsFinite
  <2>5. \A c \in counted : f[c] \in Multiples(Cardinality(counted) * 1)
    BY <2>1, <2>2, <2>4, CaseIsExact
  <2>6. \A c \in deltas : g[c] \in Multiples(Cardinality(deltas) * 1)
    BY <1>3, <2>1, <2>2, <2>4, CaseIsExact
  <2>7. Mean(f, counted) * Cardinality(counted) = SumFunctionOnSet(f, counted)
    BY <2>1, <2>5, MeanIsExact, SuiteIsFinite, 1 \in Nat \ {0}
  <2>8. Mean(g, deltas) * Cardinality(deltas) = SumFunctionOnSet(g, deltas)
    BY <2>1, <2>6, MeanIsExact, SuiteIsFinite, 1 \in Nat \ {0}
  <2> QED BY <2>2, <2>3, <2>7, <2>8
<1> QED BY <1>1, <1>2, <1>3, Zenon DEF NumbersMatch

-----------------------------------------------------------------------------
(* The steps.                                                              *)

LEMMA VerdictStarts ==
  ASSUME Init
  PROVE  VerdictInv
<1>1. ChosenWell
  BY DEF Init, ChosenWell
<1>2. Len(order) \in Nat
  BY <1>1, OrderHasRuns
<1>3. DOMAIN facts = {} /\ DOMAIN doc.entry = {} /\ DOMAIN tree = {} /\ pc = "run"
  BY DEF Init
<1>4. RunSoFar = {}
  BY DEF Init, RunSoFar
<1>5. AtStep
  BY <1>2, <1>3, <1>4 DEF Init, AtStep
<1> QED BY <1>1, <1>3, <1>5 DEF VerdictInv, FactsAre, TreeIs, WordsAre

\* An entry is given by its fields.
LEMMA GradedIs ==
  ASSUME NEW a, NEW b, NEW c, NEW error, NEW denied, NEW paid, NEW trace, NEW e, NEW marks,
         e = [results |-> a, score |-> b, passed |-> c, error |-> error,
              denied |-> denied, paid |-> paid, trace |-> trace]
  PROVE  Graded(e, marks) =
           [results |-> marks, score |-> Score(marks), passed |-> Score(marks) = Unit,
            error |-> error, denied |-> denied, paid |-> paid, trace |-> trace]
<1>1. PICK score, all : score = Score(marks) /\ all = (score = Unit)
  OBVIOUS
<1>2. PICK e1 : e1 = [e EXCEPT !.results = marks]
  OBVIOUS
<1>3. PICK e2 : e2 = [e1 EXCEPT !.score = score]
  OBVIOUS
<1>4. PICK e3 : e3 = [e2 EXCEPT !.passed = all]
  OBVIOUS
<1>5. e1 = [results |-> marks, score |-> b, passed |-> c, error |-> error,
            denied |-> denied, paid |-> paid, trace |-> trace]
  BY <1>2
<1>6. e2 = [results |-> marks, score |-> score, passed |-> c, error |-> error,
            denied |-> denied, paid |-> paid, trace |-> trace]
  BY <1>3, <1>5
<1>7. e3 = [results |-> marks, score |-> score, passed |-> all, error |-> error,
            denied |-> denied, paid |-> paid, trace |-> trace]
  BY <1>4, <1>6
<1>8. e3 = [e EXCEPT !.results = marks, !.score = score, !.passed = all]
  BY <1>2, <1>3, <1>4
<1> QED BY <1>1, <1>7, <1>8 DEF Graded

LEMMA RunOnceStep ==
  ASSUME VerdictInv, RunOnce
  PROVE  VerdictInv'
<1>1. /\ pc = "run" /\ pc' = "run" /\ at' = at + 1 /\ at < Len(order) /\ disk = Nothing
      /\ UNCHANGED <<chosen, disk, tree, faults, unread, words>> /\ ChosenWell
      /\ at \in 0 .. Len(order) /\ DOMAIN facts = RunSoFar /\ DOMAIN doc.entry = RunSoFar
      /\ doc = [entry |-> doc.entry] /\ \A s \in RunSoFar : EntryIs(doc.entry[s], s, {})
  BY DEF RunOnce, VerdictInv, AtStep
<1>2. PICK r : r = order[at + 1]
  OBVIOUS
<1>3. /\ r \in Runs /\ Len(order) \in Nat /\ at + 1 \in 1 .. Len(order)
      /\ order' = order
  BY <1>1, <1>2, OrderHasRuns DEF chosen
<1>4. PICK f : EndRun(r, f) /\ f.skips \subseteq Graders[r[1]]
  <2>1. PICK flaw, right, skips :
          /\ skips \in SUBSET IF backend = "cowork" THEN Graders[r[1]] \cap Judged ELSE {}
          /\ EndRun(r, [flaw |-> flaw, right |-> right, skips |-> skips])
    BY <1>2 DEF RunOnce
  <2>2. PICK f : f = [flaw |-> flaw, right |-> right, skips |-> skips]
    OBVIOUS
  <2> QED BY <2>1, <2>2
<1>7. PICK e : e = Graded(Blank(f), GraderResults(r, f))
  OBVIOUS
<1>8. /\ facts' = Put(facts, r, f)
      /\ doc' = [doc EXCEPT !.entry = Put(@, r, e)]
  BY <1>4, <1>7 DEF EndRun
<1>9. /\ DOMAIN facts' = RunSoFar \cup {r} /\ facts'[r] = f
      /\ \A s \in RunSoFar : s # r => facts'[s] = facts[s]
  BY <1>1, <1>8 DEF Put
<1>10. doc' = [entry |-> Put(doc.entry, r, e)]
  BY <1>1, <1>8
<1>11. /\ doc' = [entry |-> doc'.entry]
       /\ DOMAIN doc'.entry = RunSoFar \cup {r} /\ doc'.entry[r] = e
       /\ \A s \in RunSoFar : s # r => doc'.entry[s] = doc.entry[s]
  BY <1>1, <1>10 DEF Put
<1>12. RunSoFar' = RunSoFar \cup {r}
  BY <1>1, <1>2, <1>3 DEF RunSoFar
<1>14. EntryIs(e, r, {})'
  <2>1. GraderResults(r, facts[r])' = GraderResults(r, f)
    <3>1. TwoArm' = TwoArm
      BY <1>1, ChoiceStays
    <3>2. Indicators(r[1])' = Indicators(r[1])
      BY <3>1 DEF Indicators
    <3> QED BY <1>9, <3>2 DEF GraderResults
  <2>2. PICK error, paid, none, zero, no :
          /\ error = (f.flaw \in {"error", "late"}) /\ paid = (f.flaw = "paid")
          /\ none = <<>> /\ zero = 0 /\ no = FALSE
    OBVIOUS
  <2>3. PICK blank, marks : blank = Blank(f) /\ marks = GraderResults(r, f)
    OBVIOUS
  <2>4. blank = [results |-> none, score |-> zero, passed |-> no, error |-> error,
                 denied |-> no, paid |-> paid, trace |-> Nothing]
    BY <2>2, <2>3, Zenon DEF Blank
  <2>5. e = [results |-> marks, score |-> Score(marks), passed |-> Score(marks) = Unit,
             error |-> error, denied |-> no, paid |-> paid, trace |-> Nothing]
    BY <1>7, <2>3, <2>4, GradedIs
  <2>6. ResultsAre(e.results, r, e.trace, {})'
    BY <2>1, <2>3, <2>5 DEF ResultsAre
  <2> QED BY <1>9, <2>2, <2>3, <2>5, <2>6 DEF EntryIs
<1>15. ASSUME NEW s \in RunSoFar, s # r PROVE EntryIs(doc.entry[s], s, {})'
  <2>1. PICK d : d = doc.entry[s]
    OBVIOUS
  <2>2. EntryIs(d, s, {})'
    BY <1>1, <1>9, <1>15, <2>1, EntryStays
  <2>3. d = doc'.entry[s]
    BY <1>11, <1>15, <2>1
  <2> QED BY <2>2, <2>3
<1>16. AtStep'
  <2>1. \A s \in RunSoFar' : EntryIs(doc.entry[s], s, {})'
    BY <1>11, <1>12, <1>14, <1>15
  <2>2. at' \in 0 .. Len(order')
    BY <1>1, <1>3
  <2> QED BY <1>1, <1>9, <1>11, <1>12, <2>1, <2>2 DEF AtStep
<1>17. FactsAre'
  BY <1>1, <1>4, <1>9 DEF FactsAre, VerdictInv
<1>18. (TreeIs => TreeIs') /\ ChosenWell'
  BY <1>1, ChoiceStays DEF TreeIs
<1> QED BY <1>1, <1>16, <1>17, <1>18 DEF VerdictInv, WordsAre

LEMMA WriteDocumentStep ==
  ASSUME VerdictInv, WriteDocument
  PROVE  VerdictInv'
<1>1. /\ pc = "run" /\ pc' \in {"collect", "check"} /\ at' = 0 /\ at = Len(order)
      /\ doc' = Document(doc.entry) /\ disk' = doc'
      /\ UNCHANGED <<chosen, facts, tree, faults, unread, words>> /\ ChosenWell
      /\ DOMAIN facts = RunSoFar /\ DOMAIN doc.entry = RunSoFar
      /\ \A s \in RunSoFar : EntryIs(doc.entry[s], s, {})
  BY DEF WriteDocument, VerdictInv, AtStep
<1>2. RunSoFar = Runs /\ Len(order) \in Nat /\ order' = order
  BY <1>1, OrderHasRuns DEF RunSoFar, chosen
<1>3. PICK d : d = Document(doc.entry)
  OBVIOUS
<1>4. DocIs(d, FALSE)
  <2>1. d = [defs |-> d.defs, entry |-> d.entry, agg |-> d.agg, suite |-> d.suite]
        /\ d.entry = doc.entry /\ d.defs = Graders
        /\ d.agg = [c \in Cases |-> CaseMeans(d.entry, c)] /\ d.suite = SuiteMeans(d.agg)
    BY <1>3 DEF Document
  <2> QED BY <1>1, <1>2, <2>1 DEF DocIs
<1>5. DocIs(d, FALSE)'
  BY <1>1, <1>4, DocStays
<1>6. d = doc' /\ d = disk'
  BY <1>1, <1>3
<1>7. DocIs(doc, FALSE)' /\ DocIs(disk, FALSE)'
  BY <1>5, <1>6
<1>8. AtStep'
  <2>1. at' \in 0 .. Len(order')
    BY <1>1, <1>2
  <2>2. CASE pc' = "collect"
    BY <1>7, <2>1, <2>2 DEF AtStep
  <2>3. CASE pc' = "check"
    BY <1>7, <2>3 DEF AtStep
  <2> QED BY <1>1, <2>2, <2>3
<1>9. (TreeIs => TreeIs') /\ ChosenWell' /\ FactsAre'
  BY <1>1, <1>2, ChoiceStays DEF TreeIs, FactsAre, VerdictInv
<1> QED BY <1>1, <1>8, <1>9 DEF VerdictInv, WordsAre

\* The means are of the scores, and of nothing else in an entry but what is paid.
SameMarks(x, y, S) ==
  \A r \in S : x[r].score = y[r].score /\ x[r].passed = y[r].passed /\ x[r].paid = y[r].paid

LEMMA MeansAgree ==
  ASSUME ChosenWell, NEW x, NEW y, NEW c \in Cases,
         SameMarks(x, y, RunIds(c, "with") \cup RunIds(c, "without"))
  PROVE  CaseMeans(x, c) = CaseMeans(y, c)
<1>1. ASSUME NEW arm \in {"with", "without"}
      PROVE  ArmScore(x, c, arm) = ArmScore(y, c, arm) /\ ArmRate(x, c, arm) = ArmRate(y, c, arm)
  <2>1. \A r \in RunIds(c, arm) : x[r].score = y[r].score /\ x[r].passed = y[r].passed
    BY DEF SameMarks
  <2>2. [r \in RunIds(c, arm) |-> x[r].score] = [r \in RunIds(c, arm) |-> y[r].score]
    BY <2>1
  <2>3. [r \in RunIds(c, arm) |-> IF x[r].passed THEN Unit ELSE 0]
        = [r \in RunIds(c, arm) |-> IF y[r].passed THEN Unit ELSE 0]
    BY <2>1
  <2> QED BY <2>2, <2>3, Zenon DEF ArmScore, ArmRate
<1>2. Comparable(x, c) <=> Comparable(y, c)
  BY DEF Comparable, SameMarks
<1> QED BY <1>1, <1>2 DEF CaseMeans

\* An entry whose trace was collected.
LEMMA TracedIs ==
  ASSUME NEW a, NEW b, NEW c, NEW error, NEW denied, NEW paid, NEW trace, NEW e,
         NEW path, NEW found,
         e = [results |-> a, score |-> b, passed |-> c, error |-> error,
              denied |-> denied, paid |-> paid, trace |-> trace]
  PROVE  Traced(e, path, found) =
           [results |-> a, score |-> b, passed |-> c, error |-> error,
            denied |-> found, paid |-> paid, trace |-> path]
<1>1. PICK e1 : e1 = [e EXCEPT !.trace = path]
  OBVIOUS
<1>2. PICK e2 : e2 = [e1 EXCEPT !.denied = found]
  OBVIOUS
<1>3. e1 = [results |-> a, score |-> b, passed |-> c, error |-> error,
            denied |-> denied, paid |-> paid, trace |-> path]
  BY <1>1
<1>4. e2 = [results |-> a, score |-> b, passed |-> c, error |-> error,
            denied |-> found, paid |-> paid, trace |-> path]
  BY <1>2, <1>3
<1>5. e2 = [e EXCEPT !.trace = path, !.denied = found]
  BY <1>1, <1>2
<1> QED BY <1>4, <1>5 DEF Traced

LEMMA EntryReplaced ==
  ASSUME ChosenWell, UNCHANGED <<chosen, facts>>, unread \subseteq unread',
         DOMAIN tree \subseteq DOMAIN tree', NEW r \in Runs,
         NEW d, DocIs(d, FALSE), NEW e, EntryIs(e, r, {})',
         e.score = d.entry[r].score, e.passed = d.entry[r].passed,
         e.paid = d.entry[r].paid,
         NEW d2, d2 = [d EXCEPT !.entry = [@ EXCEPT ![r] = e]]
  PROVE  DocIs(d2, FALSE)'
<1>1. PICK defs, entry, agg, suite : /\ d = [defs |-> defs, entry |-> entry,
                                             agg |-> agg, suite |-> suite]
                                     /\ DOMAIN entry = Runs
  BY DEF DocIs
<1>2. PICK more : more = [entry EXCEPT ![r] = e]
  OBVIOUS
<1>3. d2 = [defs |-> defs, entry |-> more, agg |-> agg, suite |-> suite]
  BY <1>1, <1>2
<1>4. DOMAIN more = Runs /\ more[r] = e /\ \A s \in Runs : s # r => more[s] = entry[s]
  BY <1>1, <1>2
<1>5. Runs' = Runs /\ Ran' = Ran
  BY ChoiceStays
<1>6. ASSUME NEW s \in Runs PROVE EntryIs(more[s], s, {})'
  <2>1. CASE s = r
    BY <1>4, <2>1
  <2>2. CASE s # r
    <3>1. EntryIs(entry[s], s, {})
      BY <1>1 DEF DocIs
    <3> QED BY <1>4, <2>2, <3>1, EntryStays
  <2> QED BY <2>1, <2>2
<1>7. agg = [c \in Cases |-> CaseMeans(more, c)]
  <2>1. ASSUME NEW c \in Cases PROVE CaseMeans(more, c) = CaseMeans(entry, c)
    <3>1. SameMarks(more, entry, RunIds(c, "with") \cup RunIds(c, "without"))
      BY <1>1, <1>4, RunsAre DEF SameMarks
    <3> QED BY <3>1, MeansAgree
  <2>2. agg = [c \in Cases |-> CaseMeans(entry, c)]
    BY <1>1 DEF DocIs
  <2> QED BY <2>1, <2>2
<1>8. agg = [c \in Cases |-> CaseMeans(more, c)'] /\ suite = SuiteMeans(agg)'
  <2>1. [c \in Cases |-> CaseMeans(more, c)'] = [c \in Cases |-> CaseMeans(more, c)]
    BY MeansStay
  <2>2. suite = SuiteMeans(agg)
    BY <1>1 DEF DocIs
  <2> QED BY <1>7, <2>1, <2>2, MeansStay
<1>9. \A c \in Ran : defs[c] = Graders[c]
  BY <1>1 DEF DocIs
<1> QED BY <1>3, <1>4, <1>5, <1>6, <1>8, <1>9 DEF DocIs

LEMMA KeptIs ==
  ASSUME NEW r \in Runs, NEW w \in {r, Nothing}, UNCHANGED chosen, tree' = Kept(r, w)
  PROVE  /\ SlugsApart /\ TreeIs => TreeIs'
         /\ DOMAIN tree \subseteq DOMAIN tree' /\ RunDir(r) \in DOMAIN tree'
<1>1. PICK before : before = IF RunDir(r) \in DOMAIN tree
                             THEN tree[RunDir(r)].workspace ELSE Nothing
  OBVIOUS
<1>2. PICK kept : kept = IF before # Nothing /\ (w = Nothing \/ backend = "docker")
                         THEN before ELSE w
  OBVIOUS
<1>3. tree' = Put(tree, RunDir(r), [trace |-> r, workspace |-> kept])
  BY <1>1, <1>2 DEF Kept
<1>4. /\ DOMAIN tree' = DOMAIN tree \cup {RunDir(r)}
      /\ tree'[RunDir(r)].workspace = kept
      /\ \A d \in DOMAIN tree : d # RunDir(r) => tree'[d] = tree[d]
  BY <1>3 DEF Put
<1>5. ASSUME SlugsApart, TreeIs PROVE TreeIs'
  <2>1. kept \in {r, Nothing}
    BY <1>1, <1>2, <1>5 DEF TreeIs
  <2>2. Runs' = Runs
    BY ChoiceStays
  <2>3. ASSUME NEW s \in Runs, RunDir(s) \in DOMAIN tree'
        PROVE  tree'[RunDir(s)].workspace \in {Nothing, s}
    <3>1. CASE RunDir(s) = RunDir(r)
      <4>1. s = r
        BY <1>5, <3>1, RunDirIsOwn
      <4> QED BY <1>4, <2>1, <4>1
    <3>2. CASE RunDir(s) # RunDir(r)
      BY <1>4, <1>5, <2>3, <3>2 DEF TreeIs
    <3> QED BY <3>1, <3>2
  <2> QED BY <2>2, <2>3 DEF TreeIs
<1> QED BY <1>4, <1>5

LEMMA CollectRunStep ==
  ASSUME VerdictInv, CollectRun
  PROVE  VerdictInv'
<1>1. /\ pc = "collect" /\ pc' = "collect" /\ at' = at + 1 /\ at < Len(order)
      /\ UNCHANGED <<chosen, facts, disk, words>> /\ ChosenWell /\ FactsAre
      /\ at \in 0 .. Len(order) /\ DocIs(doc, FALSE)
      /\ disk # Nothing => DocIs(disk, FALSE)
  BY DEF CollectRun, VerdictInv, AtStep
<1>2. PICK r : r = order[at + 1]
  OBVIOUS
<1>3. /\ r \in Runs /\ Len(order) \in Nat /\ at + 1 \in 1 .. Len(order)
      /\ order' = order
  BY <1>1, <1>2, OrderHasRuns DEF chosen
<1> DEFINE Good == /\ unread \subseteq unread' /\ DOMAIN tree \subseteq DOMAIN tree'
                   /\ DocIs(doc, FALSE)' /\ (SlugsApart /\ TreeIs => TreeIs')
<1>4. ASSUME UNCHANGED <<doc, tree, unread>> PROVE Good
  <2>1. PICK d : d = doc
    OBVIOUS
  <2>2. DocIs(d, FALSE)'
    BY <1>1, <1>4, <2>1, DocStays
  <2>3. d = doc'
    BY <1>4, <2>1
  <2>4. Runs' = Runs
    BY <1>1, ChoiceStays
  <2>5. TreeIs => TreeIs'
    BY <1>4, <2>4 DEF TreeIs
  <2> QED BY <1>4, <2>2, <2>3, <2>5
<1>5. ASSUME NEW w \in {r, Nothing}, tree' = Kept(r, w), unread \subseteq unread',
             NEW e, Enter(r, e),
             \/ e = Traced(doc.entry[r], RunDir(r), facts[r].flaw = "denied")
             \/ e = [doc.entry[r] EXCEPT !.trace = RunDir(r)] /\ r \in unread'
      PROVE  Good
  <2>1. /\ DOMAIN tree \subseteq DOMAIN tree' /\ RunDir(r) \in DOMAIN tree'
        /\ SlugsApart /\ TreeIs => TreeIs'
    BY <1>1, <1>3, <1>5, KeptIs
  <2>2. PICK d, old : d = doc /\ old = doc.entry[r]
    OBVIOUS
  <2>3. EntryIs(old, r, {}) /\ DocIs(d, FALSE)
    BY <1>1, <1>3, <2>2 DEF DocIs
  <2>4. PICK found : found = (facts[r].flaw = "denied")
    OBVIOUS
  <2>5. PICK a, b, c, error, denied, paid, trace :
          old = [results |-> a, score |-> b, passed |-> c, error |-> error,
                 denied |-> denied, paid |-> paid, trace |-> trace]
    BY <2>3 DEF EntryIs
  <2>6. PICK said : /\ said \in {denied, found} /\ (said = found \/ r \in unread')
                    /\ e = [results |-> a, score |-> b, passed |-> c, error |-> error,
                            denied |-> said, paid |-> paid, trace |-> RunDir(r)]
    <3>1. PICK path : path = RunDir(r)
      OBVIOUS
    <3>2. Traced(old, path, found) =
            [results |-> a, score |-> b, passed |-> c, error |-> error,
             denied |-> found, paid |-> paid, trace |-> path]
      BY <2>5, TracedIs
    <3>3. [old EXCEPT !.trace = path] =
            [results |-> a, score |-> b, passed |-> c, error |-> error,
             denied |-> denied, paid |-> paid, trace |-> path]
      BY <2>5
    <3>4. CASE e = Traced(doc.entry[r], RunDir(r), facts[r].flaw = "denied")
      <4>1. e = Traced(old, path, facts[r].flaw = "denied")
        BY <2>2, <3>1, <3>4, Zenon
      <4>2. e = Traced(old, path, found)
        BY <2>4, <4>1
      <4> QED BY <3>1, <3>2, <4>2
    <3>5. CASE e = [doc.entry[r] EXCEPT !.trace = RunDir(r)] /\ r \in unread'
      BY <2>2, <3>1, <3>3, <3>5
    <3> QED BY <1>5, <3>4, <3>5
  <2>7. EntryIs(e, r, {})'
    <3>1. ResultsAre(e.results, r, e.trace, {})'
      <4>1. ResultsAre(a, r, trace, {})
        BY <2>3, <2>5 DEF EntryIs
      <4>2. GraderResults(r, facts[r])' = GraderResults(r, facts[r])
        BY <1>1, ResultsStay
      <4> QED BY <2>6, <4>1, <4>2 DEF ResultsAre
    <3>2. /\ b = Score(a) /\ c = (b = Unit) /\ error = (facts[r].flaw \in {"error", "late"})
          /\ paid = (facts[r].flaw = "paid") /\ (denied => facts[r].flaw = "denied")
      BY <2>3, <2>5 DEF EntryIs
    <3>3. facts' = facts
      BY <1>1
    <3> QED BY <2>1, <2>4, <2>6, <3>1, <3>2, <3>3 DEF EntryIs
  <2>8. e.score = d.entry[r].score /\ e.passed = d.entry[r].passed /\ e.paid = d.entry[r].paid
    BY <2>2, <2>5, <2>6
  <2>9. PICK d2 : d2 = [d EXCEPT !.entry = [@ EXCEPT ![r] = e]]
    OBVIOUS
  <2>10. DocIs(d2, FALSE)'
    BY <1>1, <1>3, <1>5, <2>1, <2>3, <2>7, <2>8, <2>9, EntryReplaced
  <2>11. d2 = doc'
    BY <1>5, <2>2, <2>9 DEF Enter
  <2> QED BY <1>5, <2>1, <2>10, <2>11
<1>6. Good
  <2>1. CASE UNCHANGED <<doc, tree, unread>>
    BY <1>4, <2>1
  <2>2. CASE ~UNCHANGED <<doc, tree, unread>>
    <3>1. PICK one, two :
            /\ one = Traced(doc.entry[r], RunDir(r), facts[r].flaw = "denied")
            /\ two = [doc.entry[r] EXCEPT !.trace = RunDir(r)]
      OBVIOUS
    <3>2. \/ /\ tree' = Kept(r, r) \/ tree' = Kept(r, Nothing)
             /\ Enter(r, one) /\ UNCHANGED unread
          \/ /\ tree' = Kept(r, Nothing)
             /\ Enter(r, two) /\ unread' = unread \cup {r}
      BY <1>2, <2>2, <3>1, Zenon DEF CollectRun
    <3>3. CASE Enter(r, one) /\ UNCHANGED unread
               /\ (tree' = Kept(r, r) \/ tree' = Kept(r, Nothing))
      BY <1>5, <3>1, <3>3
    <3>4. CASE Enter(r, two) /\ unread' = unread \cup {r} /\ tree' = Kept(r, Nothing)
      BY <1>5, <3>1, <3>4
    <3> QED BY <3>2, <3>3, <3>4
  <2> QED BY <2>1, <2>2
<1> HIDE DEF Good
<1>7. disk' # Nothing => DocIs(disk, FALSE)'
  <2>1. PICK d : d = disk
    OBVIOUS
  <2>2. d # Nothing => DocIs(d, FALSE)'
    BY <1>1, <1>6, <2>1, DocStays DEF Good
  <2>3. d = disk'
    BY <1>1, <2>1
  <2> QED BY <2>2, <2>3
<1>8. AtStep'
  <2>1. at' \in 0 .. Len(order')
    BY <1>1, <1>3
  <2> QED BY <1>1, <1>6, <1>7, <2>1 DEF AtStep, Good
<1>9. ChosenWell' /\ FactsAre'
  BY <1>1, ChoiceStays DEF FactsAre
<1> QED BY <1>1, <1>6, <1>8, <1>9 DEF VerdictInv, WordsAre, Good

-----------------------------------------------------------------------------
(* The checks, and the last steps.                                         *)

LEMMA MapTracesStep ==
  ASSUME VerdictInv, MapTraces
  PROVE  VerdictInv'
<1>1. /\ pc' = "check" /\ UNCHANGED <<chosen, facts, tree, unread, words>>
      /\ ChosenWell /\ FactsAre /\ DocIs(doc, FALSE)
      /\ disk # Nothing => DocIs(disk, FALSE)
      /\ disk' \in {doc, disk, Nothing}
      /\ pc = "collect"
  BY DEF MapTraces, WriteFails, VerdictInv, AtStep
<1>2. disk' # Nothing => DocIs(disk, FALSE)'
  <2>1. PICK d : d = disk'
    OBVIOUS
  <2>2. d # Nothing => DocIs(d, FALSE)
    BY <1>1, <2>1
  <2>3. d # Nothing => DocIs(d, FALSE)'
    BY <1>1, <2>2, DocStays
  <2> QED BY <2>1, <2>3
<1>3. AtStep'
  BY <1>1, <1>2 DEF AtStep
<1>4. (TreeIs => TreeIs') /\ ChosenWell' /\ FactsAre'
  BY <1>1, ChoiceStays DEF TreeIs, FactsAre
<1> QED BY <1>1, <1>3, <1>4 DEF VerdictInv, WordsAre

LEMMA ToCheckStays ==
  ASSUME UNCHANGED chosen
  PROVE  ToCheck' = ToCheck
BY DEF ToCheck, chosen

\* A case that runs and is not checked has no checks.
LEMMA UncheckedIs ==
  ASSUME NEW r \in Runs, r[1] \notin ToCheck
  PROVE  Checks[r[1]] = {}
<1>1. r[1] \in Ran /\ r[1] \in Cases
  BY RunIsItsOwn
<1> QED BY <1>1 DEF Ran, ToCheck

LEMMA CheckedEntryIs ==
  ASSUME NEW r \in Runs, NEW old, EntryIs(old, r, {}), NEW e, e = CheckedEntry(old, r)
  PROVE  EntryIs(e, r, Checks[r[1]]) /\ e.paid = old.paid
<1>1. PICK a, b, c, error, denied, paid, trace :
        old = [results |-> a, score |-> b, passed |-> c, error |-> error,
               denied |-> denied, paid |-> paid, trace |-> trace]
  BY DEF EntryIs
<1>2. PICK marks : marks =
        [s \in DOMAIN a \cup Checks[r[1]] |->
           IF s \in Checks[r[1]] THEN CheckResult(trace, s) ELSE a[s]]
  OBVIOUS
<1>3. e = Graded(old, marks)
  <2>1. PICK checked : checked = [k \in Checks[r[1]] |-> CheckResult(trace, k)]
    OBVIOUS
  <2>2. marks = [s \in DOMAIN a \cup Checks[r[1]] |->
                     IF s \in Checks[r[1]] THEN checked[s] ELSE a[s]]
    BY <1>2, <2>1
  <2>3. old.trace = trace /\ old.results = a
    BY <1>1
  <2> QED BY <2>1, <2>2, <2>3, Zenon DEF CheckedEntry
<1>4. e = [results |-> marks, score |-> Score(marks), passed |-> Score(marks) = Unit,
           error |-> error, denied |-> denied, paid |-> paid, trace |-> trace]
  BY <1>1, <1>3, GradedIs
<1>5. ResultsAre(marks, r, trace, Checks[r[1]])
  <2>1. ResultsAre(a, r, trace, {})
    BY <1>1 DEF EntryIs
  <2>2. DOMAIN GraderResults(r, facts[r]) \cap Checks[r[1]] = {}
    <3>1. DOMAIN GraderResults(r, facts[r]) \subseteq Graders[r[1]]
      BY DEF GraderResults
    <3> QED BY <3>1, RunIsItsOwn, VerdictAssumption
  <2> QED BY <1>2, <2>1, <2>2 DEF ResultsAre
<1> QED BY <1>1, <1>4, <1>5 DEF EntryIs

LEMMA ArmsAreNumbers ==
  ASSUME ChosenWell, NEW d, DocIs(d, FALSE), NEW c \in Cases
  PROVE  /\ ArmScore(d.entry, c, "with") \in Int
         /\ ArmScore(d.entry, c, "without") \in Int
         /\ ArmScore(d.entry, c, "with") - ArmScore(d.entry, c, "without") \in Int
<1>1. PICK checked \in BOOLEAN : checked = FALSE
  OBVIOUS
<1>2. DocIs(d, checked)
  BY <1>1
<1>3. \A arm \in {"with", "without"} : ArmScore(d.entry, c, arm) \in Int
  BY <1>2, ArmIsExact
<1> QED BY <1>3

LEMMA CaseCheckedIs ==
  ASSUME ChosenWell, NEW d, DocIs(d, FALSE), NEW c \in Cases, NEW entries,
         \A r \in RunIds(c, "with") \cup RunIds(c, "without") :
           entries[r].paid = d.entry[r].paid
  PROVE  CaseChecked(d.agg[c], entries, c) = CaseMeans(entries, c)
<1>1. PICK old : old = CaseMeans(d.entry, c)
  OBVIOUS
<1>2. d.agg[c] = old
  BY <1>1 DEF DocIs
<1>3. Comparable(d.entry, c) <=> Comparable(entries, c)
  BY DEF Comparable
<1>4. PICK m, n : m = ArmScore(d.entry, c, "with") /\ n = ArmScore(d.entry, c, "without")
  OBVIOUS
<1>5. m \in Int /\ n \in Int /\ m - n \in Int
  BY <1>4, ArmsAreNumbers
<1>6. /\ old.without = Nothing <=> ~Comparable(entries, c)
      /\ old.delta = Nothing <=> ~Comparable(entries, c)
  BY <1>1, <1>3, <1>4, <1>5, VerdictAssumption DEF CaseMeans
<1>7. CASE RunIds(c, "with") # {}
  <2>1. CASE Comparable(entries, c)
    <3>1. RunIds(c, "without") # {}
      BY <2>1 DEF Comparable
    <3> QED BY <1>2, <1>6, <1>7, <2>1, <3>1 DEF CaseChecked, CaseMeans
  <2>2. CASE ~Comparable(entries, c)
    BY <1>2, <1>6, <1>7, <2>2 DEF CaseChecked, CaseMeans
  <2> QED BY <2>1, <2>2
<1>8. CASE RunIds(c, "with") = {}
  <2>1. RunIds(c, "without") = {}
    <3>1. "with" \in arms /\ 1 \in 1 .. reps
      BY VerdictAssumption DEF ChosenWell
    <3>2. c \notin Ran
      BY <1>8, RanHasRuns
    <3> QED BY <3>2 DEF RunIds
  <2>2. SameMarks(entries, d.entry, RunIds(c, "with") \cup RunIds(c, "without"))
    BY <1>8, <2>1 DEF SameMarks
  <2>3. CaseMeans(entries, c) = old
    BY <1>1, <2>2, MeansAgree
  <2>4. CaseChecked(old, entries, c) = old
    BY <1>1, <1>8, <2>1 DEF CaseChecked, CaseMeans
  <2> QED BY <1>2, <2>3, <2>4
<1> QED BY <1>7, <1>8

\* The suite has a delta where a case has one.
LEMMA SuiteDelta ==
  ASSUME ChosenWell, NEW d, DocIs(d, FALSE), d.suite.delta = Nothing, NEW c \in Cases,
         status[c] # "declared"
  PROVE  ~Comparable(d.entry, c)
<1> DEFINE counted == {k \in Cases : status[k] # "declared"}
           deltas == {k \in counted : d.agg[k].delta # Nothing}
           g == [k \in deltas |-> d.agg[k].delta]
<1>1. deltas \in SUBSET Cases
  OBVIOUS
<1>2. IsFiniteSet(deltas) /\ (deltas # {} => Cardinality(deltas) \in 1 .. Cardinality(Cases))
  BY <1>1, SuiteIsFinite
<1>3. \A k \in deltas : g[k] \in Multiples(Cardinality(deltas) * 1)
  <2>1. ASSUME NEW k \in deltas PROVE g[k] \in Multiples(Cardinality(deltas) * 1)
    <3>1. Cardinality(deltas) * 1 \in 1 .. Cardinality(Cases)
      BY <1>2
    <3>2. k \in Cases /\ d.agg[k].delta # Nothing /\ g[k] = d.agg[k].delta
      OBVIOUS
    <3> HIDE DEF deltas, g
    <3> QED BY <3>1, <3>2, CaseIsExact
  <2> QED BY <2>1
<1>4. d.suite.delta = IF deltas = {} THEN Nothing ELSE Mean(g, deltas)
  BY DEF DocIs, SuiteMeans
<1>5. Mean(g, deltas) \in Int
  <2> HIDE DEF deltas, g
  <2> QED BY <1>2, <1>3, MeanIsExact, 1 \in Nat \ {0}
<1>6. deltas = {}
  <2> HIDE DEF deltas, g
  <2> QED BY <1>4, <1>5, VerdictAssumption
<1>7. d.agg[c].delta = Nothing
  BY <1>6
<1>8. ArmScore(d.entry, c, "with") - ArmScore(d.entry, c, "without") \in Int
  BY ArmsAreNumbers
<1> QED BY <1>7, <1>8, VerdictAssumption DEF DocIs, CaseMeans

LEMMA CheckedIs ==
  ASSUME ChosenWell, NEW d, DocIs(d, FALSE)
  PROVE  DocIs(Checked(d), TRUE)
<1>1. PICK entries : entries = [r \in DOMAIN d.entry |->
                                 IF r[1] \in ToCheck THEN CheckedEntry(d.entry[r], r)
                                 ELSE d.entry[r]]
  OBVIOUS
<1>2. PICK agg : agg = [c \in Cases |-> IF c \in ToCheck
                                        THEN CaseChecked(d.agg[c], entries, c)
                                        ELSE d.agg[c]]
  OBVIOUS
<1>3. PICK defs : defs = [c \in Cases |-> IF c \in ToCheck THEN Slots(c) ELSE d.defs[c]]
  OBVIOUS
<1>4. PICK suite : suite = [SuiteMeans(agg) EXCEPT
                              !.delta = IF d.suite.delta = Nothing THEN Nothing ELSE @]
  OBVIOUS
<1>5. PICK more : more = Checked(d)
  OBVIOUS
<1>6. more = [defs |-> defs, entry |-> entries, agg |-> agg, suite |-> suite]
  BY <1>1, <1>2, <1>3, <1>4, <1>5, Zenon DEF Checked
<1>7. DOMAIN d.entry = Runs /\ \A r \in Runs : EntryIs(d.entry[r], r, {})
  BY DEF DocIs
<1>8. ASSUME NEW r \in Runs
      PROVE  EntryIs(entries[r], r, Checks[r[1]]) /\ entries[r].paid = d.entry[r].paid
  <2>1. PICK old, e : old = d.entry[r] /\ e = entries[r]
    OBVIOUS
  <2>2. EntryIs(old, r, {})
    BY <1>7, <2>1
  <2>3. CASE r[1] \in ToCheck
    <3>1. e = CheckedEntry(old, r)
      BY <1>1, <1>7, <2>1, <2>3
    <3> QED BY <2>1, <2>2, <3>1, CheckedEntryIs
  <2>4. CASE r[1] \notin ToCheck
    <3>1. e = old
      BY <1>1, <1>7, <2>1, <2>4
    <3> QED BY <2>1, <2>2, <2>4, <3>1, UncheckedIs
  <2> QED BY <2>3, <2>4
<1>9. \A c \in Ran : defs[c] = Slots(c)
  BY <1>3 DEF DocIs, Slots, ToCheck, Ran
<1>10. ASSUME NEW c \in Cases PROVE agg[c] = CaseMeans(entries, c)
  <2>1. \A r \in RunIds(c, "with") \cup RunIds(c, "without") : r \in Runs /\ r[1] = c
    BY RunsAre
  <2>2. CASE c \in ToCheck
    <3>1. agg[c] = CaseChecked(d.agg[c], entries, c)
      BY <1>2, <2>2
    <3>2. \A r \in RunIds(c, "with") \cup RunIds(c, "without") :
            entries[r].paid = d.entry[r].paid
      BY <1>8, <2>1
    <3> QED BY <3>1, <3>2, CaseCheckedIs
  <2>3. CASE c \notin ToCheck
    <3>1. agg[c] = CaseMeans(d.entry, c)
      BY <1>2, <2>3 DEF DocIs
    <3>2. SameMarks(d.entry, entries, RunIds(c, "with") \cup RunIds(c, "without"))
      BY <1>1, <1>7, <2>1, <2>3 DEF SameMarks
    <3> QED BY <3>1, <3>2, MeansAgree
  <2> QED BY <2>2, <2>3
<1>11. agg = [c \in Cases |-> CaseMeans(entries, c)]
  BY <1>2, <1>10
<1>12. suite = SuiteMeans(agg)
  <2>1. PICK score, rate, deltas, delta :
          /\ deltas = {c \in Cases : status[c] # "declared" /\ agg[c].delta # Nothing}
          /\ delta = SuiteMeans(agg).delta
          /\ SuiteMeans(agg) = [score |-> score, rate |-> rate, delta |-> delta]
    BY DEF SuiteMeans
  <2>2. deltas = {} => delta = Nothing
    BY <2>1 DEF SuiteMeans
  <2>3. ASSUME d.suite.delta = Nothing PROVE deltas = {}
    <3>1. ASSUME NEW c \in deltas PROVE FALSE
      <4>1. c \in Cases /\ status[c] # "declared" /\ agg[c].delta # Nothing
        BY <2>1
      <4>2. ~Comparable(d.entry, c)
        BY <2>3, <4>1, SuiteDelta
      <4>3. Comparable(entries, c) => Comparable(d.entry, c)
        BY <1>8, <4>1, RunsAre DEF Comparable
      <4> QED BY <1>11, <4>1, <4>2, <4>3 DEF CaseMeans
    <3> QED BY <3>1
  <2>4. PICK new : new = IF d.suite.delta = Nothing THEN Nothing ELSE delta
    OBVIOUS
  <2>5. new = delta
    BY <2>2, <2>3, <2>4
  <2>6. suite = [score |-> score, rate |-> rate, delta |-> new]
    BY <1>4, <2>1, <2>4
  <2> QED BY <2>1, <2>5, <2>6
<1>13. DOMAIN entries = Runs
  BY <1>1, <1>7
<1>14. \A r \in Runs : EntryIs(entries[r], r, Checks[r[1]])
  BY <1>8
<1> QED BY <1>5, <1>6, <1>9, <1>11, <1>12, <1>13, <1>14 DEF DocIs

\* With nothing to check, a document is as good as checked.
LEMMA NothingToCheck ==
  ASSUME NEW d, DocIs(d, FALSE), ToCheck = {}
  PROVE  DocIs(d, TRUE)
<1>1. \A r \in Runs : Checks[r[1]] = {}
  BY UncheckedIs
<1>2. \A c \in Ran : Slots(c) = Graders[c]
  BY DEF Slots, ToCheck, Ran
<1> QED BY <1>1, <1>2 DEF DocIs

LEMMA CheckStep ==
  ASSUME VerdictInv, Check
  PROVE  VerdictInv'
<1>1. /\ pc' = "decide" /\ UNCHANGED <<chosen, facts, tree, unread, words>>
      /\ ChosenWell /\ FactsAre /\ pc = "check"
      /\ disk # Nothing => DocIs(disk, FALSE)
      /\ doc' = IF disk = Nothing \/ ToCheck = {} THEN disk ELSE Checked(disk)
      /\ disk' = doc' \/ (disk # doc' /\ disk' \in {disk, Nothing})
  <2>1. /\ pc = "check" /\ pc' = "decide"
        /\ UNCHANGED <<chosen, facts, tree, unread, words>>
        /\ doc' = IF disk = Nothing \/ ToCheck = {} THEN disk ELSE Checked(disk)
    BY DEF Check
  <2>2. disk' = doc' \/ (disk # doc' /\ disk' \in {disk, Nothing})
    BY Zenon DEF Check, WriteFails
  <2>3. ChosenWell /\ FactsAre /\ AtStep
    BY DEF VerdictInv
  <2> QED BY <2>1, <2>2, <2>3 DEF AtStep
<1>2. ASSUME disk' # Nothing
      PROVE  IF disk' = doc' THEN DocIs(disk, TRUE)' ELSE DocIs(disk, FALSE)'
  <2>1. PICK d : d = disk'
    OBVIOUS
  <2>2. CASE disk' = doc'
    <3>1. DocIs(d, TRUE)
      BY <1>1, <1>2, <2>1, <2>2, CheckedIs, NothingToCheck
    <3>2. DocIs(d, TRUE)'
      BY <1>1, <3>1, DocStays
    <3> QED BY <2>1, <2>2, <3>2
  <2>3. CASE disk' # doc'
    <3>1. DocIs(d, FALSE)
      BY <1>1, <1>2, <2>1, <2>3
    <3>2. DocIs(d, FALSE)'
      BY <1>1, <3>1, DocStays
    <3> QED BY <2>1, <2>3, <3>2
  <2> QED BY <2>2, <2>3
<1>3. AtStep'
  BY <1>1, <1>2 DEF AtStep, ChecksSaid
<1>4. (TreeIs => TreeIs') /\ ChosenWell' /\ FactsAre'
  BY <1>1, ChoiceStays DEF TreeIs, FactsAre
<1> QED BY <1>1, <1>3, <1>4 DEF VerdictInv, WordsAre

\* Where nothing of the document changes, what holds of it stays.
LEMMA VerdictStays ==
  ASSUME VerdictInv, UNCHANGED <<chosen, facts, at, disk, doc, tree, unread>>,
         \/ UNCHANGED pc
         \/ pc = "decide" /\ pc' = "done"
  PROVE  ChosenWell' /\ FactsAre' /\ (SlugsApart => TreeIs)' /\ AtStep'
<1>1. ChosenWell' /\ (TreeIs => TreeIs') /\ FactsAre' /\ Runs' = Runs
  BY ChoiceStays DEF TreeIs, FactsAre, VerdictInv
<1>2. PICK d1, d2 : d1 = doc /\ d2 = disk
  OBVIOUS
<1>3. \A d \in {d1, d2} : \A checked \in BOOLEAN :
        DocIs(d, checked) => DocIs(d, checked)'
  BY DocStays
<1>4. /\ DocIs(doc, FALSE) => DocIs(doc, FALSE)'
      /\ DocIs(disk, FALSE) => DocIs(disk, FALSE)'
      /\ DocIs(disk, TRUE) => DocIs(disk, TRUE)'
  <2>1. d1 = doc' /\ d2 = disk'
    BY <1>2
  <2>2. \A checked \in BOOLEAN :
          /\ DocIs(d1, checked) => DocIs(d1, checked)'
          /\ DocIs(d2, checked) => DocIs(d2, checked)'
    BY <1>3
  <2> QED BY <1>2, <2>1, <2>2
<1>5. RunSoFar' = RunSoFar /\ order' = order
  BY DEF RunSoFar, chosen
<1>6. ASSUME NEW r \in RunSoFar, EntryIs(doc.entry[r], r, {})
      PROVE  EntryIs(doc.entry[r], r, {})'
  <2>1. PICK e : e = doc.entry[r]
    OBVIOUS
  <2>2. EntryIs(e, r, {})'
    BY <1>6, <2>1, EntryStays
  <2> QED BY <2>1, <2>2
<1>7. ASSUME pc = "run" PROVE AtStep'
  BY <1>5, <1>6, <1>7 DEF AtStep, VerdictInv
<1>8. ASSUME pc # "run" PROVE AtStep'
  BY <1>4, <1>5, <1>8 DEF AtStep, VerdictInv, ChecksSaid
<1> QED BY <1>1, <1>7, <1>8 DEF VerdictInv

LEMMA WordStays ==
  ASSUME UNCHANGED chosen, NEW d, NEW c
  PROVE  WordOn(d, c)' = WordOn(d, c)
<1>1. TwoArm' = TwoArm /\ RunIds(c, "with")' = RunIds(c, "with") /\ status' = status
  BY ChoiceStays DEF chosen
<1>2. \A r : RunFails(d, r)' <=> RunFails(d, r)
  BY <1>1 DEF RunFails, ResultFails, Advised
<1>3. DeltaFails(d, c)' <=> DeltaFails(d, c)
  BY DEF DeltaFails
<1> QED BY <1>1, <1>2, <1>3 DEF WordOn

LEMMA DecideStep ==
  ASSUME VerdictInv, Decide
  PROVE  VerdictInv'
<1>1. /\ pc = "decide" /\ pc' = "done" /\ UNCHANGED <<chosen, facts, at, disk, doc, tree, unread>>
      /\ words' = [c \in IF disk = Nothing THEN {} ELSE Cases |-> WordOn(disk, c)]
  BY DEF Decide
<1>2. PICK d : d = disk
  OBVIOUS
<1>3. [c \in IF d = Nothing THEN {} ELSE Cases |-> WordOn(d, c)'] = words'
  BY <1>1, <1>2, WordStays
<1>4. d = disk'
  BY <1>1, <1>2
<1>5. WordsAre'
  BY <1>3, <1>4 DEF WordsAre
<1> QED BY <1>1, <1>5, VerdictStays DEF VerdictInv

LEMMA VerdictStutters ==
  ASSUME VerdictInv, UNCHANGED vars
  PROVE  VerdictInv'
<1>1. UNCHANGED <<pc, chosen, facts, at, disk, doc, tree, unread, words>>
  BY DEF vars
<1>2. PICK d : d = disk
  OBVIOUS
<1>3. [c \in IF d = Nothing THEN {} ELSE Cases |-> WordOn(d, c)'] =
        [c \in IF d = Nothing THEN {} ELSE Cases |-> WordOn(d, c)]
  BY <1>1, WordStays
<1>4. d = disk' /\ pc' = pc /\ words' = words
  BY <1>1, <1>2
<1>5. WordsAre'
  BY <1>2, <1>3, <1>4 DEF WordsAre, VerdictInv
<1> QED BY <1>1, <1>5, VerdictStays DEF VerdictInv

LEMMA VerdictInvariant == Spec => []VerdictInv
<1>1. ASSUME VerdictInv, [Next]_vars PROVE VerdictInv'
  <2>1. CASE RunOnce
    BY <1>1, <2>1, RunOnceStep
  <2>2. CASE WriteDocument
    BY <1>1, <2>2, WriteDocumentStep
  <2>3. CASE CollectRun
    BY <1>1, <2>3, CollectRunStep
  <2>4. CASE MapTraces
    BY <1>1, <2>4, MapTracesStep
  <2>5. CASE Check
    BY <1>1, <2>5, CheckStep
  <2>6. CASE Decide
    BY <1>1, <2>6, DecideStep
  <2>7. CASE UNCHANGED vars
    BY <1>1, <2>7, VerdictStutters
  <2> QED BY <1>1, <2>1, <2>2, <2>3, <2>4, <2>5, <2>6, <2>7 DEF Next
<1> QED BY <1>1, VerdictStarts, PTL DEF Spec

-----------------------------------------------------------------------------
(* What a word says of the runs.                                           *)

\* The document and the facts at the end.
AtEnd ==
  /\ ChosenWell /\ FactsAre /\ TreeIs /\ disk # Nothing /\ DOMAIN facts = Runs
  /\ IF ChecksSaid THEN DocIs(disk, TRUE) ELSE DocIs(disk, FALSE)

\* The document of the end, by its parts.
LEMMA EndIs ==
  ASSUME AtEnd
  PROVE  /\ \E checked \in BOOLEAN : DocIs(disk, checked) /\ (checked <=> ChecksSaid)
         /\ \A r \in Runs :
              EntryIs(disk.entry[r], r, IF ChecksSaid THEN Checks[r[1]] ELSE {})
         /\ \A c \in Ran : disk.defs[c] = IF ChecksSaid THEN Slots(c) ELSE Graders[c]
BY DEF AtEnd, DocIs

LEMMA CheckResultIs ==
  ASSUME NEW trace, NEW k, NEW result, result = CheckResult(trace, k)
  PROVE  /\ result.scored <=> trace # Nothing /\ k \notin Advisory
         /\ result.passed <=> trace # Nothing /\ Holds(trace, k)
         /\ result.skipped <=> trace = Nothing
<1>1. PICK holds \in BOOLEAN, counts \in BOOLEAN :
        holds = Holds(trace, k) /\ counts = (k \notin Advisory)
  BY DEF Holds
<1>2. CASE trace = Nothing
  <2>1. result = [passed |-> FALSE, scored |-> FALSE, skipped |-> TRUE]
    BY <1>2 DEF CheckResult
  <2> QED BY <1>2, <2>1
<1>3. CASE trace # Nothing
  <2>1. result = [passed |-> holds, scored |-> counts, skipped |-> FALSE]
    BY <1>1, <1>3, Zenon DEF CheckResult
  <2>2. result.scored = counts /\ result.passed = holds /\ result.skipped = FALSE
    BY <2>1
  <2> QED BY <1>1, <1>3, <2>2, Zenon
<1> QED BY <1>2, <1>3

\* What a run's marks have scored is what it was asked, and what they have right is
\* what was right of that.
LEMMA ScoredIsAsked ==
  ASSUME AtEnd, NEW r \in Runs, NEW marks, marks = disk.entry[r].results
  PROVE  Scored(marks) = Asked(r) /\ Right(marks) = Answered(r)
<1>1. PICK e, f, checks, trace :
        /\ e = disk.entry[r] /\ f = facts[r] /\ trace = e.trace
        /\ checks = IF ChecksSaid THEN Checks[r[1]] ELSE {}
  OBVIOUS
<1>2. EntryIs(e, r, checks)
  BY <1>1, EndIs
<1>3. PICK graded : graded = GraderResults(r, f)
  OBVIOUS
<1>4. /\ DOMAIN marks = DOMAIN graded \cup checks
      /\ \A s \in DOMAIN graded : marks[s] = graded[s]
      /\ \A k \in checks : marks[k] = CheckResult(trace, k)
  BY <1>1, <1>2, <1>3 DEF EntryIs, ResultsAre
<1>5. r[1] \in Cases /\ Graders[r[1]] \cap (Checks[r[1]] \cup Advisory) = {}
      /\ Checks[r[1]] \cap Judged = {}
  BY RunIsItsOwn, VerdictAssumption
<1>6. PICK out : out = Indicators(r[1])
  OBVIOUS
<1>7. PICK marked : marked = IF f.flaw = "error" THEN {} ELSE Graders[r[1]] \ (out \cup f.skips)
  OBVIOUS
<1>8. /\ DOMAIN graded \subseteq Graders[r[1]]
      /\ \A s : s \in DOMAIN graded /\ graded[s].scored <=> s \in marked
      /\ \A s \in marked :
           graded[s].passed <=> s \in f.right /\ ~(f.flaw = "paid" /\ s \in Judged)
  <2>1. CASE f.flaw = "error"
    BY <1>3, <1>7, <2>1 DEF GraderResults
  <2>2. CASE f.flaw # "error"
    <3>1. PICK asked : asked = IF r[2] = "with" THEN Graders[r[1]] ELSE Graders[r[1]] \ out
      OBVIOUS
    <3>2. graded = [s \in asked |->
            [passed |-> s \in f.right \ f.skips /\ ~(f.flaw = "paid" /\ s \in Judged),
             scored |-> s \notin f.skips \cup out,
             skipped |-> s \in f.skips]]
      BY <1>3, <1>6, <2>2, <3>1 DEF GraderResults
    <3> QED BY <1>7, <2>2, <3>1, <3>2
  <2> QED BY <2>1, <2>2
<1>9. PICK tested : tested = IF Collected(r) /\ ChecksSaid THEN Checks[r[1]] \ Advisory ELSE {}
  OBVIOUS
<1>10. /\ \A k : k \in checks /\ marks[k].scored <=> k \in tested
       /\ \A k \in tested : marks[k].passed <=> Filed(r) /\ k \in f.right
  <2>1. Collected(r) <=> trace # Nothing
    BY <1>1 DEF Collected
  <2>2. \A k \in checks : marks[k].scored <=> k \notin Advisory /\ trace # Nothing
    BY <1>4, CheckResultIs
  <2>3. ASSUME NEW k \in tested
        PROVE  marks[k].passed <=> Filed(r) /\ k \in f.right
    <3>1. trace # Nothing /\ k \in checks
      BY <1>1, <1>9, <2>1
    <3>2. marks[k].passed <=> Holds(trace, k)
      BY <1>4, <3>1, CheckResultIs
    <3>3. trace = RunDir(r) /\ RunDir(r) \in DOMAIN tree
      BY <1>1, <1>2, <3>1 DEF EntryIs
    <3>4. tree[trace].workspace \in {Nothing, r}
      BY <3>3 DEF AtEnd, TreeIs
    <3>5. Filed(r) <=> tree[trace].workspace # Nothing
      BY <1>1, <2>1, <3>1 DEF Filed
    <3> QED BY <1>1, <3>2, <3>4, <3>5 DEF Holds
  <2> QED BY <1>1, <1>9, <2>1, <2>2, <2>3
<1>11. Asked(r) = marked \cup tested
  BY <1>1, <1>6, <1>7, <1>9, Zenon DEF Asked
<1>12. marked \subseteq Graders[r[1]] /\ tested \subseteq Checks[r[1]]
  BY <1>7, <1>9
<1>13. Scored(marks) = Asked(r)
  <2>1. ASSUME NEW s PROVE s \in Scored(marks) <=> s \in marked \cup tested
    BY <1>4, <1>8, <1>10 DEF Scored
  <2> QED BY <1>11, <2>1
<1>14. Right(marks) = Answered(r)
  <2>1. ASSUME NEW s \in marked
        PROVE  marks[s].passed <=> s \in Answered(r)
    BY <1>1, <1>4, <1>5, <1>8, <1>11, <1>12, <2>1 DEF Answered
  <2>2. ASSUME NEW s \in tested
        PROVE  marks[s].passed <=> s \in Answered(r)
    BY <1>1, <1>5, <1>10, <1>11, <1>12, <2>2 DEF Answered
  <2>3. Answered(r) \subseteq marked \cup tested
    BY <1>11 DEF Answered
  <2> QED BY <1>11, <1>13, <2>1, <2>2, <2>3 DEF Right
<1> QED BY <1>13, <1>14

LEMMA ScoreIsShare ==
  ASSUME AtEnd, NEW r \in Runs
  PROVE  disk.entry[r].score = Share(r)
<1>1. PICK marks : marks = disk.entry[r].results
  OBVIOUS
<1>2. disk.entry[r].score = Score(marks)
  BY <1>1, EndIs DEF EntryIs
<1> QED BY <1>1, <1>2, ScoredIsAsked DEF Score, Share

LEMMA TimesOrdered ==
  ASSUME NEW k \in Nat \ {0}, NEW a \in Int, NEW b \in Int
  PROVE  a >= b <=> a * k >= b * k
<1>1. CASE a >= b
  <2>1. PICK m \in Nat : a = b + m
    BY <1>1, a - b \in Nat
  <2>2. (b + m) * k = b * k + m * k /\ m * k \in Nat /\ b * k \in Int
    OBVIOUS
  <2> QED BY <1>1, <2>1, <2>2
<1>2. CASE ~(a >= b)
  <2>1. PICK m \in Nat : b = a + (m + 1)
    BY <1>2, b - a - 1 \in Nat
  <2>2. (a + (m + 1)) * k = a * k + (m * k + k) /\ m * k \in Nat /\ a * k \in Int
    OBVIOUS
  <2> QED BY <1>2, <2>1, <2>2
<1> QED BY <1>1, <1>2

\* With two arms, the delta of a case that ran is what the plugin changed.
LEMMA DeltaIsImprovement ==
  ASSUME AtEnd, TwoArm, NEW c \in Cases, status[c] = "ran"
  PROVE  DeltaFails(disk, c) <=> ~Improved(c)
<1>1. PICK checked \in BOOLEAN : DocIs(disk, checked)
  BY EndIs
<1>2. /\ ChosenWell /\ c \in Ran /\ RunIds(c, "with") # {} /\ RunIds(c, "without") # {}
  <2>1. c \in Ran /\ "without" \in arms /\ ChosenWell
    BY DEF AtEnd, Ran, TwoArm
  <2>2. 1 \in 1 .. reps
    BY <2>1, VerdictAssumption DEF ChosenWell
  <2>3. <<c, "without", 1>> \in RunIds(c, "without")
    BY <2>1, <2>2 DEF RunIds
  <2> QED BY <2>1, <2>3, RanHasRuns
<1>3. ASSUME NEW arm \in {"with", "without"}
      PROVE  /\ ArmScore(disk.entry, c, arm) * reps = Total(c, arm)
             /\ ArmScore(disk.entry, c, arm) \in Int
  <2>1. \A r \in RunIds(c, arm) : disk.entry[r].score = Share(r)
    BY <1>2, RunsAre, ScoreIsShare
  <2>2. [r \in RunIds(c, arm) |-> disk.entry[r].score] = [r \in RunIds(c, arm) |-> Share(r)]
    BY <2>1
  <2>3. Cardinality(RunIds(c, arm)) = reps
    BY <1>2, RunsAre
  <2>4. ArmScore(disk.entry, c, arm) * reps =
          SumFunctionOnSet([r \in RunIds(c, arm) |-> disk.entry[r].score], RunIds(c, arm))
    BY <1>1, <1>2, <2>3, ArmIsExact
  <2> QED BY <1>1, <1>2, <2>2, <2>4, ArmIsExact, Zenon DEF Total
<1>4. PICK m \in Int, n \in Int :
        /\ m = ArmScore(disk.entry, c, "with") /\ n = ArmScore(disk.entry, c, "without")
        /\ m * reps = Total(c, "with") /\ n * reps = Total(c, "without")
  BY <1>3
<1>5. reps \in Nat \ {0} /\ Threshold \in Int /\ Nothing \notin Int
  BY <1>2, VerdictAssumption DEF ChosenWell
<1>6. m - n >= Threshold <=> Total(c, "with") - Total(c, "without") >= Threshold * reps
  <2>1. (m - n) * reps = m * reps - n * reps /\ m - n \in Int
    BY <1>5
  <2> QED BY <1>4, <1>5, <2>1, TimesOrdered
<1>7. Comparable(disk.entry, c) <=>
        \A r \in RunIds(c, "with") \cup RunIds(c, "without") : facts[r].flaw # "paid"
  <2>1. \A r \in RunIds(c, "with") \cup RunIds(c, "without") :
          disk.entry[r].paid = (facts[r].flaw = "paid")
    BY <1>2, RunsAre, EndIs DEF EntryIs
  <2> QED BY <1>2, <2>1 DEF Comparable
<1>8. disk.agg[c].delta = IF Comparable(disk.entry, c) THEN m - n ELSE Nothing
  BY <1>1, <1>4 DEF DocIs, CaseMeans
<1>9. CASE Comparable(disk.entry, c)
  <2>1. disk.agg[c].delta = m - n /\ m - n \in Int /\ m - n # Nothing
    BY <1>5, <1>8, <1>9
  <2>2. DeltaFails(disk, c) <=> ~(m - n >= Threshold)
    BY <1>5, <2>1 DEF DeltaFails
  <2> QED BY <1>6, <1>7, <1>9, <2>2 DEF Improved
<1>10. CASE ~Comparable(disk.entry, c)
  BY <1>7, <1>8, <1>10 DEF DeltaFails, Improved
<1> QED BY <1>9, <1>10

\* What a run of the with-arm has of marks, by its facts.
ResultsOfWith(c, r, marks) ==
  /\ DOMAIN marks = Graders[c] \cup (IF ChecksSaid THEN Checks[c] ELSE {})
  /\ DOMAIN marks = disk.defs[c]
  /\ \A s \in Graders[c] : /\ marks[s].skipped <=> s \in facts[r].skips
                           /\ ~TwoArm => (marks[s].scored <=> s \notin facts[r].skips)
  /\ \A k \in DOMAIN marks \cap Checks[c] :
       /\ marks[k].skipped <=> ~Collected(r)
       /\ Collected(r) => (marks[k].scored <=> k \notin Advisory)

LEMMA WithResults ==
  ASSUME AtEnd, NEW c \in Cases, NEW r \in RunIds(c, "with"), facts[r].flaw # "error",
         NEW marks, marks = disk.entry[r].results
  PROVE  ResultsOfWith(c, r, marks)
<1>1. r \in Runs /\ r[1] = c /\ r[2] = "with" /\ c \in Ran
  BY RunsAre DEF AtEnd
<1>2. PICK e, f, checks, trace :
        /\ e = disk.entry[r] /\ f = facts[r] /\ trace = e.trace
        /\ checks = IF ChecksSaid THEN Checks[c] ELSE {}
  OBVIOUS
<1>3. EntryIs(e, r, checks) /\ disk.defs[c] = IF ChecksSaid THEN Slots(c) ELSE Graders[c]
  BY <1>1, <1>2, EndIs
<1>4. PICK graded : graded = GraderResults(r, f)
  OBVIOUS
<1>5. /\ DOMAIN marks = DOMAIN graded \cup checks
      /\ \A s \in DOMAIN graded : marks[s] = graded[s]
      /\ \A k \in checks : marks[k] = CheckResult(trace, k)
  BY <1>2, <1>3, <1>4 DEF EntryIs, ResultsAre
<1>6. PICK out : out = Indicators(c)
  OBVIOUS
<1>7. graded = [s \in Graders[c] |->
        [passed |-> s \in f.right \ f.skips /\ ~(f.flaw = "paid" /\ s \in Judged),
         scored |-> s \notin f.skips \cup out,
         skipped |-> s \in f.skips]]
  BY <1>1, <1>2, <1>4, <1>6 DEF GraderResults
<1>8. ~TwoArm => out = {}
  BY <1>6 DEF Indicators
<1>9. DOMAIN marks = Graders[c] \cup checks /\ DOMAIN marks = disk.defs[c]
  BY <1>2, <1>3, <1>5, <1>7 DEF Slots
<1>10. \A s \in Graders[c] : /\ marks[s].skipped <=> s \in f.skips
                             /\ ~TwoArm => (marks[s].scored <=> s \notin f.skips)
  <2>1. ASSUME NEW s \in Graders[c]
        PROVE  /\ marks[s].skipped <=> s \in f.skips
               /\ marks[s].scored <=> s \notin f.skips \cup out
    <3>1. PICK passed : passed = (s \in f.right \ f.skips /\ ~(f.flaw = "paid" /\ s \in Judged))
      OBVIOUS
    <3>2. PICK scored \in BOOLEAN : scored = (s \notin f.skips \cup out)
      OBVIOUS
    <3>3. PICK skipped \in BOOLEAN : skipped = ~(s \notin f.skips)
      OBVIOUS
    <3>4. graded[s] = [passed |-> passed, scored |-> scored, skipped |-> skipped]
      BY <1>7, <3>1, <3>2, <3>3
    <3>5. marks[s] = graded[s]
      BY <1>5, <1>7
    <3>6. marks[s].scored = scored /\ marks[s].skipped = skipped
      BY <3>4, <3>5
    <3> QED BY <3>2, <3>3, <3>6, Zenon
  <2> QED BY <1>8, <2>1
<1>11. Graders[c] \cap Checks[c] = {}
  BY VerdictAssumption
<1>12. \A k \in checks : /\ marks[k].skipped <=> trace = Nothing
                         /\ trace # Nothing => (marks[k].scored <=> k \notin Advisory)
  BY <1>5, CheckResultIs
<1>13. Collected(r) <=> trace # Nothing
  BY <1>2 DEF Collected
<1> QED BY <1>2, <1>9, <1>10, <1>11, <1>12, <1>13 DEF ResultsOfWith

LEMMA EntryAtEnd ==
  ASSUME AtEnd, NEW r \in Runs
  PROVE  /\ disk.entry[r].error = (facts[r].flaw \in {"error", "late"})
         /\ disk.entry[r].denied => facts[r].flaw = "denied"
         /\ Collected(r) /\ facts[r].flaw = "denied" => disk.entry[r].denied \/ r \in unread
         /\ facts[r].skips \subseteq Graders[r[1]]
BY EndIs DEF EntryIs, Collected, AtEnd, FactsAre

\* A run that does not fail did what was asked of it.
LEMMA RunThatPasses ==
  ASSUME AtEnd, LabelsApart, NEW c \in Cases, NEW r \in RunIds(c, "with"),
         ~RunFails(disk, r)
  PROVE  \/ Succeeded(r)
         \/ /\ facts[r].flaw = "denied"
            /\ ~Collected(r) \/ r \in unread
            /\ Answered(r) = Asked(r)
<1>1. r \in Runs /\ r[1] = c
  BY RunsAre DEF AtEnd
<1>2. facts[r].flaw \notin {"error", "late"} /\ ~disk.entry[r].denied
  BY <1>1, EntryAtEnd DEF RunFails
<1>3. PICK marks : marks = disk.entry[r].results
  OBVIOUS
<1>4. \A s \in DOMAIN marks : ~ResultFails(disk, c, s, marks[s])
  BY <1>1, <1>3 DEF RunFails
<1>5. ResultsOfWith(c, r, marks)
  BY <1>2, <1>3, WithResults
<1>6. \A s \in DOMAIN marks : ~marks[s].skipped
  BY <1>4 DEF ResultFails
<1>7. facts[r].skips = {}
  BY <1>1, <1>5, <1>6, EntryAtEnd DEF ResultsOfWith
<1>8. Checks[c] # {} /\ ChecksSaid => Collected(r)
  BY <1>5, <1>6 DEF ResultsOfWith
<1>9. Scored(marks) = Asked(r) /\ Right(marks) = Answered(r)
  BY <1>1, <1>3, ScoredIsAsked
<1>10. ASSUME NEW s \in Asked(r) PROVE s \in Answered(r)
  <2>1. s \in DOMAIN marks /\ marks[s].scored
    BY <1>9 DEF Scored
  <2>2. s \notin Advisory
    BY <1>1, VerdictAssumption DEF Asked
  <2>3. ~Advised(disk, c, s)
    <3>1. disk.defs[c] \subseteq Slots(c) /\ s \in Slots(c)
      BY <1>5, <2>1 DEF Slots, ResultsOfWith
    <3> QED BY <2>2, <3>1 DEF Advised, LabelsApart
  <2>4. marks[s].passed
    BY <1>4, <2>1, <2>3 DEF ResultFails
  <2> QED BY <1>9, <2>1, <2>4 DEF Scored, Right
<1>11. Answered(r) = Asked(r)
  BY <1>10 DEF Answered
<1>12. CASE facts[r].flaw = "denied"
  BY <1>1, <1>2, <1>11, <1>12, EntryAtEnd
<1>13. CASE facts[r].flaw # "denied"
  BY <1>1, <1>2, <1>7, <1>8, <1>11, <1>13 DEF Succeeded
<1> QED BY <1>12, <1>13

\* A run that succeeded does not fail.
LEMMA RunThatSucceeded ==
  ASSUME AtEnd, NEW c \in Cases, NEW r \in RunIds(c, "with"), Succeeded(r)
  PROVE  ~RunFails(disk, r)
<1>1. r \in Runs /\ r[1] = c
  BY RunsAre DEF AtEnd
<1>2. /\ facts[r].flaw \notin {"error", "late", "denied"} /\ facts[r].skips = {}
      /\ Answered(r) = Asked(r) /\ (Checks[c] # {} /\ ChecksSaid => Collected(r))
  BY <1>1 DEF Succeeded
<1>3. ~disk.entry[r].error /\ ~disk.entry[r].denied
  BY <1>1, <1>2, EntryAtEnd
<1>4. PICK marks : marks = disk.entry[r].results
  OBVIOUS
<1>5. ResultsOfWith(c, r, marks)
  BY <1>2, <1>4, WithResults
<1>6. Scored(marks) = Right(marks)
  BY <1>1, <1>2, <1>4, ScoredIsAsked
<1>7. ASSUME NEW s \in DOMAIN marks PROVE ~ResultFails(disk, c, s, marks[s])
  <2>1. ~\A k \in disk.defs[c] : Label[k] # Label[s]
    BY <1>5 DEF ResultsOfWith
  <2>2. ~marks[s].skipped
    BY <1>2, <1>5 DEF ResultsOfWith
  <2>3. marks[s].scored => marks[s].passed
    BY <1>6 DEF Scored, Right
  <2>4. ~marks[s].scored /\ ~TwoArm => Advised(disk, c, s)
    <3>1. ASSUME ~marks[s].scored, ~TwoArm PROVE s \in Advisory
      BY <1>2, <1>5, <2>2, <3>1 DEF ResultsOfWith
    <3> QED BY <1>5, <3>1 DEF Advised, ResultsOfWith
  <2> QED BY <2>1, <2>2, <2>3, <2>4 DEF ResultFails
<1> QED BY <1>1, <1>3, <1>4, <1>7 DEF RunFails

LEMMA WordsOfEnd ==
  ASSUME VerdictInv, SlugsApart, pc = "done", NEW c \in DOMAIN words
  PROVE  AtEnd /\ c \in Cases /\ words[c] = WordOn(disk, c)
<1>1. words = [k \in IF disk = Nothing THEN {} ELSE Cases |-> WordOn(disk, k)]
  BY DEF VerdictInv, WordsAre
<1>2. disk # Nothing /\ c \in Cases /\ words[c] = WordOn(disk, c)
  BY <1>1
<1>3. ChosenWell /\ FactsAre /\ TreeIs /\ DOMAIN facts = Runs
  BY DEF VerdictInv, FactsAre
<1>4. IF ChecksSaid THEN DocIs(disk, TRUE) ELSE DocIs(disk, FALSE)
  BY <1>2 DEF VerdictInv, AtStep
<1> QED BY <1>2, <1>3, <1>4 DEF AtEnd

LEMMA PassHolds ==
  ASSUME VerdictInv, LabelsApart, SlugsApart
  PROVE  PassIsEarned
<1> SUFFICES ASSUME pc = "done", NEW c \in DOMAIN words, words[c] = "pass"
             PROVE  /\ status[c] = "ran"
                    /\ \A r \in RunIds(c, "with") :
                         \/ Succeeded(r)
                         \/ /\ facts[r].flaw = "denied"
                            /\ ~Collected(r) \/ r \in unread
                            /\ Answered(r) = Asked(r)
                    /\ TwoArm => Improved(c)
  BY DEF PassIsEarned
<1>1. AtEnd /\ c \in Cases /\ WordOn(disk, c) = "pass"
  BY WordsOfEnd
<1>2. /\ status[c] \notin {"declared", "skipped"}
      /\ \A r \in RunIds(c, "with") : ~RunFails(disk, r)
      /\ ~(TwoArm /\ DeltaFails(disk, c))
  BY <1>1 DEF WordOn
<1>3. ASSUME status[c] = "bare" PROVE FALSE
  <2>1. TwoArm
    BY <1>1, <1>3 DEF AtEnd, ChosenWell, Statuses
  <2>2. RunIds(c, "without") = {}
    BY <1>3 DEF RunIds
  <2>3. ~Comparable(disk.entry, c)
    BY <2>2 DEF Comparable
  <2>4. disk.agg[c].delta = Nothing
    BY <1>1, <2>3 DEF AtEnd, DocIs, CaseMeans
  <2> QED BY <1>2, <2>1, <2>4 DEF DeltaFails
<1>4. status[c] = "ran"
  BY <1>1, <1>2, <1>3 DEF AtEnd, ChosenWell, Statuses
<1>5. TwoArm => Improved(c)
  BY <1>1, <1>2, <1>4, DeltaIsImprovement
<1> QED BY <1>1, <1>2, <1>4, <1>5, RunThatPasses

LEMMA FailHolds ==
  ASSUME VerdictInv, SlugsApart
  PROVE  FailIsExplained
<1> SUFFICES ASSUME pc = "done", NEW c \in DOMAIN words, words[c] = "fail"
             PROVE  \/ status[c] = "skipped"
                    \/ \E r \in RunIds(c, "with") : ~Succeeded(r)
                    \/ TwoArm /\ ~Improved(c)
  BY DEF FailIsExplained
<1>1. AtEnd /\ c \in Cases /\ WordOn(disk, c) = "fail"
  BY WordsOfEnd
<1>2. /\ status[c] # "declared"
      /\ \/ status[c] = "skipped"
         \/ \E r \in RunIds(c, "with") : RunFails(disk, r)
         \/ TwoArm /\ DeltaFails(disk, c)
  BY <1>1 DEF WordOn
<1>3. CASE \E r \in RunIds(c, "with") : RunFails(disk, r)
  BY <1>1, <1>3, RunThatSucceeded
<1>4. CASE TwoArm /\ DeltaFails(disk, c) /\ status[c] # "skipped"
  <2>1. status[c] = "ran" \/ status[c] = "bare"
    BY <1>1, <1>2, <1>4 DEF AtEnd, ChosenWell, Statuses
  <2>2. CASE status[c] = "ran"
    BY <1>1, <1>4, <2>2, DeltaIsImprovement
  <2>3. CASE status[c] = "bare"
    BY <1>4, <2>3 DEF Improved
  <2> QED BY <2>1, <2>2, <2>3
<1> QED BY <1>2, <1>3, <1>4

\* ScoresMatchResults, for every suite, weights, arms, repetitions and failed writes:
\* whatever of the collection and of the checks (`checks.run`, `_rewrite`) could not be
\* written, the document the next step reads has the scores, means and deltas of its
\* own results.
THEOREM NumbersOfDisk == Spec => []ScoresMatchResults
<1>1. VerdictInv => ScoresMatchResults
  <2> SUFFICES ASSUME VerdictInv, disk # Nothing, pc \in {"collect", "check", "decide"}
               PROVE  NumbersMatch(disk)
    BY Zenon DEF ScoresMatchResults, NumbersMatch
  <2>1. PICK checked \in BOOLEAN : DocIs(disk, checked)
    BY DEF VerdictInv, AtStep
  <2> QED BY <2>1, DocNumbers DEF VerdictInv
<1> QED BY <1>1, VerdictInvariant, PTL

\* PassIsEarned: a case that `verdict.py` passes did what was asked of it, when no two
\* graders or checks of a case share a name and no two cases share a directory.
THEOREM PassesAreEarned == LabelsApart /\ SlugsApart => (Spec => []PassIsEarned)
<1> SUFFICES ASSUME LabelsApart, SlugsApart PROVE Spec => []PassIsEarned
  OBVIOUS
<1>1. VerdictInv => PassIsEarned
  BY PassHolds
<1> QED BY <1>1, VerdictInvariant, PTL

\* FailIsExplained: a case that it fails has its cause in what happened, when no two
\* cases share a directory. Names shared within a case cannot fail one without a cause.
THEOREM FailsAreExplained == SlugsApart => (Spec => []FailIsExplained)
<1> SUFFICES ASSUME SlugsApart PROVE Spec => []FailIsExplained
  OBVIOUS
<1>1. VerdictInv => FailIsExplained
  BY FailHolds
<1> QED BY <1>1, VerdictInvariant, PTL
=============================================================================
