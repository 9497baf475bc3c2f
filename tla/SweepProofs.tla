---------------------------- MODULE SweepProofs ----------------------------
(***************************************************************************)
(* For any plugins and cases: what exit 0, a record of the history and, on  *)
(* CoWork, exit 1 say of a sweep, and that a refusal leaves nothing. A      *)
(* document is written once, rewritten only until the checks of its plugin  *)
(* are over, and no other plugin has its directory; the invariant says what *)
(* is in each of them at every step.                                        *)
(***************************************************************************)
EXTENDS Sweep, DataLemmas

\* The steps up to the run directory, and those of the plugin the sweep is at.
Early == {"start", "preflight", "validate", "select", "prune", "rundir"}
AtWork == {"backend", "suite"}
Busy == AtWork \cup {"traces", "checks"}

NothingYet ==
  /\ "created" \notin touched /\ docs = <<>> /\ recorded = {} /\ at = 0 /\ broken = {}
  /\ \A c \in Cases : runs[c] = <<>>

Passed ==
  /\ ~stopped
  /\ \A d \in DOMAIN docs : docs[d] # Nothing /\ ~docs[d].partial
  /\ \A o \in Outcomes : o[3] # "fail"

\* The order of the steps.
Order ==
  /\ pc \in Early \/ dry \/ exit \in {"2", "3"} => NothingYet
  /\ pc \in Early \ {"prune", "rundir"} \/ exit \in {"2", "3"} => touched = {}
  /\ dry => pc \in (Early \cup {"ended"}) \ {"rundir"}
  /\ pc = "consent" => at = 0
  /\ pc \in Busy => at > 0
  /\ pc \in AtWork => docs[Child(at)] = Nothing
  /\ pc = "suite" => backend = "cowork"
  /\ backend # "cowork" => declared = {}

\* What is decided, and on what.
Decided ==
  /\ pc \notin {"record", "ended"} => verdict = Nothing
  /\ pc = "record" => verdict # Nothing
  /\ pc \notin {"record", "ended"} => recorded = {}
  /\ pc = "verdict" \/ verdict # Nothing => stopped \/ at = Len(Targets)
  /\ verdict # Nothing => verdict = [passed |-> Passed, outcomes |-> Outcomes]
  /\ recorded # {} =>
       /\ verdict # Nothing /\ recorded \subseteq verdict.outcomes
       /\ exit \notin {"2", "3", "traceback"}
  /\ exit = "0" /\ verdict # Nothing => verdict.passed
  /\ exit = "1" => verdict # Nothing /\ ~verdict.passed

\* What is in a document of the nth plugin, when those checks failed.
IsFaithful(doc, n, failed) ==
  LET ours == {c \in picked : PluginOf[c] = Targets[n]} IN
  /\ DOMAIN doc.words \subseteq ours
  /\ ~doc.partial => DOMAIN doc.words = ours
  /\ \A c \in DOMAIN doc.words :
       /\ (doc.words[c] = "declared") = (c \in declared)
       /\ c \in failed => doc.words[c] = "fail"
  /\ backend = "cowork" =>
       /\ ~doc.partial
       /\ \A c \in DOMAIN doc.words :
            /\ doc.words[c] = "pass" => runs[c] = [k \in 1 .. Runs |-> "pass"]
            /\ doc.words[c] = "fail" =>
                 c \in failed \/ Range(runs[c]) \ {"pass"} # {}

Faithful(n) ==
  docs[Child(n)] # Nothing => IsFaithful(docs[Child(n)], n, broken)

\* A failed check is of a plugin whose checks are over, and in its document.
FailedChecksAreSaid ==
  \A c \in broken : \E n \in 1 .. at :
    /\ PluginOf[c] = Targets[n]
    /\ docs[Child(n)] # Nothing => c \in DOMAIN docs[Child(n)].words
    /\ pc \in Busy => n < at

Contents == (\A n \in 1 .. at : Faithful(n)) /\ FailedChecksAreSaid

SweepInv == TypeOK /\ Order /\ Decided /\ Contents

\* Where every plugin that was started has its document.
Owed ==
  \/ pc \in {"spend", "verdict", "record"} \/ exit = "1"
  \/ pc \in {"traces", "checks"} /\ raised = Nothing

\* On CoWork only an edited case is not planned, and only then is there no document.
EditsShow ==
  backend = "cowork" /\ edits = 0 =>
    /\ ~dry /\ pc \notin {"start", "preflight", "ended"} => ~Unplannable
    /\ Owed => \A n \in 1 .. at : docs[Child(n)] # Nothing
-----------------------------------------------------------------------------
(* Directories: each plugin has its own.                                   *)

Alike(m, n) == NameOf[Targets[m]] = NameOf[Targets[n]]

LEMMA OwnDirectory ==
  ASSUME NEW m \in Nat, NEW n \in Nat, m < n
  PROVE  Child(m) # Child(n)
<1> DEFINE S == {k \in 1 .. m : Alike(k, m)}
           T == {k \in 1 .. n : Alike(k, n)}
<1>1. SUFFICES ASSUME NameOf[Targets[m]] = NameOf[Targets[n]],
                      Cardinality(S) = Cardinality(T)
               PROVE  FALSE
  BY Zenon DEF Child, Alike
<1>2. IsFiniteSet(T)
  <2>1. IsFiniteSet(1 .. n)
    BY FS_Interval
  <2>2. T \in SUBSET (1 .. n)
    OBVIOUS
  <2> QED BY <2>1, <2>2, FS_Subset
<1>3. S \subseteq T /\ n \in T /\ n \notin S
  BY <1>1 DEF Alike
<1>4. S = T
  BY <1>1, <1>2, <1>3, FS_Subset
<1> QED
  BY <1>3, <1>4

LEMMA DirectoriesDiffer ==
  ASSUME NEW m \in Nat, NEW n \in Nat, Child(m) = Child(n)
  PROVE  m = n
<1>1. m < n \/ n < m \/ m = n
  OBVIOUS
<1> QED
  BY <1>1, OwnDirectory

\* The plugins and their directories are those of the backend.
LEMMA NamesStay ==
  ASSUME backend' = backend
  PROVE  /\ Targets' = Targets /\ PluginOf' = PluginOf
         /\ \A n \in Nat : Child(n)' = Child(n)
BY DEF Targets, PluginOf, Child

\* On CoWork there is one plugin, and every case is its.
LEMMA OnCoWork ==
  ASSUME backend \in Backends
  PROVE  /\ Targets \in Seq(DOMAIN NameOf) /\ Len(Targets) \in Nat
         /\ \A n \in 1 .. Len(Targets) : Targets[n] \in Range(Targets)
         /\ \A m, n \in 1 .. Len(Targets) : Targets[m] = Targets[n] => m = n
         /\ PluginOf \in [Cases -> Range(Targets)]
         /\ backend = "cowork" =>
              Len(Targets) = 1 /\ \A c \in Cases : PluginOf[c] = Targets[1]
         /\ CheckFaults \subseteq {"unwritten", "raises", "exits"}
BY SweepAssumption DEF Targets, PluginOf, CheckFaults, Range, IsInjective
-----------------------------------------------------------------------------
(* How a step changes the documents.                                       *)

LEMMA KeepOne ==
  ASSUME TypeOK, at > 0, NEW doc
  PROVE  /\ DOMAIN Keep(Child(at), doc) = DOMAIN docs
         /\ Keep(Child(at), doc)[Child(at)] = doc
         /\ \A n \in 1 .. at : n # at =>
              Keep(Child(at), doc)[Child(n)] = docs[Child(n)]
<1>1. at \in Nat /\ at \in 1 .. at
  BY OnCoWork DEF TypeOK
<1>2. DOMAIN docs = {Child(n) : n \in 1 .. at}
  BY DEF TypeOK
<1>3. \A n \in 1 .. at : Child(n) \in DOMAIN docs
  BY <1>2
<1>4. \A n \in 1 .. at : n # at => Child(n) # Child(at)
  BY <1>1, DirectoriesDiffer
<1> HIDE DEF Child
<1> QED
  BY <1>1, <1>3, <1>4 DEF Keep

\* Nothing in any document changes.
LEMMA QuietStep ==
  ASSUME SweepInv, UNCHANGED <<inputs, at, docs, runs, broken>>,
         pc' \in Busy => pc \in Busy
  PROVE  Contents'
<1>1. Targets' = Targets /\ PluginOf' = PluginOf
      /\ \A n \in Nat : Child(n)' = Child(n)
  BY NamesStay DEF inputs
<1>2. at \in Nat
  BY OnCoWork DEF SweepInv, TypeOK
<1>3. ASSUME NEW n \in 1 .. at PROVE Faithful(n)'
  <2>1. Faithful(n) /\ docs'[Child(n)'] = docs[Child(n)]
    BY <1>1, <1>2 DEF SweepInv, Contents
  <2>2. ASSUME NEW doc, IsFaithful(doc, n, broken) PROVE IsFaithful(doc, n, broken)'
    BY <1>1, <2>2 DEF IsFaithful, inputs
  <2> QED BY <2>1, <2>2 DEF Faithful
<1>4. FailedChecksAreSaid'
  <2>1. ASSUME NEW c \in broken
        PROVE  \E n \in 1 .. at :
                 /\ PluginOf'[c] = Targets'[n]
                 /\ docs'[Child(n)'] # Nothing => c \in DOMAIN docs'[Child(n)'].words
                 /\ pc' \in Busy => n < at
    <3>1. PICK n \in 1 .. at :
            /\ PluginOf[c] = Targets[n]
            /\ docs[Child(n)] # Nothing => c \in DOMAIN docs[Child(n)].words
            /\ pc \in Busy => n < at
      BY DEF SweepInv, Contents, FailedChecksAreSaid
    <3> QED BY <1>1, <1>2, <3>1
  <2> QED BY <2>1 DEF FailedChecksAreSaid
<1> QED
  BY <1>3, <1>4 DEF Contents

\* The document of the plugin at work is replaced, and the checks that failed by the
\* end of its work are in it.
LEMMA RewriteStep ==
  ASSUME SweepInv, UNCHANGED <<inputs, at, runs>>, pc \in Busy,
         NEW doc \in Documents \cup {Nothing}, docs' = Keep(Child(at), doc),
         doc # Nothing => IsFaithful(doc, at, broken'),
         broken \subseteq broken',
         \A c \in broken' \ broken :
           /\ pc' \notin Busy /\ PluginOf[c] = Targets[at]
           /\ doc # Nothing => c \in DOMAIN doc.words
  PROVE  /\ Contents'
         /\ DOMAIN docs' = {Child(n)' : n \in 1 .. at'}
         /\ docs' \in [DOMAIN docs' -> Documents \cup {Nothing}]
<1>1. Targets' = Targets /\ PluginOf' = PluginOf
      /\ \A n \in Nat : Child(n)' = Child(n)
  BY NamesStay DEF inputs
<1>2. TypeOK /\ at \in Nat /\ at > 0 /\ 1 .. at' = 1 .. at /\ at <= Len(Targets)
  BY OnCoWork DEF SweepInv, TypeOK, Order
<1>3. /\ DOMAIN docs' = DOMAIN docs /\ docs'[Child(at)] = doc
      /\ \A n \in 1 .. at : n # at => docs'[Child(n)] = docs[Child(n)]
  BY <1>2, KeepOne
<1>4. DOMAIN docs' = {Child(n)' : n \in 1 .. at'}
  <2>1. DOMAIN docs = {Child(n) : n \in 1 .. at}
    BY <1>2 DEF TypeOK
  <2> QED BY <1>1, <1>2, <1>3, <2>1
<1>5. docs' \in [DOMAIN docs' -> Documents \cup {Nothing}]
  BY <1>2, <1>3 DEF TypeOK, Keep
<1>6. ASSUME NEW n \in 1 .. at PROVE Faithful(n)'
  <2>1. Child(n)' = Child(n) /\ n \in Nat
    BY <1>1, <1>2
  <2>2. ASSUME NEW d, NEW m, IsFaithful(d, m, broken') PROVE IsFaithful(d, m, broken)'
    BY <1>1, <2>2 DEF IsFaithful, inputs
  <2>3. CASE n = at
    BY <1>3, <2>1, <2>2, <2>3 DEF Faithful
  <2>4. CASE n # at
    <3>1. SUFFICES ASSUME docs[Child(n)] # Nothing
                   PROVE  IsFaithful(docs[Child(n)], n, broken')
      BY <1>3, <2>1, <2>2, <2>4 DEF Faithful
    <3>2. IsFaithful(docs[Child(n)], n, broken)
      BY <3>1 DEF SweepInv, Contents, Faithful
    <3>3. \A c \in broken' \ broken : PluginOf[c] # Targets[n]
      <4>1. n \in 1 .. Len(Targets) /\ at \in 1 .. Len(Targets) /\ backend \in Backends
        BY <1>2 DEF TypeOK
      <4> QED BY <1>2, <2>4, <4>1, OnCoWork
    <3> QED BY <3>2, <3>3 DEF IsFaithful
  <2> QED BY <2>3, <2>4
<1>7. FailedChecksAreSaid'
  <2>1. ASSUME NEW c \in broken'
        PROVE  \E n \in 1 .. at :
                 /\ PluginOf'[c] = Targets'[n]
                 /\ docs'[Child(n)'] # Nothing => c \in DOMAIN docs'[Child(n)'].words
                 /\ pc' \in Busy => n < at
    <3>1. CASE c \in broken
      <4>1. PICK n \in 1 .. at :
              /\ PluginOf[c] = Targets[n] /\ n < at
              /\ docs[Child(n)] # Nothing => c \in DOMAIN docs[Child(n)].words
        BY <3>1 DEF SweepInv, Contents, FailedChecksAreSaid
      <4>2. docs'[Child(n)'] = docs[Child(n)]
        BY <1>1, <1>2, <1>3, <4>1
      <4> QED BY <1>1, <4>1, <4>2
    <3>2. CASE c \notin broken
      BY <1>1, <1>2, <1>3, <3>2
    <3> QED BY <3>1, <3>2
  <2> QED BY <1>2, <2>1 DEF FailedChecksAreSaid
<1> QED
  BY <1>2, <1>4, <1>5, <1>6, <1>7 DEF Contents

\* The next plugin begins with no document.
LEMMA NextPlugin ==
  ASSUME SweepInv, UNCHANGED <<inputs, runs, broken>>, pc \notin Busy,
         at < Len(Targets), at' = at + 1, docs' = Keep(Child(at + 1), Nothing)
  PROVE  /\ Contents'
         /\ DOMAIN docs' = {Child(n)' : n \in 1 .. at'}
         /\ docs' \in [DOMAIN docs' -> Documents \cup {Nothing}]
         /\ (docs[Child(at)] = Nothing)'
<1>1. Targets' = Targets /\ PluginOf' = PluginOf
      /\ \A n \in Nat : Child(n)' = Child(n)
  BY NamesStay DEF inputs
<1>2. TypeOK /\ at \in Nat /\ at + 1 \in Nat /\ 1 .. at' = (1 .. at) \cup {at + 1}
  BY OnCoWork DEF SweepInv, TypeOK
<1>3. \A n \in 1 .. at : n \in Nat /\ Child(n) # Child(at + 1)
  BY <1>2, DirectoriesDiffer
<1>4. DOMAIN docs = {Child(n) : n \in 1 .. at}
  BY <1>2 DEF TypeOK
<1>5. /\ DOMAIN docs' = DOMAIN docs \cup {Child(at + 1)}
      /\ docs'[Child(at + 1)] = Nothing
      /\ \A n \in 1 .. at : docs'[Child(n)] = docs[Child(n)]
  BY <1>2, <1>3, <1>4, Zenon DEF Keep
<1>6. DOMAIN docs' = {Child(n)' : n \in 1 .. at'}
  <2>1. {Child(n)' : n \in 1 .. at'} = {Child(n) : n \in 1 .. at'}
    BY <1>1, <1>2
  <2>2. {Child(n) : n \in 1 .. at'} = {Child(n) : n \in 1 .. at} \cup {Child(at + 1)}
    BY <1>2
  <2> QED BY <1>4, <1>5, <2>1, <2>2
<1>7. docs' \in [DOMAIN docs' -> Documents \cup {Nothing}]
  BY <1>2, <1>5 DEF TypeOK, Keep
<1>8. ASSUME NEW n \in 1 .. at' PROVE Faithful(n)'
  <2>1. CASE n = at + 1
    BY <1>1, <1>2, <1>5, <2>1 DEF Faithful
  <2>2. CASE n \in 1 .. at
    <3>1. Faithful(n) /\ docs'[Child(n)'] = docs[Child(n)]
      BY <1>1, <1>3, <1>5, <2>2 DEF SweepInv, Contents
    <3>2. ASSUME NEW doc, IsFaithful(doc, n, broken) PROVE IsFaithful(doc, n, broken)'
      BY <1>1, <3>2 DEF IsFaithful, inputs
    <3> QED BY <3>1, <3>2 DEF Faithful
  <2> QED BY <1>2, <2>1, <2>2
<1>9. FailedChecksAreSaid'
  <2>1. ASSUME NEW c \in broken
        PROVE  \E n \in 1 .. at' :
                 /\ PluginOf'[c] = Targets'[n]
                 /\ docs'[Child(n)'] # Nothing => c \in DOMAIN docs'[Child(n)'].words
                 /\ pc' \in Busy => n < at'
    <3>1. PICK n \in 1 .. at :
            /\ PluginOf[c] = Targets[n]
            /\ docs[Child(n)] # Nothing => c \in DOMAIN docs[Child(n)].words
      BY DEF SweepInv, Contents, FailedChecksAreSaid
    <3>2. docs'[Child(n)'] = docs[Child(n)] /\ n \in 1 .. at' /\ n < at'
      BY <1>1, <1>2, <1>3, <1>5, <3>1
    <3> QED BY <1>1, <3>1, <3>2
  <2> QED BY <2>1 DEF FailedChecksAreSaid
<1>10. (docs[Child(at)] = Nothing)'
  <2>1. Child(at)' = Child(at + 1)
    BY DEF Child, Targets, inputs
  <2> QED BY <1>5, <2>1
<1> QED
  BY <1>2, <1>6, <1>7, <1>8, <1>9, <1>10 DEF Contents

-----------------------------------------------------------------------------
(* The steps in which no document changes.                                 *)

LEMMA QuietTypes ==
  ASSUME TypeOK, UNCHANGED <<inputs, at, docs>>
  PROVE  /\ at' \in 0 .. Len(Targets')
         /\ DOMAIN docs' = {Child(n)' : n \in 1 .. at'}
         /\ docs' \in [DOMAIN docs' -> Documents \cup {Nothing}]
<1>1. Targets' = Targets /\ \A n \in Nat : Child(n)' = Child(n)
  BY NamesStay DEF inputs
<1>2. at \in Nat
  BY OnCoWork DEF TypeOK
<1>3. {Child(n)' : n \in 1 .. at'} = {Child(n) : n \in 1 .. at}
  BY <1>1, <1>2
<1> QED
  BY <1>1, <1>3 DEF TypeOK

\* The decision stands as long as nothing changes that it was made on.
LEMMA DecisionStands ==
  ASSUME UNCHANGED <<docs, stopped>>
  PROVE  Passed' = Passed /\ Outcomes' = Outcomes
BY DEF Passed, Outcomes

\* A step before the verdict that does not end.
LEMMA GoesOn ==
  ASSUME SweepInv, pc \notin {"record", "ended"}, pc' \notin {"verdict", "record", "ended"},
         UNCHANGED <<verdict, recorded>>, exit' = Nothing
  PROVE  Decided'
BY SweepAssumption DEF SweepInv, Decided, Codes

\* A step before the verdict that ends in an exit nobody decided.
LEMMA EndsUndecided ==
  ASSUME SweepInv, pc \notin {"record", "ended"}, pc' = "ended", exit' # "1",
         UNCHANGED <<verdict, recorded>>
  PROVE  Decided'
BY DEF SweepInv, Decided

LEMMA EarlySteps ==
  ASSUME SweepInv, Start \/ Preflight \/ Validate \/ Select \/ Prune
  PROVE  SweepInv'
<1>1. /\ TypeOK /\ pc \in Early /\ pc \notin Busy /\ exit = Nothing /\ NothingYet
      /\ UNCHANGED <<inputs, world, suite, touched, verdict, recorded>>
  BY DEF SweepInv, TypeOK, Order, Start, Preflight, Validate, Select, Prune, Go, End,
     Early, Busy, AtWork, ending
<1>2. \/ pc' \in Early /\ exit' = Nothing /\ (dry => pc' # "rundir")
      \/ pc' = "ended" /\ exit' \in {"0", "2", "3", "traceback"}
  BY <1>1 DEF Start, Preflight, Validate, Select, Prune, Go, End, Early, ending
<1>3. TypeOK'
  BY <1>1, <1>2, QuietTypes, SweepAssumption, ZenonT(40)
     DEF TypeOK, inputs, world, suite, checked, Early, Steps, Codes
<1>4. Order'
  <2>1. exit' \in {"2", "3"} \/ pc' \in Early \ {"prune", "rundir"} => pc # "prune"
    BY <1>1, SweepAssumption
       DEF Start, Preflight, Validate, Select, Prune, Go, End, Early, ending, Codes
  <2>2. exit' \in {"2", "3"} \/ pc' \in Early \ {"prune", "rundir"} => touched' = {}
    BY <1>1, <2>1 DEF SweepInv, Order, Start, Preflight, Validate, Select, Prune, Early
  <2> QED
    BY <1>1, <1>2, <2>2
       DEF SweepInv, Order, NothingYet, inputs, suite, checked, Early, Busy, AtWork
<1>5. Decided'
  BY <1>1, <1>2, GoesOn, EndsUndecided DEF Early
<1>6. Contents'
  BY <1>1, <1>2, QuietStep DEF suite, checked, Early, Busy, AtWork
<1> QED
  BY <1>3, <1>4, <1>5, <1>6 DEF SweepInv

LEMMA DeleteOldStep == ASSUME SweepInv, DeleteOld PROVE SweepInv'
<1>1. /\ TypeOK /\ pc = "prune" /\ exit = Nothing /\ NothingYet
      /\ touched' = touched \cup {"deleted"}
      /\ UNCHANGED <<pc, inputs, world, suite, ending>>
  BY DEF SweepInv, TypeOK, Order, DeleteOld, Early
<1>2. TypeOK'
  BY <1>1, QuietTypes DEF TypeOK, inputs, world, suite, checked, ending
<1>3. Order'
  BY <1>1, SweepAssumption
     DEF SweepInv, Order, NothingYet, inputs, suite, checked, ending, Early, Busy, AtWork,
         Codes
<1>4. Decided'
  BY <1>1, GoesOn DEF ending
<1>5. Contents'
  BY <1>1, QuietStep DEF suite, checked
<1> QED
  BY <1>2, <1>3, <1>4, <1>5 DEF SweepInv

LEMMA MakeRunDirStep == ASSUME SweepInv, MakeRunDir PROVE SweepInv'
<1>1. /\ TypeOK /\ pc = "rundir" /\ exit = Nothing /\ NothingYet /\ ~dry
      /\ pc' \in {"consent", "spend"} /\ UNCHANGED <<inputs, world, suite, ending>>
  BY DEF SweepInv, TypeOK, Order, MakeRunDir, Early
<1>2. TypeOK'
  BY <1>1, QuietTypes, SweepAssumption
     DEF TypeOK, MakeRunDir, inputs, world, suite, checked, ending, Steps, Codes
<1>3. Order'
  BY <1>1, SweepAssumption
     DEF SweepInv, Order, NothingYet, inputs, suite, ending, Early, Busy, AtWork, Codes
<1>4. Decided'
  BY <1>1, GoesOn DEF ending
<1>5. Contents'
  BY <1>1, QuietStep DEF suite, checked, Busy, AtWork
<1> QED
  BY <1>2, <1>3, <1>4, <1>5 DEF SweepInv

\* The sweep is over, with a warning or with every plugin done.
LEMMA GoToVerdict ==
  ASSUME SweepInv, pc \in {"consent", "spend"}, pc' = "verdict",
         UNCHANGED <<inputs, world, touched, at, docs, runs, raised, checked, ending>>,
         stopped' = TRUE \/ (stopped' = stopped /\ at = Len(Targets))
  PROVE  SweepInv'
<1>1. TypeOK /\ ~dry /\ exit = Nothing /\ verdict = Nothing /\ recorded = {}
      /\ Targets' = Targets
  BY NamesStay DEF SweepInv, TypeOK, Order, Decided, Early, inputs
<1>2. TypeOK'
  BY <1>1, QuietTypes, SweepAssumption
     DEF TypeOK, inputs, world, checked, ending, Steps, Codes
<1>3. Order'
  BY <1>1, SweepAssumption DEF SweepInv, Order, inputs, ending, Early, Busy, AtWork, Codes
<1>4. Decided'
  BY <1>1, SweepAssumption DEF SweepInv, Decided, ending, Codes
<1>5. Contents'
  BY <1>1, QuietStep DEF checked, Busy, AtWork
<1> QED
  BY <1>2, <1>3, <1>4, <1>5 DEF SweepInv

LEMMA ConsentStep == ASSUME SweepInv, Consent PROVE SweepInv'
<1>1. CASE Stop
  BY <1>1, GoToVerdict DEF Consent, Stop
<1>2. CASE Go("spend")
  <2>1. /\ TypeOK /\ pc = "consent" /\ pc' = "spend" /\ exit = Nothing /\ ~dry
        /\ UNCHANGED <<inputs, world, suite, touched, ending>>
    BY <1>2 DEF SweepInv, TypeOK, Order, Consent, Go, Early
  <2>2. TypeOK'
    BY <2>1, QuietTypes, SweepAssumption
       DEF TypeOK, inputs, world, suite, checked, ending, Steps, Codes
  <2>3. Order'
    BY <2>1, SweepAssumption
       DEF SweepInv, Order, inputs, suite, ending, Early, Busy, AtWork, Codes
  <2>4. Decided'
    BY <2>1, GoesOn DEF ending
  <2>5. Contents'
    BY <2>1, QuietStep DEF suite, checked, Busy, AtWork
  <2> QED
    BY <2>2, <2>3, <2>4, <2>5 DEF SweepInv
<1> QED
  BY <1>1, <1>2 DEF Consent

LEMMA SpendCheckStep == ASSUME SweepInv, SpendCheck PROVE SweepInv'
<1>1. CASE at = Len(Targets)
  BY <1>1, GoToVerdict DEF SpendCheck, Go, suite
<1>2. CASE Stop
  BY <1>2, GoToVerdict DEF SpendCheck, Stop
<1>3. CASE /\ at # Len(Targets) /\ pc' = "backend" /\ at' = at + 1
           /\ docs' = Keep(Child(at + 1), Nothing)
           /\ UNCHANGED <<inputs, world, touched, runs, raised, stopped, checked, ending>>
  <2>1. TypeOK /\ pc = "spend" /\ exit = Nothing /\ ~dry
        /\ at \in Nat /\ at < Len(Targets) /\ Len(Targets) \in Nat /\ Targets' = Targets
    BY <1>3, OnCoWork, NamesStay DEF SweepInv, TypeOK, Order, SpendCheck, Early, inputs
  <2>2. /\ Contents'
        /\ DOMAIN docs' = {Child(n)' : n \in 1 .. at'}
        /\ docs' \in [DOMAIN docs' -> Documents \cup {Nothing}]
        /\ (docs[Child(at)] = Nothing)'
    BY <1>3, <2>1, NextPlugin DEF checked, Busy, AtWork
  <2>3. TypeOK'
    BY <1>3, <2>1, <2>2, SweepAssumption, SMTT(30)
       DEF TypeOK, inputs, world, checked, ending, Steps, Codes
  <2>4. Order'
    BY <1>3, <2>1, <2>2, SweepAssumption
       DEF SweepInv, Order, inputs, ending, Early, Busy, AtWork, Codes
  <2>5. Decided'
    BY <1>3, <2>1, GoesOn DEF ending
  <2> QED
    BY <2>2, <2>3, <2>4, <2>5 DEF SweepInv
<1> QED
  BY <1>1, <1>2, <1>3 DEF SpendCheck

\* From the backend to its end, with what it raised.
LEMMA LeaveBackend ==
  ASSUME SweepInv, pc \in AtWork, pc' \in {"suite", "traces"},
         pc' = "suite" => backend = "cowork", raised' \in Raisable \cup {Nothing},
         logged' \in Nat,
         UNCHANGED <<inputs, tree, others, edits, touched, at, docs, runs, stopped, checked,
                     ending>>
  PROVE  SweepInv'
<1>1. TypeOK /\ exit = Nothing /\ ~dry /\ at \in Nat /\ Targets' = Targets
  BY OnCoWork, NamesStay DEF SweepInv, TypeOK, Order, AtWork, Early, inputs
<1>2. TypeOK'
  BY <1>1, QuietTypes, SweepAssumption
     DEF TypeOK, inputs, checked, ending, Steps, AtWork, Codes
<1>3. (docs[Child(at)])' = docs[Child(at)]
  BY DEF Child, Targets, inputs
<1>4. Order'
  BY <1>1, <1>3, SweepAssumption
     DEF SweepInv, Order, inputs, ending, Early, Busy, AtWork, Codes
<1>5. Decided'
  BY <1>1, GoesOn DEF ending, AtWork
<1>6. Contents'
  BY <1>1, QuietStep DEF checked, Busy, AtWork
<1> QED
  BY <1>2, <1>4, <1>5, <1>6 DEF SweepInv

LEMMA BackendSteps ==
  ASSUME SweepInv, Plan \/ BackendEscapes \/ \E c \in Cases : RefuseTimeout(c)
  PROVE  SweepInv'
<1>1. logged \in Nat
  BY DEF SweepInv, TypeOK
<1> QED
  BY <1>1, LeaveBackend DEF Plan, BackendEscapes, RefuseTimeout, AtWork, Raisable, world

\* What ends at once: an interrupt, and what the checks raise.
LEMMA EndSteps == ASSUME SweepInv, Interrupt \/ ChecksEscape PROVE SweepInv'
<1>1. /\ TypeOK /\ pc # "ended" /\ pc' = "ended" /\ exit' \in {"130", "0", "traceback"}
      /\ exit' = "130" \/ pc = "checks"
      /\ UNCHANGED <<inputs, world, suite, touched, verdict, recorded>>
  BY DEF SweepInv, Interrupt, ChecksEscape, End
<1>2. TypeOK'
  BY <1>1, QuietTypes, SweepAssumption
     DEF TypeOK, inputs, world, suite, checked, Steps, Codes
<1>3. Order'
  BY <1>1 DEF SweepInv, Order, NothingYet, inputs, suite, checked, Early, Busy, AtWork
<1>4. Decided'
  BY <1>1, DecisionStands, NamesStay DEF SweepInv, Decided, inputs, suite
<1>5. Contents'
  BY <1>1, QuietStep DEF suite, checked, Busy, AtWork
<1> QED
  BY <1>2, <1>3, <1>4, <1>5 DEF SweepInv

LEMMA OutsideSteps == ASSUME SweepInv, OtherSubmits \/ Edit PROVE SweepInv'
<1>1. /\ TypeOK /\ UNCHANGED <<pc, inputs, suite, touched, ending>>
  BY DEF SweepInv, OtherSubmits, Edit
<1>2. TypeOK'
  <2>1. /\ tree' \in [Cases -> TreeFaults \cup {"ok", "unreadable"}]
        /\ logged' \in Nat /\ others' \in 0 .. MaxOthers /\ edits' \in 0 .. MaxEdits
    <3>1. CASE OtherSubmits
      BY <1>1, <3>1, SweepAssumption DEF TypeOK, OtherSubmits
    <3>2. CASE Edit
      <4>1. tree' \in [Cases -> TreeFaults \cup {"ok", "unreadable"}]
        BY <1>1, <3>2 DEF TypeOK, Edit
      <4>2. UNCHANGED <<logged, others>> /\ edits' \in 0 .. MaxEdits
        BY <1>1, <3>2, SweepAssumption DEF TypeOK, Edit
      <4> QED BY <1>1, <4>1, <4>2 DEF TypeOK
    <3> QED BY <3>1, <3>2
  <2> QED
    BY <1>1, <2>1, QuietTypes DEF TypeOK, inputs, suite, checked, ending
<1>3. (docs[Child(at)])' = docs[Child(at)]
  BY <1>1 DEF Child, Targets, inputs, suite
<1>4. Order'
  BY <1>1, <1>3 DEF SweepInv, Order, NothingYet, inputs, suite, checked, ending
<1>5. Decided'
  BY <1>1, DecisionStands, NamesStay DEF SweepInv, Decided, inputs, suite, ending
<1>6. Contents'
  BY <1>1, QuietStep DEF suite, checked
<1> QED
  BY <1>2, <1>4, <1>5, <1>6 DEF SweepInv

-----------------------------------------------------------------------------
(* The verdict and the history.                                            *)

LEMMA ChildType ==
  ASSUME backend \in Backends, NEW n \in 1 .. Len(Targets)
  PROVE  Child(n) \in Directories
<1>1. NameOf[Targets[n]] \in Range(NameOf)
  BY OnCoWork DEF Range
<1>2. IsFiniteSet({k \in 1 .. n : NameOf[Targets[k]] = NameOf[Targets[n]]})
  <2>1. IsFiniteSet(1 .. n)
    BY OnCoWork, FS_Interval
  <2>2. {k \in 1 .. n : NameOf[Targets[k]] = NameOf[Targets[n]]} \in SUBSET (1 .. n)
    OBVIOUS
  <2> QED BY <2>1, <2>2, FS_Subset
<1> QED
  BY <1>1, <1>2, FS_CardinalityType DEF Child, Directories

LEMMA TripleMonotone ==
  ASSUME NEW S, NEW T, NEW A, NEW B, S \subseteq T
  PROVE  S \X A \X B \subseteq T \X A \X B
OBVIOUS

LEMMA DecideStep == ASSUME SweepInv, Decide PROVE SweepInv'
<1>1. /\ TypeOK /\ pc = "verdict" /\ pc' = "record" /\ exit = Nothing /\ ~dry
      /\ UNCHANGED <<inputs, world, suite, touched, recorded, exit>>
      /\ verdict' = [passed |-> Passed, outcomes |-> Outcomes]
  BY DEF SweepInv, TypeOK, Order, Decide, Early, Passed
<1>2. verdict' \in Verdicts
  <2>1. \A d \in DOMAIN docs : d \in Directories
    BY <1>1, ChildType, OnCoWork DEF TypeOK
  <2>2. Outcomes \subseteq Directories \X Cases \X Reached
    <3>1. Outcomes \subseteq (DOMAIN docs) \X Cases \X Reached
      BY DEF Outcomes
    <3>2. DOMAIN docs \subseteq Directories
      BY <2>1, Zenon
    <3>3. (DOMAIN docs) \X Cases \X Reached \subseteq Directories \X Cases \X Reached
      BY <3>2, TripleMonotone, Zenon
    <3> QED BY <3>1, <3>3, Zenon
  <2>3. Passed \in BOOLEAN
    BY DEF Passed
  <2> QED BY <1>1, <2>2, <2>3 DEF Verdicts
<1>3. verdict' # Nothing
  BY <1>2, SweepAssumption
<1>4. TypeOK'
  BY <1>1, <1>2, QuietTypes DEF TypeOK, inputs, world, suite, checked, Steps
<1>5. Order'
  BY <1>1, SweepAssumption
     DEF SweepInv, Order, inputs, suite, Early, Busy, AtWork, Codes
<1>6. Decided'
  BY <1>1, <1>3, DecisionStands, NamesStay, SweepAssumption
     DEF SweepInv, Decided, inputs, suite, Codes
<1>7. Contents'
  BY <1>1, QuietStep DEF suite, checked, Busy, AtWork
<1> QED
  BY <1>4, <1>5, <1>6, <1>7 DEF SweepInv

LEMMA RecordCaseStep == ASSUME SweepInv, RecordCase PROVE SweepInv'
<1>1. /\ TypeOK /\ pc = "record" /\ exit = Nothing /\ ~dry /\ verdict # Nothing
      /\ UNCHANGED <<pc, inputs, world, suite, touched, verdict, exit>>
      /\ recorded' \subseteq verdict.outcomes
  <2>1. PICK o \in verdict.outcomes \ recorded : recorded' = recorded \cup {o}
    BY DEF RecordCase
  <2> QED BY <2>1 DEF SweepInv, TypeOK, Order, Decided, RecordCase, Early
<1>2. TypeOK'
  BY <1>1, QuietTypes DEF TypeOK, inputs, world, suite, checked
<1>3. Order'
  BY <1>1, SweepAssumption DEF SweepInv, Order, inputs, suite, Early, Busy, AtWork, Codes
<1>4. Decided'
  BY <1>1, DecisionStands, NamesStay, SweepAssumption
     DEF SweepInv, Decided, inputs, suite, Codes
<1>5. Contents'
  BY <1>1, QuietStep DEF suite, checked
<1> QED
  BY <1>2, <1>3, <1>4, <1>5 DEF SweepInv

LEMMA RecordStep == ASSUME SweepInv, Record PROVE SweepInv'
<1>1. /\ TypeOK /\ pc = "record" /\ pc' = "ended" /\ ~dry
      /\ UNCHANGED <<inputs, world, suite, touched, verdict, recorded>>
      /\ exit' \in {"0", "1"} /\ (exit' = "0" <=> verdict.passed)
  BY DEF SweepInv, TypeOK, Order, Record, Early
<1>2. TypeOK'
  BY <1>1, QuietTypes, SweepAssumption
     DEF TypeOK, inputs, world, suite, checked, Steps, Codes
<1>3. Order'
  BY <1>1 DEF SweepInv, Order, inputs, suite, Early, Busy, AtWork
<1>4. Decided'
  BY <1>1, DecisionStands, NamesStay DEF SweepInv, Decided, inputs, suite
<1>5. Contents'
  BY <1>1, QuietStep DEF suite, checked, Busy, AtWork
<1> QED
  BY <1>2, <1>3, <1>4, <1>5 DEF SweepInv

-----------------------------------------------------------------------------
(* The steps that write the document of the plugin at work.                *)

\* No check of the plugin at work has failed yet.
LEMMA NotYetBroken ==
  ASSUME SweepInv, pc \in Busy
  PROVE  \A c \in broken : PluginOf[c] # Targets[at]
<1>1. TypeOK /\ at \in 1 .. Len(Targets) /\ at \in Nat
  BY OnCoWork DEF SweepInv, TypeOK, Order
<1>2. SUFFICES ASSUME NEW c \in broken PROVE PluginOf[c] # Targets[at]
  OBVIOUS
<1>3. PICK n \in 1 .. at : PluginOf[c] = Targets[n] /\ n < at
  BY DEF SweepInv, Contents, FailedChecksAreSaid
<1>4. n \in 1 .. Len(Targets) /\ n # at
  BY <1>1, <1>3, OnCoWork DEF TypeOK
<1> QED
  BY <1>1, <1>3, <1>4, OnCoWork DEF TypeOK

\* The document at work, and that leaving it is a way to write it.
LEMMA SameDocument ==
  ASSUME SweepInv, pc \in Busy
  PROVE  /\ docs[Child(at)] \in Documents \cup {Nothing}
         /\ docs = Keep(Child(at), docs[Child(at)])
         /\ docs[Child(at)] # Nothing => IsFaithful(docs[Child(at)], at, broken)
<1>1. TypeOK /\ at \in Nat /\ at > 0 /\ at \in 1 .. at
  BY OnCoWork DEF SweepInv, TypeOK, Order
<1>2. DOMAIN docs = {Child(n) : n \in 1 .. at}
  BY <1>1 DEF TypeOK
<1>3. Child(at) \in DOMAIN docs
  BY <1>1, <1>2
<1>4. docs[Child(at)] \in Documents \cup {Nothing}
  BY <1>1, <1>3 DEF TypeOK
<1>5. docs = Keep(Child(at), docs[Child(at)])
  BY <1>1, <1>3 DEF TypeOK, Keep
<1>6. Faithful(at)
  BY <1>1 DEF SweepInv, Contents
<1> QED
  BY <1>4, <1>5, <1>6 DEF Faithful

LEMMA Written ==
  ASSUME SweepInv, pc \in Busy,
         UNCHANGED <<inputs, world, touched, at, runs, raised, stopped, verdict, recorded>>,
         NEW doc \in Documents \cup {Nothing}, docs' = Keep(Child(at), doc),
         doc # Nothing => IsFaithful(doc, at, broken'),
         broken \subseteq broken', broken' \subseteq Checked, unsaid' \subseteq Checked,
         \A c \in broken' \ broken :
           /\ pc' \notin Busy /\ PluginOf[c] = Targets[at]
           /\ doc # Nothing => c \in DOMAIN doc.words,
         \/ pc' \in {"traces", "checks", "spend"} /\ exit' = Nothing
         \/ pc' = "ended" /\ exit' \in {"130", "traceback"}
  PROVE  SweepInv'
<1>1. TypeOK /\ exit = Nothing /\ ~dry /\ at \in Nat /\ at > 0 /\ Targets' = Targets
  BY OnCoWork, NamesStay DEF SweepInv, TypeOK, Order, Busy, AtWork, Early, inputs
<1>2. /\ Contents'
      /\ DOMAIN docs' = {Child(n)' : n \in 1 .. at'}
      /\ docs' \in [DOMAIN docs' -> Documents \cup {Nothing}]
  BY RewriteStep
<1>3. TypeOK'
  BY <1>1, <1>2, SweepAssumption DEF TypeOK, inputs, world, Steps, Codes
<1>4. Order'
  BY <1>1, SweepAssumption
     DEF SweepInv, Order, inputs, Early, Busy, AtWork, Codes
<1>5. Decided'
  BY <1>1, GoesOn, EndsUndecided DEF Busy, AtWork
<1> QED
  BY <1>2, <1>3, <1>4, <1>5 DEF SweepInv

LEMMA RunContainerStep == ASSUME SweepInv, RunContainer PROVE SweepInv'
<1>1. /\ TypeOK /\ pc \in Busy /\ pc' = "traces" /\ exit' = Nothing
      /\ backend = "docker" /\ declared = {} /\ broken' = broken
      /\ broken' \subseteq Checked /\ unsaid' \subseteq Checked
      /\ UNCHANGED <<inputs, world, touched, at, runs, raised, stopped, verdict, recorded>>
  BY DEF SweepInv, TypeOK, Order, RunContainer, Busy, AtWork, checked, ending
<1>2. CASE UNCHANGED docs
  BY <1>1, <1>2, SameDocument, Written
<1>3. ASSUME NEW partial \in BOOLEAN, NEW cost \in 0 .. MaxCost,
             NEW ran \in SUBSET (picked \cap Here), partial \/ ran = picked \cap Here,
             NEW words \in [ran -> {"pass", "fail"}],
             docs' = Keep(Child(at), [words |-> words, cost |-> cost, partial |-> partial])
      PROVE  SweepInv'
  <2> DEFINE doc == [words |-> words, cost |-> cost, partial |-> partial]
  <2>1. doc \in Documents
    <3>1. ran \in SUBSET Cases
      BY <1>1 DEF TypeOK
    <3>2. words \in [ran -> Reached]
      BY DEF Reached
    <3> QED BY <3>1, <3>2 DEF Documents
  <2>2. IsFaithful(doc, at, broken')
    <3>1. {c \in picked : PluginOf[c] = Targets[at]} = picked \cap Here
      BY <1>1 DEF TypeOK, Here
    <3>2. \A c \in picked \cap Here : c \notin broken
      BY <1>1, NotYetBroken DEF Here
    <3>3. \A c \in ran : words[c] # "declared" /\ c \notin declared /\ c \notin broken'
      BY <1>1, <3>2
    <3> QED BY <1>1, <1>3, <3>1, <3>3 DEF IsFaithful
  <2> QED
    BY <1>1, <1>3, <2>1, <2>2, Written
<1> QED
  BY <1>2, <1>3 DEF RunContainer

LEMMA WriteSuiteStep ==
  ASSUME SweepInv, WriteSuite
  PROVE  SweepInv' /\ \E doc \in Documents : docs' = Keep(Child(at), doc)
<1>1. /\ TypeOK /\ pc \in Busy /\ pc' = "traces" /\ exit' = Nothing
      /\ backend = "cowork" /\ broken' = broken
      /\ broken' \subseteq Checked /\ unsaid' \subseteq Checked
      /\ UNCHANGED <<inputs, world, touched, at, runs, raised, stopped, verdict, recorded>>
  BY DEF SweepInv, TypeOK, Order, WriteSuite, Busy, AtWork, checked, ending
<1>2. at = 1 /\ \A c \in Cases : PluginOf[c] = Targets[at]
  <2>1. at \in 0 .. 1 /\ at > 0
    BY <1>1, OnCoWork DEF SweepInv, TypeOK, Order
  <2> QED BY <1>1, <2>1, OnCoWork DEF TypeOK
<1>3. ASSUME NEW c \in Submitted
      PROVE  Len(runs[c]) = Runs /\ runs[c] \in Seq({"pass", "fail", "error"})
  <2>1. c \in Cases /\ Len(runs[c]) \in Nat /\ Len(runs[c]) <= Runs /\ Runs \in Nat
        /\ runs[c] \in Seq({"pass", "fail", "error"})
    BY <1>1, SweepAssumption DEF Submitted, TypeOK
  <2>2. ~(Len(runs[c]) < Runs)
    BY DEF WriteSuite, Unfinished
  <2> QED BY <2>1, <2>2
<1>4. PICK cost \in 0 .. MaxCost :
        docs' = Keep(Child(at), [words |-> [c \in picked |-> Word(c)],
                                 cost |-> cost, partial |-> FALSE])
  BY DEF WriteSuite
<1> DEFINE doc == [words |-> [c \in picked |-> Word(c)], cost |-> cost, partial |-> FALSE]
<1>5. doc \in Documents
  <2>1. picked \in SUBSET Cases
    BY <1>1 DEF TypeOK
  <2>2. [c \in picked |-> Word(c)] \in [picked -> Reached]
    BY DEF Word, Reached
  <2> QED BY <2>1, <2>2 DEF Documents
<1>6. ASSUME NEW c \in picked
      PROVE  /\ (Word(c) = "declared") = (c \in declared)
             /\ Word(c) = "pass" => runs[c] = [k \in 1 .. Runs |-> "pass"]
             /\ Word(c) = "fail" => Range(runs[c]) \ {"pass"} # {}
  <2>1. (Word(c) = "declared") = (c \in declared)
    BY DEF Word
  <2>2. CASE Word(c) = "pass"
    <3>1. c \in Submitted /\ \A k \in 1 .. Len(runs[c]) : runs[c][k] = "pass"
      BY <2>2 DEF Word, Submitted
    <3> QED BY <1>3, <2>1, <2>2, <3>1
  <2>3. CASE Word(c) = "fail"
    <3>1. c \in Submitted /\ \E k \in 1 .. Len(runs[c]) : runs[c][k] # "pass"
      BY <2>3 DEF Word, Submitted
    <3>2. \E k \in DOMAIN runs[c] : runs[c][k] # "pass"
      BY <1>3, <3>1
    <3> QED BY <2>1, <2>3, <3>2 DEF Range
  <2> QED BY <2>1, <2>2, <2>3
<1>7. IsFaithful(doc, at, broken')
  <2>1. {c \in picked : PluginOf[c] = Targets[at]} = picked
    BY <1>1, <1>2 DEF TypeOK
  <2>2. \A c \in picked : c \notin broken
    BY <1>1, <1>2, NotYetBroken DEF TypeOK
  <2> HIDE DEF Word
  <2> QED BY <1>1, <1>6, <2>1, <2>2 DEF IsFaithful
<1> QED
  BY <1>1, <1>4, <1>5, <1>7, Written


\* The document at work with some of its cases failed.
LEMMA SomeFail ==
  ASSUME SweepInv, pc \in Busy, docs[Child(at)] # Nothing,
         NEW bad \in SUBSET DOMAIN docs[Child(at)].words, bad \cap declared = {},
         NEW failed, broken \subseteq failed, failed \subseteq broken \cup bad,
         backend = "cowork" => failed = broken \cup bad
  PROVE  \E doc \in Documents :
           /\ Failing(Child(at), bad) = Keep(Child(at), doc)
           /\ IsFaithful(doc, at, failed)
           /\ DOMAIN doc.words = DOMAIN docs[Child(at)].words
<1> DEFINE old == docs[Child(at)]
           new == [old EXCEPT !.words =
                     [c \in DOMAIN @ |-> IF c \in bad THEN "fail" ELSE @[c]]]
<1>1. old \in Documents /\ IsFaithful(old, at, broken)
  BY SameDocument
<1>2. PICK set \in SUBSET Cases : old.words \in [set -> Reached]
  BY <1>1 DEF Documents
<1>3. /\ new = [words |-> [c \in set |-> IF c \in bad THEN "fail" ELSE old.words[c]],
                cost |-> old.cost, partial |-> old.partial]
      /\ DOMAIN old.words = set /\ old.cost \in 0 .. MaxCost /\ old.partial \in BOOLEAN
  BY <1>1, <1>2 DEF Documents
<1>4. new \in Documents
  BY <1>2, <1>3 DEF Documents, Reached
<1>5. /\ DOMAIN new.words = set /\ new.partial = old.partial
      /\ \A c \in set : new.words[c] = IF c \in bad THEN "fail" ELSE old.words[c]
  BY <1>3
<1>6. IsFaithful(new, at, failed)
  <2> HIDE DEF new, old
  <2> QED BY <1>1, <1>3, <1>5 DEF IsFaithful, old
<1> QED
  BY <1>3, <1>4, <1>5, <1>6 DEF Failing

LEMMA CollectTracesStep == ASSUME SweepInv, CollectTraces PROVE SweepInv'
<1>1. /\ TypeOK /\ pc \in Busy /\ pc' = "checks" /\ exit' = Nothing /\ broken' = broken
      /\ broken' \subseteq Checked /\ unsaid' \subseteq Checked
      /\ UNCHANGED <<inputs, world, touched, at, runs, raised, stopped, verdict, recorded>>
  BY DEF SweepInv, TypeOK, CollectTraces, Busy, checked, ending
<1>2. CASE UNCHANGED docs
  BY <1>1, <1>2, SameDocument, Written
<1>3. CASE /\ backend = "docker" /\ docs[Child(at)] # Nothing
           /\ \E bad \in SUBSET DOMAIN docs[Child(at)].words :
                docs' = Failing(Child(at), bad)
  <2>1. declared = {}
    BY <1>3 DEF SweepInv, Order
  <2> QED
    BY <1>1, <1>3, <2>1, SomeFail, Written
<1>4. CASE docs' = Keep(Child(at), Nothing)
  BY <1>1, <1>4, Written
<1> QED
  BY <1>2, <1>3, <1>4 DEF CollectTraces

\* How the checks of a plugin end, and which may have failed.
LEMMA ChecksEnd ==
  ASSUME SweepInv, pc = "checks", AfterFinally
  PROVE  /\ pc' \notin Busy
         /\ \/ pc' = "spend" /\ exit' = Nothing
            \/ pc' = "ended" /\ exit' \in {"130", "traceback"}
         /\ ToCheck \subseteq Checked /\ ToCheck \cap declared = {}
         /\ ToCheck # {} => docs[Child(at)] # Nothing
         /\ docs[Child(at)] # Nothing => ToCheck \subseteq DOMAIN docs[Child(at)].words
         /\ \A c \in ToCheck : PluginOf[c] = Targets[at]
<1>1. docs[Child(at)] # Nothing => IsFaithful(docs[Child(at)], at, broken)
  BY SameDocument DEF Busy
<1> QED
  BY <1>1 DEF AfterFinally, Busy, AtWork, ToCheck, IsFaithful

LEMMA RunChecksStep ==
  ASSUME SweepInv, RunChecks
  PROVE  /\ SweepInv'
         /\ docs' = docs \/ \E doc \in Documents : docs' = Keep(Child(at), doc)
<1>1. /\ TypeOK /\ pc = "checks" /\ pc \in Busy
      /\ broken \subseteq Checked /\ unsaid' \subseteq Checked /\ AfterFinally
      /\ UNCHANGED <<inputs, world, touched, at, runs, raised, stopped, verdict, recorded>>
  BY DEF SweepInv, TypeOK, RunChecks, Busy
<1>2. PICK bad \in SUBSET ToCheck :
        /\ docs' = IF ToCheck = {} THEN docs ELSE Failing(Child(at), bad)
        /\ broken' = broken \cup bad
  BY DEF RunChecks
<1>3. CASE ToCheck = {}
  BY <1>1, <1>2, <1>3, ChecksEnd, SameDocument, Written
<1>4. CASE ToCheck # {}
  <2>1. PICK doc \in Documents :
          /\ Failing(Child(at), bad) = Keep(Child(at), doc)
          /\ IsFaithful(doc, at, broken')
          /\ DOMAIN doc.words = DOMAIN docs[Child(at)].words
    BY <1>1, <1>2, <1>4, ChecksEnd, SomeFail
  <2> QED
    BY <1>1, <1>2, <1>4, <2>1, ChecksEnd, Written
<1> QED
  BY <1>3, <1>4

LEMMA ChecksUnwrittenStep == ASSUME SweepInv, ChecksUnwritten PROVE SweepInv'
<1>1. /\ TypeOK /\ pc = "checks" /\ pc \in Busy /\ broken' = broken
      /\ broken \subseteq Checked /\ AfterFinally
      /\ docs' = docs \/ docs' = Keep(Child(at), Nothing)
      /\ UNCHANGED <<inputs, world, touched, at, runs, raised, stopped, verdict, recorded>>
  BY DEF SweepInv, TypeOK, ChecksUnwritten, Busy
<1>2. unsaid' \subseteq Checked
  BY <1>1, ChecksEnd DEF ChecksUnwritten, TypeOK
<1> QED
  BY <1>1, <1>2, ChecksEnd, SameDocument, Written

LEMMA RunOnceStep == ASSUME SweepInv, NEW c \in Cases, RunOnce(c) PROVE SweepInv'
<1>1. /\ TypeOK /\ pc = "suite" /\ exit = Nothing /\ ~dry /\ backend = "cowork"
      /\ at \in Nat /\ at > 0 /\ docs[Child(at)] = Nothing
      /\ UNCHANGED <<pc, inputs, tree, others, edits, touched, at, docs, raised, stopped,
                     checked, ending>>
  <2>1. TypeOK /\ pc = "suite"
        /\ UNCHANGED <<pc, inputs, tree, others, edits, touched, at, docs, raised, stopped,
                       checked, ending>>
    BY DEF SweepInv, RunOnce
  <2>2. exit = Nothing /\ at \in Nat
    BY <2>1, OnCoWork DEF TypeOK
  <2>3. ~dry /\ backend = "cowork" /\ at > 0 /\ docs[Child(at)] = Nothing
    BY <2>1 DEF SweepInv, Order, Busy, AtWork, Early
  <2> QED BY <2>1, <2>2, <2>3
<1>2. at = 1
  <2>1. at \in 0 .. 1
    BY <1>1, OnCoWork DEF TypeOK
  <2> QED BY <1>1, <2>1
<1>3. /\ logged' \in Nat /\ runs' \in [Cases -> Seq({"pass", "fail", "error"})]
      /\ \A d \in Cases : Len(runs'[d]) <= Runs
  <2>1. PICK word \in {"pass", "fail", "error"} :
          runs' = [runs EXCEPT ![c] = Append(@, word)]
    BY DEF RunOnce
  <2>2. logged' \in Nat
    BY <1>1 DEF RunOnce, TypeOK
  <2>3. Len(runs[c]) < Runs /\ Runs \in Nat
    BY SweepAssumption DEF RunOnce, Unfinished
  <2>4. runs[c] \in Seq({"pass", "fail", "error"})
    BY <1>1 DEF TypeOK
  <2>5. Append(runs[c], word) \in Seq({"pass", "fail", "error"})
        /\ Len(Append(runs[c], word)) <= Runs
    BY <2>3, <2>4
  <2>6. /\ runs' \in [Cases -> Seq({"pass", "fail", "error"})]
        /\ \A d \in Cases : runs'[d] = IF d = c THEN Append(runs[c], word) ELSE runs[d]
    BY <1>1, <2>1, <2>5 DEF TypeOK
  <2> QED
    BY <1>1, <2>2, <2>5, <2>6 DEF TypeOK
<1>4. TypeOK'
  BY <1>1, <1>3, QuietTypes DEF TypeOK, inputs, checked, ending
<1>5. Targets' = Targets /\ PluginOf' = PluginOf
      /\ \A n \in Nat : Child(n)' = Child(n)
  BY <1>1, NamesStay DEF inputs
<1>6. Order'
  BY <1>1, <1>5, SweepAssumption
     DEF SweepInv, Order, inputs, ending, Early, Busy, AtWork, Codes
<1>7. Decided'
  BY <1>1, GoesOn DEF ending
<1>8. Contents'
  <2>1. \A n \in 1 .. at' : Faithful(n)'
    BY <1>1, <1>2, <1>5 DEF Faithful
  <2>2. broken' = {}
    <3>1. \A d \in broken : d \in Cases /\ PluginOf[d] = Targets[at]
      BY <1>1, <1>2, OnCoWork, SweepAssumption DEF TypeOK
    <3> QED BY <1>1, <3>1, NotYetBroken DEF Busy, AtWork, checked
  <2> QED BY <2>1, <2>2 DEF Contents, FailedChecksAreSaid
<1> QED
  BY <1>4, <1>6, <1>7, <1>8 DEF SweepInv
-----------------------------------------------------------------------------
(* Every state of a sweep.                                                 *)

LEMMA InitSweepInv == Init => SweepInv
<1> SUFFICES ASSUME Init PROVE SweepInv
  OBVIOUS
<1>1. TypeOK
  <2>1. Len(Targets) \in Nat
    BY OnCoWork DEF Init
  <2>2. logged \in Nat /\ others \in 0 .. MaxOthers /\ edits \in 0 .. MaxEdits /\ 0 <= Runs
    BY SweepAssumption DEF Init
  <2>3. /\ runs \in [Cases -> Seq({"pass", "fail", "error"})]
        /\ \A c \in Cases : Len(runs[c]) = 0
    BY DEF Init
  <2>4. docs = <<>> /\ DOMAIN docs = {} /\ at = 0 /\ 1 .. at = {}
    BY DEF Init
  <2>5. declared \subseteq Cases /\ tree \in [Cases -> TreeFaults \cup {"ok", "unreadable"}]
    BY DEF Init
  <2>6. /\ DOMAIN docs = {Child(n) : n \in 1 .. at}
        /\ docs \in [DOMAIN docs -> Documents \cup {Nothing}]
    BY <2>4
  <2>7. pc \in Steps /\ (exit # Nothing) = (pc = "ended") /\ exit \in Codes \cup {Nothing}
    BY DEF Init, Steps
  <2>8. \A c \in Cases : Len(runs[c]) <= Runs
    BY <2>2, <2>3
  <2>9. /\ backend \in Backends /\ dry \in BOOLEAN /\ keep \in BOOLEAN
        /\ picked \subseteq Cases /\ touched = {} /\ stopped \in BOOLEAN
        /\ raised = Nothing /\ verdict = Nothing /\ broken = {} /\ unsaid = {}
    BY DEF Init
  <2>10. at \in 0 .. Len(Targets)
    BY <2>1, <2>4
  <2> QED
    BY <2>2, <2>3, <2>5, <2>6, <2>7, <2>8, <2>9, <2>10 DEF TypeOK
<1>2. Order
  BY SweepAssumption DEF Init, Order, NothingYet, Early, Busy, AtWork, Codes
<1>3. Decided
  BY SweepAssumption DEF Init, Decided, Codes
<1>4. Contents
  BY DEF Init, Contents, FailedChecksAreSaid
<1> QED
  BY <1>1, <1>2, <1>3, <1>4 DEF SweepInv

LEMMA StutterStep == ASSUME SweepInv, UNCHANGED vars PROVE SweepInv'
<1>1. UNCHANGED <<pc, inputs, world, suite, touched, ending>> /\ TypeOK
  BY DEF vars, SweepInv
<1>2. TypeOK'
  BY <1>1, QuietTypes DEF TypeOK, inputs, world, suite, checked, ending
<1>3. (docs[Child(at)])' = docs[Child(at)]
  BY <1>1 DEF Child, Targets, inputs, suite
<1>4. Order'
  BY <1>1, <1>3 DEF SweepInv, Order, NothingYet, inputs, suite, checked, ending
<1>5. Decided'
  BY <1>1, DecisionStands, NamesStay DEF SweepInv, Decided, inputs, suite, ending
<1>6. Contents'
  BY <1>1, QuietStep DEF suite, checked
<1> QED
  BY <1>2, <1>4, <1>5, <1>6 DEF SweepInv

LEMMA EveryStep == ASSUME SweepInv, [Next]_vars PROVE SweepInv'
<1>1. CASE OwnSteps \/ Returns
  <2>1. CASE Start \/ Preflight \/ Validate \/ Select \/ Prune
    BY <2>1, EarlySteps
  <2>2. CASE DeleteOld \/ MakeRunDir \/ Consent \/ SpendCheck
    BY <2>2, DeleteOldStep, MakeRunDirStep, ConsentStep, SpendCheckStep
  <2>3. CASE RunContainer \/ Plan \/ WriteSuite \/ CollectTraces
    BY <2>3, RunContainerStep, BackendSteps, WriteSuiteStep, CollectTracesStep
  <2>4. CASE \E c \in Cases : RunOnce(c) \/ RefuseTimeout(c)
    BY <2>4, RunOnceStep, BackendSteps
  <2>5. CASE RunChecks \/ ChecksUnwritten \/ ChecksEscape
    BY <2>5, RunChecksStep, ChecksUnwrittenStep, EndSteps
  <2>6. CASE Decide \/ RecordCase \/ Record
    BY <2>6, DecideStep, RecordCaseStep, RecordStep
  <2> QED
    BY <1>1, <2>1, <2>2, <2>3, <2>4, <2>5, <2>6, Zenon DEF OwnSteps, Returns
<1>2. CASE Interrupt \/ BackendEscapes \/ OtherSubmits \/ Edit
  BY <1>2, EndSteps, BackendSteps, OutsideSteps, Zenon
<1>3. CASE UNCHANGED vars
  BY <1>3, StutterStep
<1> QED
  BY <1>1, <1>2, <1>3, Zenon DEF Next

\* Every document is what the runs and the checks of its plugin left in it, in a
\* directory of its own, at every step of `_run`; the decision is of those documents.
THEOREM SweepInvariant == Spec => []SweepInv
<1>1. Init => SweepInv
  BY InitSweepInv
<1>2. SweepInv /\ [Next]_vars => SweepInv'
  BY EveryStep
<1> QED
  BY <1>1, <1>2, PTL DEF Spec


\* Exit 2 and exit 3 leave the log root as it was, and like a dry run, which prunes it,
\* they create no run directory, submit nothing and record nothing.
THEOREM RefusalsLeaveNothing == Spec => []RefusalLeavesNothing
<1>1. SweepInv => RefusalLeavesNothing
  BY DEF SweepInv, Order, NothingYet, RefusalLeavesNothing
<1> QED
  BY <1>1, SweepInvariant, PTL

LEMMA WhoseDirectory ==
  ASSUME SweepInv, NEW d \in DOMAIN docs, docs[d] # Nothing
  PROVE  \E n \in 1 .. at : d = Child(n) /\ IsFaithful(docs[d], n, broken)
<1>1. PICK n \in 1 .. at : d = Child(n)
  BY DEF SweepInv, TypeOK
<1>2. Faithful(n)
  BY DEF SweepInv, Contents
<1> QED
  BY <1>1, <1>2 DEF Faithful

LEMMA InvRecords == ASSUME SweepInv PROVE RecordsAreEarned
<1>1. recorded # {} => verdict # Nothing /\ exit \notin {"2", "3", "traceback"}
  BY DEF SweepInv, Decided
<1>2. ASSUME NEW o \in recorded
      PROVE  /\ docs[o[1]] # Nothing /\ o[3] = docs[o[1]].words[o[2]]
             /\ o[3] = "pass" =>
                  /\ o[2] \notin broken
                  /\ backend = "cowork" => Range(runs[o[2]]) \subseteq {"pass"}
  <2>1. o \in Outcomes
    BY <1>1 DEF SweepInv, Decided
  <2>2. /\ o[1] \in DOMAIN docs /\ docs[o[1]] # Nothing
        /\ o[2] \in DOMAIN docs[o[1]].words /\ o[3] = docs[o[1]].words[o[2]]
    BY <2>1 DEF Outcomes
  <2>3. PICK n \in 1 .. at : IsFaithful(docs[o[1]], n, broken)
    BY <2>2, WhoseDirectory
  <2>4. ASSUME o[3] = "pass", backend = "cowork"
        PROVE  Range(runs[o[2]]) \subseteq {"pass"}
    <3>1. runs[o[2]] = [k \in 1 .. Runs |-> "pass"]
      BY <2>2, <2>3, <2>4 DEF IsFaithful
    <3> QED BY <3>1 DEF Range
  <2>5. o[3] = "pass" => o[2] \notin broken
    BY <2>2, <2>3 DEF IsFaithful
  <2> QED
    BY <2>2, <2>4, <2>5
<1> QED
  BY <1>1, <1>2 DEF RecordsAreEarned

\* A pass in the history is of a decided sweep and was earned by every run and check.
THEOREM HistoryIsEarned == Spec => []RecordsAreEarned
BY InvRecords, SweepInvariant, PTL

LEMMA OnePerPlugin ==
  ASSUME SweepInv
  PROVE  IsFiniteSet(DOMAIN docs) /\ Cardinality(DOMAIN docs) = at
<1>1. at \in Nat /\ DOMAIN docs = {Child(n) : n \in 1 .. at}
  BY OnCoWork DEF SweepInv, TypeOK
<1> DEFINE f == [n \in 1 .. at |-> Child(n)]
<1>2. \A m, n \in 1 .. at : Child(m) = Child(n) => m = n
  BY <1>1, DirectoriesDiffer
<1>3. f \in Bijection(1 .. at, DOMAIN docs)
  <2> HIDE DEF Child
  <2> QED BY <1>1, <1>2, Zenon DEF Bijection, Injection, Surjection, IsInjective
<1>4. ExistsBijection(1 .. at, DOMAIN docs)
  BY <1>3, Zenon DEF ExistsBijection
<1> QED
  BY <1>1, <1>4, FS_CountingElements, FS_NatBijection

LEMMA InvGreen == ASSUME SweepInv PROVE GreenMeansGreen
<1>1. SUFFICES ASSUME exit = "0", ~dry, verdict # Nothing
               PROVE  /\ verdict.passed
                      /\ at = Len(Targets)
                      /\ Cardinality(DOMAIN docs) = Len(Targets)
                      /\ \A n \in 1 .. at : docs[Child(n)] # Nothing
                      /\ \A n \in 1 .. at, c \in picked :
                           PluginOf[c] = Targets[n] =>
                             /\ c \in DOMAIN docs[Child(n)].words
                             /\ docs[Child(n)].words[c] =
                                  IF c \in declared THEN "declared" ELSE "pass"
                      /\ backend = "cowork" =>
                           \A c \in Submitted : runs[c] = [k \in 1 .. Runs |-> "pass"]
                      /\ broken = {}
  BY DEF GreenMeansGreen
<1>2. verdict.passed /\ Passed /\ at = Len(Targets) /\ TypeOK
  BY <1>1 DEF SweepInv, Decided, Passed
<1>3. Cardinality(DOMAIN docs) = Len(Targets)
  BY <1>2, OnePerPlugin
<1>4. ASSUME NEW n \in 1 .. at
      PROVE  /\ Child(n) \in DOMAIN docs /\ docs[Child(n)] # Nothing
             /\ docs[Child(n)] \in Documents /\ IsFaithful(docs[Child(n)], n, broken)
             /\ DOMAIN docs[Child(n)].words = {c \in picked : PluginOf[c] = Targets[n]}
  <2>1. Child(n) \in DOMAIN docs
    BY <1>2 DEF TypeOK
  <2>2. docs[Child(n)] # Nothing /\ ~docs[Child(n)].partial
    BY <1>2, <2>1 DEF Passed
  <2>3. docs[Child(n)] \in Documents /\ IsFaithful(docs[Child(n)], n, broken)
    BY <1>2, <2>1, <2>2 DEF TypeOK, SweepInv, Contents, Faithful
  <2> QED
    BY <2>1, <2>2, <2>3 DEF IsFaithful
<1>5. ASSUME NEW n \in 1 .. at, NEW c \in DOMAIN docs[Child(n)].words
      PROVE  docs[Child(n)].words[c] = IF c \in declared THEN "declared" ELSE "pass"
  <2> DEFINE word == docs[Child(n)].words[c]
  <2>1. c \in Cases /\ word \in Reached
    BY <1>4 DEF Documents
  <2>2. <<Child(n), c, word>> \in Outcomes
    BY <1>4, <2>1, Zenon DEF Outcomes
  <2>3. word # "fail"
    BY <1>2, <2>2 DEF Passed
  <2> QED
    BY <1>4, <2>1, <2>3 DEF IsFaithful, Reached
<1>6. ASSUME backend = "cowork", NEW c \in Submitted
      PROVE  runs[c] = [k \in 1 .. Runs |-> "pass"]
  <2>1. c \in picked /\ c \in Cases /\ c \notin declared
    BY <1>2 DEF Submitted, TypeOK
  <2>2. at = 1 /\ 1 \in 1 .. at /\ PluginOf[c] = Targets[1]
    <3>1. Len(Targets) = 1 /\ PluginOf[c] = Targets[1]
      BY <1>2, <1>6, <2>1, OnCoWork DEF TypeOK
    <3> QED BY <1>2, <3>1
  <2>3. c \in DOMAIN docs[Child(1)].words
    BY <1>4, <2>1, <2>2
  <2>4. docs[Child(1)].words[c] = "pass"
    BY <1>5, <2>1, <2>2, <2>3
  <2>5. IsFaithful(docs[Child(1)], 1, broken)
    BY <1>4, <2>2
  <2> QED
    BY <1>6, <2>3, <2>4, <2>5 DEF IsFaithful
<1>7. broken = {}
  <2>1. ASSUME NEW c \in broken PROVE FALSE
    <3>1. PICK n \in 1 .. at :
            docs[Child(n)] # Nothing => c \in DOMAIN docs[Child(n)].words
      BY DEF SweepInv, Contents, FailedChecksAreSaid
    <3> QED
      BY <1>4, <1>5, <3>1 DEF IsFaithful
  <2> QED BY <2>1
<1> QED
  BY <1>2, <1>3, <1>4, <1>5, <1>6, <1>7

\* Exit 0 of a decided sweep says that every plugin left a whole document in its own
\* directory, with every picked case in it, and every run and check passed.
THEOREM GreenIsEarned == Spec => []GreenMeansGreen
BY InvGreen, SweepInvariant, PTL

-----------------------------------------------------------------------------
(* Red on CoWork. With "unwritten" a document is lost that nobody edited, so *)
(* these assume that the layers can write it.                               *)

\* A step after which no plugin owes its document that did not before.
LEMMA SameCause ==
  ASSUME EditsShow, at \in Nat, backend' = "cowork", edits' = 0,
         UNCHANGED <<inputs, tree, edits, at, docs>>, Owed' => Owed \/ at = 0,
         \/ pc \notin {"start", "preflight", "ended"} \/ dry \/ ~Unplannable
         \/ pc' \in {"start", "preflight", "ended"}
  PROVE  EditsShow'
<1>1. /\ backend = "cowork" /\ edits = 0 /\ dry' = dry /\ Unplannable' = Unplannable
      /\ \A n \in Nat : Child(n)' = Child(n)
  BY NamesStay DEF inputs, Unplannable, Undiscoverable
<1> QED
  BY <1>1 DEF EditsShow

\* A step that gives the one plugin of the sweep a document.
LEMMA NowWritten ==
  ASSUME SweepInv, EditsShow, pc \in Busy, backend' = "cowork", edits' = 0,
         UNCHANGED <<inputs, tree, edits, at>>,
         \E doc \in Documents : docs' = Keep(Child(at), doc)
  PROVE  EditsShow'
<1>1. /\ backend = "cowork" /\ edits = 0 /\ dry' = dry /\ Unplannable' = Unplannable
      /\ \A n \in Nat : Child(n)' = Child(n)
  BY NamesStay DEF inputs, Unplannable, Undiscoverable
<1>2. TypeOK /\ at > 0 /\ at = 1
  <2>1. at \in 0 .. 1 /\ at > 0
    BY <1>1, OnCoWork DEF SweepInv, TypeOK, Order
  <2> QED BY <2>1 DEF SweepInv
<1>3. docs'[Child(1)] # Nothing
  BY <1>2, KeepOne, SweepAssumption
<1> QED
  BY <1>1, <1>2, <1>3 DEF EditsShow, Busy, AtWork

LEMMA CauseStep ==
  ASSUME SweepInv, EditsShow, "unwritten" \notin FaultsOn["cowork"], [Next]_vars
  PROVE  EditsShow'
<1>1. SUFFICES ASSUME backend' = "cowork", edits' = 0
               PROVE  EditsShow'
  BY DEF EditsShow
<1>2. /\ TypeOK /\ at \in Nat /\ edits \in Nat /\ Order
      /\ exit # Nothing <=> pc = "ended"
  BY OnCoWork DEF SweepInv, TypeOK
<1>3. Nothing \notin Raisable \cup Codes
  BY SweepAssumption
<1>4. CASE Start \/ Preflight \/ Validate \/ Select \/ Prune
  <2>1. /\ UNCHANGED <<inputs, tree, edits, at, docs>>
        /\ pc' \in (Early \ {"start"}) \cup {"ended"} /\ exit' # "1"
        /\ \/ pc' = "ended" \/ pc' = "preflight" \/ dry
           \/ pc \notin {"start", "preflight"} \/ ~Unplannable
    BY <1>1, <1>2, <1>3, <1>4
       DEF Start, Preflight, Validate, Select, Prune, Go, End, Early, world, suite,
           inputs, ending, Codes
  <2>2. ~Owed'
    BY <2>1 DEF Owed, Early
  <2> QED
    BY <1>1, <1>2, <1>4, <2>1, <2>2, SameCause
       DEF Start, Preflight, Validate, Select, Prune, Order
<1>5. CASE DeleteOld \/ MakeRunDir \/ Consent
  <2>1. /\ UNCHANGED <<inputs, tree, edits, at, docs>>
        /\ at = 0 /\ pc \in {"prune", "rundir", "consent"}
    BY <1>2, <1>5 DEF DeleteOld, MakeRunDir, Consent, Stop, Go, world, suite, Order, NothingYet, Early
  <2> QED
    BY <1>1, <1>2, <2>1, SameCause
<1>6. CASE SpendCheck
  <2>1. CASE UNCHANGED <<inputs, tree, edits, at, docs>>
    BY <1>1, <1>2, <1>6, <2>1, SameCause DEF SpendCheck, Owed
  <2>2. CASE pc' = "backend" /\ UNCHANGED <<inputs, world, ending>>
    <3>1. /\ backend = "cowork" /\ edits = 0 /\ dry' = dry /\ Unplannable' = Unplannable
          /\ exit' = Nothing /\ pc = "spend"
      BY <1>1, <1>2, <1>6, <2>2
         DEF SpendCheck, inputs, world, ending, Unplannable, Undiscoverable
    <3> QED
      BY <1>3, <2>2, <3>1 DEF EditsShow, Owed, Codes
  <2> QED
    BY <1>6, <2>1, <2>2 DEF SpendCheck, Stop, Go, world, suite
<1>7. CASE Plan \/ BackendEscapes \/ \E c \in Cases : RefuseTimeout(c)
  <2>1. /\ UNCHANGED <<inputs, tree, edits, at, docs, exit>> /\ pc \in AtWork
        /\ backend = "cowork" /\ edits = 0 /\ ~dry /\ exit = Nothing
    BY <1>1, <1>2, <1>7
       DEF Plan, BackendEscapes, RefuseTimeout, inputs, world, ending, AtWork, Order, Early
  <2>2. ~Unplannable
    BY <2>1 DEF EditsShow, AtWork
  <2>3. ~Owed'
    BY <1>3, <1>7, <2>1, <2>2
       DEF Plan, BackendEscapes, RefuseTimeout, Owed, Raisable, Codes
  <2> QED
    BY <1>1, <1>2, <2>1, <2>2, <2>3, SameCause
<1>8. CASE \E c \in Cases : RunOnce(c)
  BY <1>1, <1>2, <1>8, SameCause DEF RunOnce, Owed, ending
<1>9. CASE RunContainer
  BY <1>1, <1>9 DEF RunContainer, inputs
<1>10. CASE WriteSuite
  BY <1>1, <1>10, WriteSuiteStep, NowWritten DEF WriteSuite, world, Busy, AtWork
<1>11. CASE CollectTraces
  <2>1. UNCHANGED <<inputs, tree, edits, at, docs>> /\ (Owed' => Owed) /\ pc = "traces"
    BY <1>1, <1>2, <1>11
       DEF CollectTraces, CheckFaults, inputs, world, ending, Owed
  <2> QED
    BY <1>1, <1>2, <2>1, SameCause
<1>12. CASE RunChecks
  <2>1. /\ UNCHANGED <<inputs, tree, edits, at>> /\ pc = "checks"
        /\ docs' = docs \/ \E doc \in Documents : docs' = Keep(Child(at), doc)
    BY <1>12, RunChecksStep DEF RunChecks, world
  <2>2. Owed' => Owed
    BY <2>1, <1>12 DEF RunChecks, AfterFinally, Owed
  <2> QED
    BY <1>1, <1>2, <2>1, <2>2, SameCause, NowWritten DEF Busy
<1>13. CASE ChecksUnwritten
  BY <1>1, <1>13 DEF ChecksUnwritten, CheckFaults, inputs
<1>14. CASE Interrupt \/ ChecksEscape
  BY <1>1, <1>2, <1>14, SameCause
     DEF Interrupt, ChecksEscape, End, Owed, world, suite
<1>15. CASE Decide \/ RecordCase \/ Record
  BY <1>1, <1>2, <1>15, SameCause DEF Decide, RecordCase, Record, Owed, world, suite
<1>16. CASE OtherSubmits
  BY <1>1, <1>2, <1>16, SameCause DEF OtherSubmits, Owed, suite, ending
<1>17. CASE Edit
  BY <1>1, <1>2, <1>17 DEF Edit
<1>18. CASE UNCHANGED vars
  BY <1>1, <1>2, <1>18, SameCause DEF vars, Owed, world, suite, ending
<1> QED
  BY <1>4, <1>5, <1>6, <1>7, <1>8, <1>9, <1>10, <1>11, <1>12, <1>13, <1>14, <1>15,
     <1>16, <1>17, <1>18, Zenon DEF Next, OwnSteps, Returns

LEMMA InvRed == ASSUME SweepInv, EditsShow PROVE RedIsExplained
<1>1. SUFFICES ASSUME exit = "1", backend = "cowork", ~stopped, broken = {}, ~(edits > 0)
               PROVE  \E c \in Submitted : Range(runs[c]) \ {"pass"} # {}
  BY DEF RedIsExplained
<1>2. /\ TypeOK /\ edits = 0 /\ ~Passed
      /\ \A n \in 1 .. at : docs[Child(n)] # Nothing
  <2>1. edits = 0
    BY <1>1, SweepAssumption DEF SweepInv, TypeOK
  <2>2. ~Passed
    BY <1>1 DEF SweepInv, Decided
  <2>3. \A n \in 1 .. at : docs[Child(n)] # Nothing
    BY <1>1, <2>1 DEF EditsShow, Owed
  <2> QED BY <2>1, <2>2, <2>3 DEF SweepInv
<1>3. \A d \in DOMAIN docs : docs[d] # Nothing
  BY <1>2 DEF TypeOK
<1>4. \A d \in DOMAIN docs : ~docs[d].partial
  BY <1>1, <1>3, WhoseDirectory DEF IsFaithful
<1>5. PICK o \in Outcomes : o[3] = "fail"
  BY <1>1, <1>2, <1>3, <1>4 DEF Passed
<1>6. /\ o[1] \in DOMAIN docs /\ docs[o[1]] # Nothing
      /\ o[2] \in DOMAIN docs[o[1]].words /\ docs[o[1]].words[o[2]] = "fail"
  BY <1>5 DEF Outcomes
<1>7. PICK n \in 1 .. at : IsFaithful(docs[o[1]], n, broken)
  BY <1>6, WhoseDirectory
<1> QED
  BY <1>1, <1>6, <1>7 DEF IsFaithful, Submitted

\* Exit 1 on CoWork has a cause the operator can find, as long as the layers around the
\* backend can write the document.
THEOREM RedHasCause ==
  ASSUME "unwritten" \notin FaultsOn["cowork"]
  PROVE  Spec => []RedIsExplained
<1>1. Init => EditsShow
  BY SweepAssumption DEF Init, EditsShow, Owed, Codes
<1>2. SweepInv /\ EditsShow /\ [Next]_vars => EditsShow'
  BY CauseStep
<1>3. SweepInv /\ EditsShow => RedIsExplained
  BY InvRed
<1> QED
  BY <1>1, <1>2, <1>3, SweepInvariant, PTL DEF Spec


-----------------------------------------------------------------------------
(* The cost ceiling.                                                       *)

Cost(d) == IF docs[d] = Nothing THEN 0 ELSE docs[d].cost

\* What was spent on the plugins before the one the sweep is at.
SpentBefore ==
  SumFunctionOnSet([d \in DOMAIN docs |-> Cost(d)], DOMAIN docs \ {Child(at)})

\* The total was below the ceiling when the plugin was started.
StartedBelowCeiling == at > 0 => SpentBefore < CostCeiling

LEMMA CostType ==
  ASSUME TypeOK
  PROVE  \A d \in DOMAIN docs : Cost(d) \in 0 .. MaxCost /\ Cost(d) \in Nat
<1>1. \A d \in DOMAIN docs : docs[d] # Nothing => docs[d].cost \in 0 .. MaxCost
  BY DEF TypeOK, Documents
<1>2. MaxCost \in Nat
  BY SweepAssumption
<1> QED BY <1>1, <1>2 DEF Cost

\* `spend` is what the plugins before it and the plugin at work cost.
LEMMA SpentParts ==
  ASSUME SweepInv
  PROVE  /\ Spent \in Nat
         /\ at = 0 => Spent = 0
         /\ at > 0 => /\ SpentBefore \in Nat
                      /\ Cost(Child(at)) \in 0 .. MaxCost
                      /\ Spent = Cost(Child(at)) + SpentBefore
<1> DEFINE f == [d \in DOMAIN docs |-> Cost(d)]
<1>1. TypeOK /\ at \in Nat /\ DOMAIN docs = {Child(n) : n \in 1 .. at}
  BY OnCoWork DEF SweepInv, TypeOK
<1>2. IsFiniteSet(DOMAIN docs) /\ \A d \in DOMAIN docs : f[d] \in Nat
  BY <1>1, OnePerPlugin, CostType
<1>3. Spent = SumFunctionOnSet(f, DOMAIN docs)
  BY Zenon DEF Spent, SumFunction, Cost
<1>4. Spent \in Nat
  <2> HIDE DEF f
  <2> QED BY <1>2, <1>3, SumTakes
<1>5. ASSUME at = 0 PROVE Spent = 0
  <2>1. DOMAIN docs = {}
    BY <1>1, <1>5
  <2> QED BY <1>3, <2>1, SumEmpty, Zenon
<1>6. ASSUME at > 0
      PROVE  /\ SpentBefore \in Nat /\ Cost(Child(at)) \in 0 .. MaxCost
             /\ Spent = Cost(Child(at)) + SpentBefore
  <2>1. PICK d \in DOMAIN docs : d = Child(at)
    <3>1. at \in 1 .. at
      BY <1>1, <1>6
    <3> QED BY <1>1, <3>1, Zenon
  <2>2. f[d] = Cost(d) /\ Cost(d) \in 0 .. MaxCost
    BY <1>1, CostType
  <2>3. SpentBefore = SumFunctionOnSet(f, DOMAIN docs \ {d})
    BY <2>1, Zenon DEF SpentBefore
  <2>4. SumFunctionOnSet(f, DOMAIN docs) = f[d] + SumFunctionOnSet(f, DOMAIN docs \ {d})
    <3> HIDE DEF f
    <3> QED BY <1>2, SumTakes
  <2>5. SumFunctionOnSet(f, DOMAIN docs \ {d}) \in Nat
    <3>1. PICK R \in SUBSET DOMAIN docs : R = DOMAIN docs \ {d}
      OBVIOUS
    <3>2. IsFiniteSet(R) /\ \A x \in R : f[x] \in Nat
      BY <1>2, FS_Subset
    <3> HIDE DEF f
    <3> QED BY <3>1, <3>2, SumTakes
  <2> QED BY <1>3, <2>1, <2>2, <2>3, <2>4, <2>5
<1> QED BY <1>4, <1>5, <1>6

\* What the plugin at work writes is not spent on those before it.
LEMMA BeforeStays ==
  ASSUME SweepInv, at > 0, UNCHANGED <<inputs, at>>,
         docs' = docs \/ \E doc : docs' = Keep(Child(at), doc)
  PROVE  SpentBefore' = SpentBefore
<1>1. TypeOK /\ Child(at)' = Child(at)
  BY DEF SweepInv, Child, Targets, inputs
<1>2. CASE docs' = docs
  <2>1. [d \in DOMAIN docs |-> Cost(d)]' = [d \in DOMAIN docs |-> Cost(d)]
    BY <1>2 DEF Cost
  <2> QED BY <1>1, <1>2, <2>1 DEF SpentBefore
<1>3. ASSUME NEW doc, docs' = Keep(Child(at), doc)
      PROVE  SpentBefore' = SpentBefore
  <2>1. PICK R : R = DOMAIN docs \ {Child(at)}
    OBVIOUS
  <2>2. DOMAIN docs' = DOMAIN docs
    BY <1>1, <1>3, KeepOne
  <2>3. \A d \in R : docs'[d] = docs[d]
    BY <1>3, <2>1 DEF Keep
  <2>4. PICK f, g : f = [d \in DOMAIN docs |-> Cost(d)] /\ g = [d \in DOMAIN docs |-> Cost(d)]'
    OBVIOUS
  <2>5. \A d \in R : f[d] = g[d]
    BY <2>1, <2>2, <2>3, <2>4 DEF Cost
  <2>6. SumFunctionOnSet(f, R) = SumFunctionOnSet(g, R)
    BY <2>5, SumAgrees
  <2>7. SpentBefore = SumFunctionOnSet(f, R) /\ SpentBefore' = SumFunctionOnSet(g, R)
    BY <1>1, <2>1, <2>2, <2>4, Zenon DEF SpentBefore
  <2> QED BY <2>6, <2>7
<1> QED BY <1>2, <1>3

\* A plugin is started once `spend` has been compared with the ceiling.
LEMMA StartsBelow ==
  ASSUME SweepInv, SpendCheck, at' # at
  PROVE  StartedBelowCeiling'
<1>1. /\ Spent < CostCeiling /\ at' = at + 1 /\ docs' = Keep(Child(at + 1), Nothing)
      /\ UNCHANGED inputs /\ TypeOK /\ at \in Nat
  <2>1. at # Len(Targets)
    BY DEF SpendCheck, Go, suite
  <2>2. ~(Spent >= CostCeiling)
    BY <2>1 DEF SpendCheck, Stop
  <2>3. /\ at' = at + 1 /\ docs' = Keep(Child(at + 1), Nothing) /\ UNCHANGED inputs
    BY <2>1, <2>2 DEF SpendCheck
  <2>4. Spent \in Nat /\ CostCeiling \in Nat
    BY SpentParts, SweepAssumption
  <2> QED BY <2>2, <2>3, <2>4, OnCoWork DEF SweepInv, TypeOK
<1>2. PICK new : new = Child(at + 1) /\ new = Child(at)'
  BY <1>1 DEF Child, Targets, inputs
<1>3. new \notin DOMAIN docs
  <2>1. \A n \in 1 .. at : Child(n) # new
    BY <1>1, <1>2, DirectoriesDiffer
  <2> QED BY <1>1, <2>1 DEF TypeOK
<1>4. DOMAIN docs' \ {new} = DOMAIN docs /\ \A d \in DOMAIN docs : docs'[d] = docs[d]
  BY <1>1, <1>2, <1>3 DEF Keep
<1>5. PICK f, g : f = [d \in DOMAIN docs |-> Cost(d)] /\ g = [d \in DOMAIN docs |-> Cost(d)]'
  OBVIOUS
<1>6. \A d \in DOMAIN docs : f[d] = g[d]
  BY <1>4, <1>5 DEF Cost
<1>7. SumFunctionOnSet(f, DOMAIN docs) = SumFunctionOnSet(g, DOMAIN docs)
  BY <1>6, SumAgrees
<1>8. Spent = SumFunctionOnSet(f, DOMAIN docs)
  BY <1>5, Zenon DEF Spent, SumFunction, Cost
<1>9. SpentBefore' = SumFunctionOnSet(g, DOMAIN docs)
  BY <1>2, <1>4, <1>5, Zenon DEF SpentBefore
<1> QED BY <1>1, <1>7, <1>8, <1>9 DEF StartedBelowCeiling

LEMMA CeilingStep ==
  ASSUME SweepInv, StartedBelowCeiling, [Next]_vars
  PROVE  StartedBelowCeiling'
<1>1. CASE SpendCheck /\ at' # at
  BY <1>1, StartsBelow
<1>2. CASE /\ UNCHANGED <<inputs, at>>
           /\ docs' = docs \/ \E doc : docs' = Keep(Child(at), doc)
  BY <1>2, BeforeStays DEF StartedBelowCeiling
<1>3. ASSUME ~(SpendCheck /\ at' # at)
      PROVE  /\ UNCHANGED <<inputs, at>>
             /\ docs' = docs \/ \E doc : docs' = Keep(Child(at), doc)
  <2>1. CASE Start \/ Preflight \/ Validate \/ Select \/ Prune \/ Interrupt \/ ChecksEscape
    BY <2>1 DEF Start, Preflight, Validate, Select, Prune, Interrupt, ChecksEscape, Go,
                End, suite
  <2>2. CASE DeleteOld \/ MakeRunDir \/ Consent \/ SpendCheck \/ Plan \/ BackendEscapes
    BY <1>3, <2>2 DEF DeleteOld, MakeRunDir, Consent, SpendCheck, Plan, BackendEscapes, Go, Stop,
                      suite
  <2>3. CASE RunContainer \/ WriteSuite \/ CollectTraces
    BY <2>3, Zenon DEF RunContainer, WriteSuite, CollectTraces, Failing
  <2>4. CASE RunChecks \/ ChecksUnwritten
    BY <2>4, Zenon DEF RunChecks, ChecksUnwritten, Failing
  <2>5. CASE (\E c \in Cases : RunOnce(c) \/ RefuseTimeout(c)) \/ Decide \/ RecordCase
                \/ Record
    BY <2>5 DEF RunOnce, RefuseTimeout, Decide, RecordCase, Record, suite
  <2>6. CASE OtherSubmits \/ Edit \/ UNCHANGED vars
    BY <2>6 DEF OtherSubmits, Edit, vars, suite
  <2> QED
    BY <2>1, <2>2, <2>3, <2>4, <2>5, <2>6, Zenon DEF Next, OwnSteps, Returns
<1> QED BY <1>1, <1>2, <1>3

\* The ceiling on the total cost is overrun by one plugin at most: `_each_plugin`
\* compares what the documents say was spent before each plugin that it starts, and a
\* document is of one plugin and costs no more than MaxCost.
THEOREM SpendStaysBounded == Spec => []SpendIsBounded
<1>1. Init => StartedBelowCeiling
  BY DEF Init, StartedBelowCeiling
<1>2. SweepInv /\ StartedBelowCeiling /\ [Next]_vars => StartedBelowCeiling'
  BY CeilingStep
<1>3. ASSUME SweepInv, StartedBelowCeiling PROVE SpendIsBounded
  <2>1. at \in Nat /\ CostCeiling \in Nat /\ MaxCost \in Nat
    BY <1>3, OnCoWork, SweepAssumption DEF SweepInv, TypeOK
  <2> QED BY <1>3, <2>1, SpentParts DEF SpendIsBounded, StartedBelowCeiling
<1> QED
  BY <1>1, <1>2, <1>3, SweepInvariant, PTL DEF Spec
=============================================================================
