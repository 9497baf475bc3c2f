-------------------------- MODULE SubmissionLedger --------------------------
(***************************************************************************)
(* What the driver promises about the rate ceiling, cowork.max_runs,       *)
(* whatever its steps look like: an attempt is admitted when the run log    *)
(* holds fewer than MaxRuns lines of the trailing window, may then fire    *)
(* once, and ends by leaving its line in the log, by being refused before   *)
(* it fired, or by dying without a line.  CoWorkDriver implements it.      *)
(***************************************************************************)
EXTENDS Naturals, FiniteSets

CONSTANTS
  Procs,        \* the processes that submit
  MaxRuns,      \* the ceiling
  Window,       \* the trailing window, in ticks of the model's clock
  MaxDay,       \* bound: the last day
  MaxAttempts   \* bound: the attempts of one process

ASSUME LedgerAssumption ==
  /\ IsFiniteSet(Procs)
  /\ Procs # {}
  /\ MaxRuns \in Nat
  /\ Window \in Nat
  /\ MaxDay \in Nat
  /\ MaxAttempts \in Nat

VARIABLES
  flying,  \* the attempts admitted and not yet ended
  log,     \* the lines of the run log: who, and on which day
  fired,   \* history: the attempts that fired, and on which day
  lost,    \* history: fired attempts that left no line
  day      \* the clock

vars == <<flying, log, fired, lost, day>>

Attempts == Procs \X (1 .. MaxAttempts)

Stamped == [by : Attempts, day : 0 .. MaxDay]

Init ==
  /\ flying = {}
  /\ log = {}
  /\ fired = {}
  /\ lost = {}
  /\ day = 0

\* The edge of the window is inside it.
RecentOf(stamped) == {e \in stamped : e.day + Window >= day}

\* Mutant of Admit: the ceiling is off by one.
AdmitAtCeiling(a) ==
  /\ Cardinality(RecentOf(log)) <= MaxRuns
  /\ \A b \in flying : b[1] # a[1]
  /\ \A f \in fired : f.by # a
  /\ flying' = flying \cup {a}
  /\ UNCHANGED <<log, fired, lost, day>>

\* Below the ceiling, and its process has nothing else under way.
Admit(a) ==
  /\ Cardinality(RecentOf(log)) < MaxRuns
  /\ \A b \in flying : b[1] # a[1]
  /\ \A f \in fired : f.by # a
  /\ flying' = flying \cup {a}
  /\ UNCHANGED <<log, fired, lost, day>>

Fire(a) ==
  /\ a \in flying
  /\ \A f \in fired : f.by # a
  /\ fired' = fired \cup {[by |-> a, day |-> day]}
  /\ UNCHANGED <<flying, log, lost, day>>

\* The line is in the log, and a submitted attempt may go on to wait.
Enter(a) ==
  /\ a \in flying
  /\ flying' = flying \ {a}
  /\ log' = log \cup {[by |-> a, day |-> day]}
  /\ UNCHANGED <<fired, lost, day>>

\* A refusal, or the death of an attempt that fired nothing.
Withdraw(a) ==
  /\ a \in flying
  /\ \A f \in fired : f.by # a
  /\ flying' = flying \ {a}
  /\ UNCHANGED <<log, fired, lost, day>>

\* An attempt that fired ends without its line.
Lose(a) ==
  /\ a \in flying
  /\ flying' = flying \ {a}
  /\ lost' = lost \cup {a}
  /\ UNCHANGED <<log, fired, day>>

Tick ==
  /\ day < MaxDay
  /\ day' = day + 1
  /\ UNCHANGED <<flying, log, fired, lost>>

Next ==
  \/ \E a \in Attempts : Admit(a) \/ Fire(a) \/ Enter(a) \/ Withdraw(a) \/ Lose(a)
  \/ Tick

Spec == Init /\ [][Next]_vars

-----------------------------------------------------------------------------
(* Properties.                                                             *)

TypeOK ==
  /\ flying \subseteq Attempts
  /\ log \subseteq Stamped
  /\ fired \subseteq Stamped
  /\ lost \subseteq Attempts
  /\ day \in 0 .. MaxDay

\* The attempts the ceiling has to answer for.
Charged == {e.by : e \in RecentOf(log)} \cup flying

Submitted == RecentOf({f \in fired : f.by \notin lost})

\* The ceiling, over concurrent processes: the submissions of any trailing
\* window, less the ones that died without a line, exceed MaxRuns by at most
\* one for each process beyond the first.
CeilingPerProcess ==
  Cardinality(Submitted) <= MaxRuns + Cardinality(Procs) - 1

OneInFlight == \A a, b \in flying : a[1] = b[1] => a = b

FiredOnce == \A f, g \in fired : f.by = g.by => f = g

\* A line is never older than the Return it is the line of.
AccountedFor ==
  \A f \in fired :
    /\ f.day <= day
    /\ \/ f.by \in flying
       \/ f.by \in lost
       \/ \E e \in log : e.by = f.by /\ e.day >= f.day

ChargedBelow == Cardinality(Charged) <= MaxRuns + Cardinality(Procs) - 1

FinitelyMany == IsFiniteSet(log) /\ IsFiniteSet(fired) /\ IsFiniteSet(flying)

\* The inductive invariant.
IInv ==
  /\ TypeOK
  /\ FinitelyMany
  /\ OneInFlight
  /\ FiredOnce
  /\ AccountedFor
  /\ ChargedBelow
=============================================================================
