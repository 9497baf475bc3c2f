----------------------- MODULE SubmissionLedgerProofs -----------------------
(* The ceiling of SubmissionLedger holds for every number of processes,    *)
(* every ceiling and every window.                                         *)
EXTENDS SubmissionLedger, FiniteSetTheorems, TLAPS

\* The attempts of a set of stamped records are no more than the records.
LEMMA ByImage ==
  ASSUME NEW S, IsFiniteSet(S)
  PROVE  /\ IsFiniteSet({e.by : e \in S})
         /\ Cardinality({e.by : e \in S}) <= Cardinality(S)
<1> DEFINE T == {e.by : e \in S}
           f == [e \in S |-> e.by]
<1>1. f \in [S -> T]
  OBVIOUS
<1>2. \A t \in T : \E e \in S : f[e] = t
  OBVIOUS
<1>3. f \in Surjection(S, T)
  BY <1>1, <1>2 DEF Surjection
<1> QED
  BY <1>3, FS_Surjection

\* Records that name different attempts are no more than the attempts.
LEMMA ByInjective ==
  ASSUME NEW S, NEW T, IsFiniteSet(T),
         \A e \in S : e.by \in T,
         \A e, g \in S : e.by = g.by => e = g
  PROVE  Cardinality(S) <= Cardinality(T)
<1> DEFINE f == [e \in S |-> e.by]
<1>1. f \in [S -> T]
  OBVIOUS
<1>2. f \in Injection(S, T)
  BY <1>1 DEF Injection, IsInjective
<1> QED
  BY <1>2, FS_Injection

\* At most one attempt of each process is in flight.
LEMMA FlyingBound ==
  ASSUME NEW S \in SUBSET Attempts, IsFiniteSet(Procs),
         \A a, b \in S : a[1] = b[1] => a = b
  PROVE  IsFiniteSet(S) /\ Cardinality(S) <= Cardinality(Procs)
<1> DEFINE f == [a \in S |-> a[1]]
<1>1. f \in [S -> Procs]
  BY DEF Attempts
<1>2. f \in Injection(S, Procs)
  BY <1>1 DEF Injection, IsInjective
<1> QED
  BY <1>2, FS_Injection

\* The set that is charged is finite, and shrinks with its parts.
LEMMA ChargedFinite ==
  ASSUME FinitelyMany
  PROVE  IsFiniteSet(Charged) /\ IsFiniteSet(RecentOf(log))
<1>1. IsFiniteSet(RecentOf(log))
  BY FS_Subset DEF RecentOf, FinitelyMany
<1>2. IsFiniteSet({e.by : e \in RecentOf(log)})
  BY <1>1, ByImage
<1> QED
  BY <1>1, <1>2, FS_Union DEF Charged, FinitelyMany

\* Admission is the only step that charges an attempt, and it happens below
\* the ceiling.
LEMMA AdmitCharges ==
  ASSUME IInv, NEW a \in Attempts, Admit(a)
  PROVE  ChargedBelow'
<1> DEFINE L == {e.by : e \in RecentOf(log)}
           F == flying \cup {a}
<1>1. IsFiniteSet(RecentOf(log))
  BY ChargedFinite DEF IInv
<1>2. /\ IsFiniteSet(L)
      /\ Cardinality(L) <= Cardinality(RecentOf(log))
  BY <1>1, ByImage
<1>3. IsFiniteSet(F) /\ Cardinality(F) <= Cardinality(Procs)
  <2>1. F \in SUBSET Attempts
    BY DEF IInv, TypeOK
  <2>2. \A b, c \in F : b[1] = c[1] => b = c
    BY DEF IInv, OneInFlight, Admit
  <2> QED
    BY <2>1, <2>2, FlyingBound, LedgerAssumption
<1>4. Cardinality(L \cup F) = Cardinality(L) + Cardinality(F) - Cardinality(L \cap F)
  BY <1>2, <1>3, FS_Union
<1>5. IsFiniteSet(L \cap F)
  BY <1>2, FS_Subset
<1>6. /\ Cardinality(L) \in Nat
      /\ Cardinality(F) \in Nat
      /\ Cardinality(L \cap F) \in Nat
      /\ Cardinality(RecentOf(log)) \in Nat
      /\ Cardinality(Procs) \in Nat
  BY <1>1, <1>2, <1>3, <1>5, FS_CardinalityType, LedgerAssumption
<1>7. Cardinality(RecentOf(log)) < MaxRuns
  BY DEF Admit
<1>8. Cardinality(L \cup F) <= MaxRuns + Cardinality(Procs) - 1
  BY <1>2, <1>3, <1>4, <1>6, <1>7, LedgerAssumption
<1>9. Charged' = L \cup F
  BY DEF Charged, RecentOf, Admit
<1> QED
  BY <1>8, <1>9 DEF ChargedBelow

\* A step that charges no new attempt keeps the bound.
LEMMA ChargedShrinks ==
  ASSUME IInv, Charged' \subseteq Charged
  PROVE  ChargedBelow'
<1>1. IsFiniteSet(Charged)
  BY ChargedFinite DEF IInv
<1>2. Cardinality(Charged') <= Cardinality(Charged)
  BY <1>1, FS_Subset
<1>3. IsFiniteSet(Charged')
  BY <1>1, FS_Subset
<1>4. /\ Cardinality(Charged) \in Nat
      /\ Cardinality(Charged') \in Nat
      /\ Cardinality(Procs) \in Nat
  BY <1>1, <1>3, FS_CardinalityType, LedgerAssumption
<1> QED
  BY <1>2, <1>4, LedgerAssumption DEF IInv, ChargedBelow

LEMMA InitIInv == Init => IInv
<1> SUFFICES ASSUME Init PROVE IInv
  OBVIOUS
<1>1. TypeOK
  BY LedgerAssumption DEF Init, TypeOK
<1>2. FinitelyMany
  BY FS_EmptySet DEF Init, FinitelyMany
<1>3. ChargedBelow
  <2>1. Charged = {}
    BY DEF Init, Charged, RecentOf
  <2>2. Cardinality(Charged) = 0
    BY <2>1, FS_EmptySet
  <2>3. Cardinality(Procs) \in Nat /\ Cardinality(Procs) # 0
    BY FS_CardinalityType, FS_EmptySet, LedgerAssumption
  <2> QED
    BY <2>2, <2>3, LedgerAssumption DEF ChargedBelow
<1> QED
  BY <1>1, <1>2, <1>3 DEF Init, IInv, OneInFlight, FiredOnce, AccountedFor

LEMMA NextIInv == IInv /\ [Next]_vars => IInv'
<1> SUFFICES ASSUME IInv, [Next]_vars PROVE IInv'
  OBVIOUS
<1>1. ASSUME NEW a \in Attempts, Admit(a) PROVE IInv'
  <2>1. TypeOK'
    BY <1>1 DEF Admit, IInv, TypeOK
  <2>2. FinitelyMany'
    BY <1>1, FS_AddElement DEF Admit, IInv, FinitelyMany
  <2>3. OneInFlight'
    BY <1>1 DEF Admit, IInv, OneInFlight
  <2>4. FiredOnce' /\ AccountedFor'
    BY <1>1 DEF Admit, IInv, FiredOnce, AccountedFor
  <2>5. ChargedBelow'
    BY <1>1, AdmitCharges
  <2> QED
    BY <2>1, <2>2, <2>3, <2>4, <2>5 DEF IInv
<1>2. ASSUME NEW a \in Attempts, Fire(a) PROVE IInv'
  <2>1. TypeOK'
    BY <1>2 DEF Fire, IInv, TypeOK, Stamped
  <2>2. FinitelyMany'
    BY <1>2, FS_AddElement DEF Fire, IInv, FinitelyMany
  <2>3. OneInFlight' /\ FiredOnce'
    BY <1>2 DEF Fire, IInv, OneInFlight, FiredOnce
  <2>4. AccountedFor'
    BY <1>2 DEF Fire, IInv, AccountedFor, TypeOK
  <2>5. ChargedBelow'
    BY <1>2, ChargedShrinks DEF Fire, Charged, RecentOf
  <2> QED
    BY <2>1, <2>2, <2>3, <2>4, <2>5 DEF IInv
<1>3. ASSUME NEW a \in Attempts, Enter(a) PROVE IInv'
  <2>1. TypeOK'
    BY <1>3 DEF Enter, IInv, TypeOK, Stamped
  <2>2. FinitelyMany'
    BY <1>3, FS_AddElement, FS_RemoveElement DEF Enter, IInv, FinitelyMany
  <2>3. OneInFlight' /\ FiredOnce'
    BY <1>3 DEF Enter, IInv, OneInFlight, FiredOnce
  <2>4. AccountedFor'
    <3>1. SUFFICES ASSUME NEW f \in fired
                   PROVE  /\ f.day <= day
                          /\ \/ f.by \in flying'
                             \/ f.by \in lost
                             \/ \E e \in log' : e.by = f.by /\ e.day >= f.day
      BY <1>3 DEF Enter, AccountedFor
    <3>2. f.day <= day
      BY DEF IInv, AccountedFor
    <3>3. CASE f.by = a
      <4>1. [by |-> a, day |-> day] \in log'
        BY <1>3 DEF Enter
      <4>2. f.day \in Nat /\ day \in Nat
        BY DEF IInv, TypeOK, Stamped
      <4> QED
        BY <3>2, <3>3, <4>1, <4>2
    <3>4. CASE f.by # a
      BY <1>3, <3>2, <3>4 DEF Enter, IInv, AccountedFor
    <3> QED
      BY <3>3, <3>4
  <2>5. Charged' \subseteq Charged
    BY <1>3 DEF Enter, Charged, RecentOf, IInv, TypeOK
  <2> QED
    BY <2>1, <2>2, <2>3, <2>4, <2>5, ChargedShrinks DEF IInv
<1>4. ASSUME NEW a \in Attempts, Withdraw(a) PROVE IInv'
  <2>1. TypeOK'
    BY <1>4 DEF Withdraw, IInv, TypeOK
  <2>2. FinitelyMany'
    BY <1>4, FS_RemoveElement DEF Withdraw, IInv, FinitelyMany
  <2>3. OneInFlight' /\ FiredOnce' /\ AccountedFor'
    BY <1>4 DEF Withdraw, IInv, OneInFlight, FiredOnce, AccountedFor
  <2>4. Charged' \subseteq Charged
    BY <1>4 DEF Withdraw, Charged, RecentOf
  <2> QED
    BY <2>1, <2>2, <2>3, <2>4, ChargedShrinks DEF IInv
<1>5. ASSUME NEW a \in Attempts, Lose(a) PROVE IInv'
  <2>1. TypeOK'
    BY <1>5 DEF Lose, IInv, TypeOK
  <2>2. FinitelyMany'
    BY <1>5, FS_RemoveElement DEF Lose, IInv, FinitelyMany
  <2>3. OneInFlight' /\ FiredOnce' /\ AccountedFor'
    BY <1>5 DEF Lose, IInv, OneInFlight, FiredOnce, AccountedFor
  <2>4. Charged' \subseteq Charged
    BY <1>5 DEF Lose, Charged, RecentOf
  <2> QED
    BY <2>1, <2>2, <2>3, <2>4, ChargedShrinks DEF IInv
<1>6. CASE Tick
  <2>1. TypeOK'
    BY <1>6, LedgerAssumption DEF Tick, IInv, TypeOK
  <2>2. FinitelyMany' /\ OneInFlight' /\ FiredOnce'
    BY <1>6 DEF Tick, IInv, FinitelyMany, OneInFlight, FiredOnce
  <2>3. AccountedFor'
    BY <1>6 DEF Tick, IInv, AccountedFor, TypeOK, Stamped
  <2>4. Charged' \subseteq Charged
    BY <1>6, LedgerAssumption DEF Tick, Charged, RecentOf, IInv, TypeOK, Stamped
  <2> QED
    BY <2>1, <2>2, <2>3, <2>4, ChargedShrinks DEF IInv
<1>7. CASE UNCHANGED vars
  BY <1>7 DEF vars, IInv, TypeOK, FinitelyMany, OneInFlight, FiredOnce,
              AccountedFor, ChargedBelow, Charged, RecentOf
<1> QED
  BY <1>1, <1>2, <1>3, <1>4, <1>5, <1>6, <1>7 DEF Next

\* A submission of the window that was not lost is charged: its line is not
\* older than it, or it is still in flight.
LEMMA IInvCeiling == IInv => CeilingPerProcess
<1> SUFFICES ASSUME IInv PROVE CeilingPerProcess
  OBVIOUS
<1>1. IsFiniteSet(Charged)
  BY ChargedFinite DEF IInv
<1>2. \A f \in Submitted : f.by \in Charged
  BY LedgerAssumption DEF IInv, AccountedFor, Submitted, RecentOf, Charged, TypeOK, Stamped
<1>3. \A f, g \in Submitted : f.by = g.by => f = g
  BY DEF IInv, FiredOnce, Submitted, RecentOf
<1>4. Cardinality(Submitted) <= Cardinality(Charged)
  BY <1>1, <1>2, <1>3, ByInjective
<1>5. IsFiniteSet(Submitted)
  BY FS_Subset DEF IInv, FinitelyMany, Submitted, RecentOf
<1>6. /\ Cardinality(Submitted) \in Nat
      /\ Cardinality(Charged) \in Nat
      /\ Cardinality(Procs) \in Nat
  BY <1>1, <1>5, FS_CardinalityType, LedgerAssumption
<1> QED
  BY <1>4, <1>6, LedgerAssumption DEF IInv, ChargedBelow, CeilingPerProcess

\* In every behaviour the accounting of the ledger stays consistent.
THEOREM LedgerInvariant == Spec => []IInv
<1> QED
  BY InitIInv, NextIInv, PTL DEF Spec

\* In every behaviour, for any number of processes, the submissions of any
\* trailing window exceed the ceiling by at most one per further process.
THEOREM LedgerCeiling == Spec => []CeilingPerProcess
<1> QED
  BY LedgerInvariant, IInvCeiling, PTL
=============================================================================
