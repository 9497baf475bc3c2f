----------------------------- MODULE DataLemmas -----------------------------
(***************************************************************************)
(* Facts about numbers, finite sets, sums and sequences that the proofs of  *)
(* several components rest on. A fact that needs an induction is proved by  *)
(* a least counterexample: a set of numbers has a least one, and a set of   *)
(* finite sets has one from which no element can be taken.                  *)
(***************************************************************************)
EXTENDS Integers, Sequences, SequencesExt, SequenceTheorems, FiniteSetTheorems,
        WellFoundedInduction, TLAPS

\* A set of numbers that is not empty has a least one.
LEMMA LeastNumber ==
  ASSUME NEW T \in SUBSET Nat, T # {}
  PROVE  \E n \in T : \A m \in T : n <= m
<1> DEFINE Less == {pair \in Nat \X Nat : pair[1] < pair[2]}
<1>1. IsWellFoundedOn(Less, Nat)
  BY NatLessThanWellFounded, Zenon DEF OpToRel
<1>2. PICK n \in T : \A m \in T : ~(<<m, n>> \in Less)
  <2> HIDE DEF Less
  <2> QED BY <1>1, WFMin
<1>3. ASSUME NEW m \in T PROVE n <= m
  <2>1. m \in Nat /\ n \in Nat
    OBVIOUS
  <2>2. ~(m < n)
    <3>1. m < n => <<m, n>> \in Less
      BY <2>1
    <3> QED BY <1>2, <3>1
  <2> HIDE DEF Less
  <2> QED BY <2>1, <2>2
<1> QED BY <1>3

\* What holds of 0, and of a number after each that it holds of, holds of all.
LEMMA EveryNumber ==
  ASSUME NEW T, 0 \in T, \A n \in Nat : n \in T => n + 1 \in T
  PROVE  Nat \subseteq T
<1> SUFFICES ASSUME Nat \ T # {} PROVE FALSE
  OBVIOUS
<1>1. PICK n \in Nat \ T : \A m \in Nat \ T : n <= m
  BY LeastNumber, Nat \ T \in SUBSET Nat
<1>2. n - 1 \in Nat /\ n - 1 \in T
  BY <1>1
<1> QED BY <1>1, <1>2

\* What holds of the empty set, and of a finite set when it holds of the set less an
\* element, holds of every finite set.
LEMMA EveryFiniteSet ==
  ASSUME NEW F, NEW S, IsFiniteSet(S), {} \in F,
         \A R \in SUBSET S : (\E x \in R : R \ {x} \in F) => R \in F
  PROVE  S \in F
<1> DEFINE T == {n \in Nat : \A R \in SUBSET S : Cardinality(R) = n => R \in F}
<1>1. \A R \in SUBSET S : IsFiniteSet(R) /\ Cardinality(R) \in Nat
  BY FS_Subset, FS_CardinalityType
<1>2. 0 \in T
  <2>1. \A R \in SUBSET S : Cardinality(R) = 0 => R = {}
    BY <1>1, FS_EmptySet
  <2> QED BY <2>1
<1>3. ASSUME NEW n \in Nat, n \in T PROVE n + 1 \in T
  <2>1. ASSUME NEW R \in SUBSET S, Cardinality(R) = n + 1 PROVE R \in F
    <3>1. R # {}
      BY <2>1, FS_EmptySet
    <3>2. PICK x : x \in R
      BY <3>1
    <3>3. Cardinality(R \ {x}) = n
      <4>1. IsFiniteSet(R) /\ Cardinality(R) \in Nat
        BY <1>1
      <4>2. Cardinality(R \ {x}) = Cardinality(R) - 1
        BY <3>2, <4>1, FS_RemoveElement
      <4> QED BY <2>1, <4>2
    <3>4. R \ {x} \in F
      BY <1>3, <3>3
    <3> QED BY <3>2, <3>4
  <2> QED BY <2>1
<1>4. Nat \subseteq T
  <2> HIDE DEF T
  <2> QED BY <1>2, <1>3, EveryNumber
<1> QED BY <1>1, <1>4

\* What holds of the empty sequence, and of a sequence with an element more when it
\* holds of the sequence, holds of every sequence over the set.
LEMMA EverySequence ==
  ASSUME NEW S, NEW F, <<>> \in F,
         \A s \in Seq(S), x \in S : s \in F => Append(s, x) \in F
  PROVE  Seq(S) \subseteq F
<1> DEFINE T == {n \in Nat : \A s \in Seq(S) : Len(s) = n => s \in F}
<1>1. 0 \in T
  BY EmptySeq
<1>2. ASSUME NEW n \in Nat, n \in T, NEW s \in Seq(S), Len(s) = n + 1
      PROVE  s \in F
  <2> DEFINE t == SubSeq(s, 1, n)
  <2>1. t \in Seq(S) /\ Len(t) = n /\ s[n + 1] \in S /\ s = Append(t, s[n + 1])
    BY <1>2
  <2>2. t \in F
    BY <1>2, <2>1
  <2> HIDE DEF t
  <2> QED BY <2>1, <2>2
<1>3. Nat \subseteq T
  <2>1. \A n \in Nat : n \in T => n + 1 \in T
    BY <1>2
  <2> HIDE DEF T
  <2> QED BY <1>1, <2>1, EveryNumber
<1> QED BY <1>3

\* Two elements appended.
LEMMA AppendTwo ==
  ASSUME NEW S, NEW s \in Seq(S), NEW x \in S, NEW y \in S
  PROVE  /\ s \o <<x, y>> = Append(Append(s, x), y)
         /\ (s \o <<x>>) \o <<y>> = s \o <<x, y>>
<1>1. PICK n \in Nat : n = Len(s)
  OBVIOUS
<1>2. PICK a, b, c : /\ a = s \o <<x, y>> /\ b = Append(Append(s, x), y)
                     /\ c = (s \o <<x>>) \o <<y>>
  OBVIOUS
<1>3. /\ a \in Seq(S) /\ Len(a) = n + 2
      /\ b \in Seq(S) /\ Len(b) = n + 2
      /\ c \in Seq(S) /\ Len(c) = n + 2
  BY <1>1, <1>2
<1>4. ASSUME NEW k \in 1 .. n + 2
      PROVE  a[k] = b[k] /\ c[k] = b[k]
  <2>1. CASE k \in 1 .. n
    BY <1>1, <1>2, <2>1
  <2>2. CASE k = n + 1
    BY <1>1, <1>2, <2>2
  <2>3. CASE k = n + 2
    BY <1>1, <1>2, <2>3
  <2> QED BY <2>1, <2>2, <2>3
<1>5. a = b /\ c = b
  BY <1>3, <1>4, SeqEqual
<1> QED BY <1>2, <1>5

-----------------------------------------------------------------------------
(* FlattenSeq, one sequence at a time.                                     *)

\* What FlattenSeq computes on the way: after i sequences, their concatenation.
Joined(g, s, n) ==
  g = [i \in 1 .. n |-> IF i = 1 THEN s[i] ELSE g[i - 1] \o s[i]]

LEMMA FlattenIsJoined ==
  ASSUME NEW s
  PROVE  FlattenSeq(s) =
           IF Len(s) = 0 THEN s
           ELSE (CHOOSE g : Joined(g, s, Len(s)))[Len(s)]
BY Zenon DEF FlattenSeq, Joined

LEMMA JoinedExists ==
  ASSUME NEW s, NEW n \in Nat
  PROVE  \E g : Joined(g, s, n)
<1> DEFINE T == {m \in Nat : \E g : Joined(g, s, m)}
<1>1. 0 \in T
  <2>1. Joined([i \in 1 .. 0 |-> s], s, 0)
    BY DEF Joined
  <2> QED BY <2>1
<1>2. ASSUME NEW m \in Nat, m \in T PROVE m + 1 \in T
  <2>1. PICK g : Joined(g, s, m)
    BY <1>2
  <2> DEFINE h == [i \in 1 .. m + 1 |-> IF i <= m THEN g[i]
                     ELSE IF i = 1 THEN s[i] ELSE g[i - 1] \o s[i]]
  <2>2. ASSUME NEW i \in 1 .. m + 1
        PROVE  h[i] = IF i = 1 THEN s[i] ELSE h[i - 1] \o s[i]
    <3>1. CASE i <= m
      <4>1. h[i] = g[i] /\ (i # 1 => h[i - 1] = g[i - 1])
        BY <3>1
      <4>2. g[i] = IF i = 1 THEN s[i] ELSE g[i - 1] \o s[i]
        <5>1. i \in 1 .. m
          BY <3>1
        <5> QED BY <2>1, <5>1, Zenon DEF Joined
      <4> QED BY <4>1, <4>2
    <3>2. CASE ~(i <= m)
      <4>1. i = m + 1 /\ (i # 1 => h[i - 1] = g[i - 1])
        BY <3>2
      <4> QED BY <4>1
    <3> QED BY <3>1, <3>2
  <2>3. Joined(h, s, m + 1)
    <3>1. h = [i \in 1 .. m + 1 |-> h[i]]
      OBVIOUS
    <3> HIDE DEF h
    <3> QED BY <2>2, <3>1, Zenon DEF Joined
  <2> QED BY <2>3
<1>3. Nat \subseteq T
  <2> HIDE DEF T
  <2> QED BY <1>1, <1>2, EveryNumber
<1> QED BY <1>3

\* ... is the same for two sequences as far as they are.
LEMMA JoinedAgree ==
  ASSUME NEW s, NEW t, NEW g, NEW h, NEW m \in Nat, NEW n \in Nat, m <= n,
         Joined(g, s, m), Joined(h, t, n),
         \A i \in 1 .. m : s[i] = t[i]
  PROVE  \A i \in 1 .. m : g[i] = h[i]
<1> DEFINE T == {i \in Nat : i \in 1 .. m => g[i] = h[i]}
<1>1. 0 \in T
  OBVIOUS
<1>2. ASSUME NEW i \in Nat, i \in T, i + 1 \in 1 .. m
      PROVE  g[i + 1] = h[i + 1]
  <2>1. g[i + 1] = IF i + 1 = 1 THEN s[i + 1] ELSE g[(i + 1) - 1] \o s[i + 1]
    BY <1>2, Zenon DEF Joined
  <2>2. h[i + 1] = IF i + 1 = 1 THEN t[i + 1] ELSE h[(i + 1) - 1] \o t[i + 1]
    <3>1. i + 1 \in 1 .. n
      BY <1>2
    <3> QED BY <3>1, Zenon DEF Joined
  <2>3. s[i + 1] = t[i + 1]
    BY <1>2
  <2>4. CASE i = 0
    BY <2>1, <2>2, <2>3, <2>4
  <2>5. CASE i # 0
    <3>1. g[i] = h[i] /\ (i + 1) - 1 = i /\ i + 1 # 1
      BY <1>2, <2>5
    <3> QED BY <2>1, <2>2, <2>3, <3>1
  <2> QED BY <2>4, <2>5
<1>3. Nat \subseteq T
  <2>1. \A i \in Nat : i \in T => i + 1 \in T
    BY <1>2
  <2> HIDE DEF T
  <2> QED BY <1>1, <2>1, EveryNumber
<1> QED BY <1>3

LEMMA FlattenEmpty == FlattenSeq(<<>>) = <<>>
BY FlattenIsJoined

LEMMA FlattenIsLast ==
  ASSUME NEW s, NEW n \in Nat, Len(s) = n, n # 0
  PROVE  \E g : Joined(g, s, n) /\ FlattenSeq(s) = g[n]
<1> DEFINE g == CHOOSE g_1 : Joined(g_1, s, n)
<1>1. Joined(g, s, n)
  <2>1. \E g_1 : Joined(g_1, s, n)
    BY JoinedExists
  <2> QED BY <2>1, Zenon
<1>2. FlattenSeq(s) = g[n]
  <2>1. FlattenSeq(s) = (CHOOSE g_1 : Joined(g_1, s, Len(s)))[Len(s)]
    BY FlattenIsJoined
  <2> QED BY <2>1, Zenon
<1> QED BY <1>1, <1>2

LEMMA FlattenAppend ==
  ASSUME NEW S, NEW s \in Seq(Seq(S)), NEW x \in Seq(S)
  PROVE  FlattenSeq(Append(s, x)) = FlattenSeq(s) \o x
<1>1. PICK n \in Nat : n = Len(s)
  OBVIOUS
<1>2. PICK r : r = Append(s, x)
  OBVIOUS
<1>3. /\ Len(r) = n + 1
      /\ n + 1 \in 1 .. n + 1
      /\ r[n + 1] = x
      /\ \A i \in 1 .. n : s[i] = r[i]
  BY <1>1, <1>2
<1>4. PICK h : Joined(h, r, n + 1) /\ FlattenSeq(r) = h[n + 1]
  <2>1. n + 1 \in Nat /\ n + 1 # 0
    OBVIOUS
  <2> QED BY <1>3, <2>1, FlattenIsLast
<1>5. h[n + 1] = IF n + 1 = 1 THEN r[n + 1] ELSE h[(n + 1) - 1] \o r[n + 1]
  BY <1>3, <1>4, Zenon DEF Joined
<1>6. CASE n = 0
  <2>1. s = <<>> /\ <<>> \o x = x
    BY <1>1, <1>6, EmptySeq, ConcatEmptySeq
  <2> QED BY <1>2, <1>3, <1>4, <1>5, <1>6, <2>1, FlattenEmpty
<1>7. CASE n # 0
  <2>1. PICK g : Joined(g, s, n) /\ FlattenSeq(s) = g[n]
    BY <1>1, <1>7, FlattenIsLast
  <2>2. g[n] = h[n]
    <3>1. n \in 1 .. n /\ n + 1 \in Nat /\ n <= n + 1
      BY <1>7
    <3>2. \A i \in 1 .. n : g[i] = h[i]
      BY <1>3, <1>4, <2>1, <3>1, JoinedAgree
    <3> QED BY <3>1, <3>2
  <2>3. n + 1 # 1 /\ (n + 1) - 1 = n
    BY <1>7
  <2> QED BY <1>2, <1>3, <1>4, <1>5, <2>1, <2>2, <2>3
<1> QED BY <1>6, <1>7

\* The concatenation of sequences over a set is a sequence over it.
LEMMA FlattenType ==
  ASSUME NEW S, NEW s \in Seq(Seq(S))
  PROVE  FlattenSeq(s) \in Seq(S)
<1>1. PICK n \in Nat : n = Len(s)
  OBVIOUS
<1>2. CASE n = 0
  <2>1. s = <<>> /\ <<>> \in Seq(S)
    BY <1>1, <1>2, EmptySeq
  <2> QED BY <2>1, FlattenEmpty
<1>3. CASE n # 0
  <2>1. PICK g : Joined(g, s, n) /\ FlattenSeq(s) = g[n]
    BY <1>1, <1>3, FlattenIsLast
  <2> DEFINE T == {i \in Nat : i \in 1 .. n => g[i] \in Seq(S)}
  <2>2. 0 \in T
    OBVIOUS
  <2>3. ASSUME NEW i \in Nat, i \in T, i + 1 \in 1 .. n
        PROVE  g[i + 1] \in Seq(S)
    <3>1. g[i + 1] = IF i + 1 = 1 THEN s[i + 1] ELSE g[(i + 1) - 1] \o s[i + 1]
      BY <2>1, <2>3, Zenon DEF Joined
    <3>2. s[i + 1] \in Seq(S)
      BY <1>1, <2>3
    <3>3. CASE i = 0
      BY <3>1, <3>2, <3>3
    <3>4. CASE i # 0
      <4>1. g[i] \in Seq(S) /\ (i + 1) - 1 = i /\ i + 1 # 1
        BY <2>3, <3>4
      <4> QED BY <3>1, <3>2, <4>1
    <3> QED BY <3>3, <3>4
  <2>4. Nat \subseteq T
    <3>1. \A i \in Nat : i \in T => i + 1 \in T
      BY <2>3
    <3> HIDE DEF T
    <3> QED BY <2>2, <3>1, EveryNumber
  <2> QED BY <1>3, <2>1, <2>4
<1> QED BY <1>2, <1>3


\* The concatenation of what g makes of each element of s.
Mapped(s, g) == FlattenSeq([n \in 1 .. Len(s) |-> g[s[n]]])

LEMMA MappedParts ==
  ASSUME NEW X, NEW S, NEW g \in [X -> Seq(S)], NEW s \in Seq(X)
  PROVE  /\ [n \in 1 .. Len(s) |-> g[s[n]]] \in Seq(Seq(S))
         /\ Len([n \in 1 .. Len(s) |-> g[s[n]]]) = Len(s)
<1>1. Len(s) \in Nat /\ \A n \in 1 .. Len(s) : g[s[n]] \in Seq(S)
  OBVIOUS
<1> QED BY <1>1

LEMMA MappedType ==
  ASSUME NEW X, NEW S, NEW g \in [X -> Seq(S)], NEW s \in Seq(X)
  PROVE  Mapped(s, g) \in Seq(S)
<1> DEFINE parts == [n \in 1 .. Len(s) |-> g[s[n]]]
<1>1. parts \in Seq(Seq(S))
  BY MappedParts
<1>2. FlattenSeq(parts) \in Seq(S)
  <2> HIDE DEF parts
  <2> QED BY <1>1, FlattenType
<1> QED BY <1>2 DEF Mapped

LEMMA MappedEmpty ==
  ASSUME NEW g
  PROVE  Mapped(<<>>, g) = <<>>
<1>1. [n \in 1 .. Len(<<>>) |-> g[<<>>[n]]] = <<>>
  OBVIOUS
<1> QED BY <1>1, FlattenEmpty DEF Mapped

LEMMA MappedAppend ==
  ASSUME NEW X, NEW S, NEW g \in [X -> Seq(S)], NEW s \in Seq(X), NEW x \in X
  PROVE  Mapped(Append(s, x), g) = Mapped(s, g) \o g[x]
<1> DEFINE Parts(r) == [n \in 1 .. Len(r) |-> g[r[n]]]
<1>1. Parts(Append(s, x)) = Append(Parts(s), g[x])
  <2>1. /\ Parts(s) \in Seq(Seq(S)) /\ Len(Parts(s)) = Len(s)
        /\ Parts(Append(s, x)) \in Seq(Seq(S))
        /\ Len(Parts(Append(s, x))) = Len(s) + 1
    BY MappedParts, AppendProperties
  <2>2. g[x] \in Seq(S)
    OBVIOUS
  <2>3. ASSUME NEW n \in 1 .. Len(s) + 1
        PROVE  Parts(Append(s, x))[n] = Append(Parts(s), g[x])[n]
    <3>1. CASE n = Len(s) + 1
      <4>1. Append(s, x)[n] = x /\ Len(Append(s, x)) = Len(s) + 1
        BY <3>1
      <4>2. Append(Parts(s), g[x])[n] = g[x]
        <5> HIDE DEF Parts
        <5> QED BY <2>1, <2>2, <3>1, AppendProperties
      <4> QED BY <4>1, <4>2
    <3>2. CASE n \in 1 .. Len(s)
      <4>1. Append(s, x)[n] = s[n] /\ Len(Append(s, x)) = Len(s) + 1
        BY <3>2
      <4>2. Append(Parts(s), g[x])[n] = Parts(s)[n]
        <5> HIDE DEF Parts
        <5> QED BY <2>1, <2>2, <3>2, AppendProperties
      <4> QED BY <3>2, <4>1, <4>2
    <3> QED BY <3>1, <3>2
  <2>4. /\ Append(Parts(s), g[x]) \in Seq(Seq(S))
        /\ Len(Append(Parts(s), g[x])) = Len(s) + 1
    <3> HIDE DEF Parts
    <3> QED BY <2>1, <2>2, AppendProperties
  <2> HIDE DEF Parts
  <2> QED BY <2>1, <2>3, <2>4, SeqEqual
<1>2. Parts(s) \in Seq(Seq(S)) /\ g[x] \in Seq(S)
  BY MappedParts
<1>3. FlattenSeq(Append(Parts(s), g[x])) = FlattenSeq(Parts(s)) \o g[x]
  <2> HIDE DEF Parts
  <2> QED BY <1>2, FlattenAppend
<1> QED BY <1>1, <1>3 DEF Mapped


\* What is in it is what is in the parts.
LEMMA MappedRange ==
  ASSUME NEW X, NEW S, NEW g \in [X -> Seq(S)]
  PROVE  \A s \in Seq(X) : \A v :
           v \in Range(Mapped(s, g)) <=> \E y \in Range(s) : v \in Range(g[y])
<1> DEFINE F == {s \in Seq(X) : \A v \in S :
                   v \in Range(Mapped(s, g)) <=> \E y \in Range(s) : v \in Range(g[y])}
<1>1. <<>> \in F
  <2>1. Range(<<>>) = {} /\ <<>> \in Seq(X)
    BY DEF Range
  <2> QED BY <2>1, MappedEmpty
<1>2. ASSUME NEW s \in Seq(X), NEW x \in X, s \in F PROVE Append(s, x) \in F
  <2>1. Mapped(Append(s, x), g) = Mapped(s, g) \o g[x]
    BY MappedAppend
  <2>2. Mapped(s, g) \in Seq(S) /\ g[x] \in Seq(S)
    BY MappedType
  <2>3. PICK old, new : old = Mapped(s, g) /\ new = Mapped(Append(s, x), g)
    OBVIOUS
  <2>4. Range(new) = Range(old) \cup Range(g[x])
    BY <2>1, <2>2, <2>3, RangeConcatenation
  <2>5. Range(Append(s, x)) = Range(s) \cup {x}
    <3>1. PICK one : one = <<x>>
      OBVIOUS
    <3>2. one \in Seq(X) /\ Range(one) = {x} /\ Append(s, x) = s \o one
      BY <3>1 DEF Range
    <3> QED BY <3>2, RangeConcatenation
  <2>6. ASSUME NEW v \in S
        PROVE  v \in Range(new) <=> \E y \in Range(Append(s, x)) : v \in Range(g[y])
    <3>1. v \in Range(old) <=> \E y \in Range(s) : v \in Range(g[y])
      BY <1>2, <2>3
    <3> QED BY <2>4, <2>5, <3>1
  <2> QED BY <2>3, <2>6
<1>3. Seq(X) \subseteq F
  <2> HIDE DEF F
  <2> QED BY <1>1, <1>2, EverySequence
<1>4. ASSUME NEW s \in Seq(X), NEW v
      PROVE  v \in Range(Mapped(s, g)) <=> \E y \in Range(s) : v \in Range(g[y])
  <2>1. Mapped(s, g) \in Seq(S) /\ Range(Mapped(s, g)) \subseteq S
    BY MappedType, RangeOfSeq
  <2>2. \A y \in Range(s) : y \in X /\ Range(g[y]) \subseteq S
    BY RangeOfSeq
  <2> QED BY <1>3, <2>1, <2>2
<1> QED BY <1>4

-----------------------------------------------------------------------------
(* Sums over finite sets.                                                  *)

\* What holds of a set when it holds of the set less any one element holds of a finite
\* set and of its subsets.
LEMMA EverySubset ==
  ASSUME NEW F, NEW S, IsFiniteSet(S),
         \A R \in SUBSET S : (\A x \in R : R \ {x} \in F) => R \in F
  PROVE  SUBSET S \subseteq F
<1> DEFINE T == {n \in Nat : \A R \in SUBSET S : Cardinality(R) = n => R \in F}
<1>1. \A R \in SUBSET S : IsFiniteSet(R) /\ Cardinality(R) \in Nat
  BY FS_Subset, FS_CardinalityType
<1>2. 0 \in T
  <2>1. \A R \in SUBSET S : Cardinality(R) = 0 => R = {}
    BY <1>1, FS_EmptySet
  <2> QED BY <2>1
<1>3. ASSUME NEW n \in Nat, n \in T PROVE n + 1 \in T
  <2>1. ASSUME NEW R \in SUBSET S, Cardinality(R) = n + 1 PROVE R \in F
    <3>1. ASSUME NEW x \in R PROVE R \ {x} \in F
      <4>1. Cardinality(R \ {x}) = n
        BY <1>1, <2>1, <3>1, FS_RemoveElement
      <4> QED BY <1>3, <4>1
    <3> QED BY <3>1
  <2> QED BY <2>1
<1>4. Nat \subseteq T
  <2> HIDE DEF T
  <2> QED BY <1>2, <1>3, EveryNumber
<1> QED BY <1>1, <1>4

\* What SumFunctionOnSet computes: it takes an element of the set at a time.
One(s) == CHOOSE x \in s : TRUE

IsSum(iter, f, S) ==
  iter = [s \in SUBSET S |-> IF s = {} THEN 0 ELSE f[One(s)] + iter[s \ {One(s)}]]

LEMMA SumIsChosen ==
  ASSUME NEW f, NEW S
  PROVE  SumFunctionOnSet(f, S) = (CHOOSE iter : IsSum(iter, f, S))[S]
BY Zenon DEF SumFunctionOnSet, FoldFunctionOnSet, MapThenFoldSet, IsSum, One

LEMMA OneIsIn == \A s : s # {} => One(s) \in s
BY Zenon DEF One

\* The sum is of the values at the elements of the set.
LEMMA SumAgrees ==
  ASSUME NEW f, NEW g, NEW S, \A x \in S : f[x] = g[x]
  PROVE  SumFunctionOnSet(f, S) = SumFunctionOnSet(g, S)
<1>1. ASSUME NEW iter PROVE IsSum(iter, f, S) <=> IsSum(iter, g, S)
  <2>1. \A s \in SUBSET S : s # {} => f[One(s)] = g[One(s)]
    BY OneIsIn
  <2>2. [s \in SUBSET S |-> IF s = {} THEN 0 ELSE f[One(s)] + iter[s \ {One(s)}]] =
        [s \in SUBSET S |-> IF s = {} THEN 0 ELSE g[One(s)] + iter[s \ {One(s)}]]
    BY <2>1
  <2> QED BY <2>2, Zenon DEF IsSum
<1>2. (CHOOSE iter : IsSum(iter, f, S)) = (CHOOSE iter : IsSum(iter, g, S))
  BY <1>1, Zenon
<1> QED BY <1>2, SumIsChosen

\* The same on the subsets of at most n elements.
UpTo(S, n) == {s \in SUBSET S : Cardinality(s) <= n}

IsSumUpTo(iter, f, S, n) ==
  iter = [s \in UpTo(S, n) |-> IF s = {} THEN 0 ELSE f[One(s)] + iter[s \ {One(s)}]]

LEMMA UpToGrows ==
  ASSUME NEW S, IsFiniteSet(S)
  PROVE  /\ \A s \in UpTo(S, 0) : s = {}
         /\ UpTo(S, Cardinality(S)) = SUBSET S
         /\ \A n \in Nat : UpTo(S, n) \subseteq UpTo(S, n + 1)
         /\ \A n \in Nat : \A s \in UpTo(S, n + 1) :
              s # {} => s \ {One(s)} \in UpTo(S, n)
<1>1. ASSUME NEW s \in SUBSET S
      PROVE  /\ IsFiniteSet(s) /\ Cardinality(s) \in Nat
             /\ Cardinality(s) <= Cardinality(S)
             /\ Cardinality(s) = 0 => s = {}
             /\ s # {} => Cardinality(s \ {One(s)}) = Cardinality(s) - 1
  <2>1. IsFiniteSet(s) /\ Cardinality(s) \in Nat /\ Cardinality(s) <= Cardinality(S)
    BY FS_Subset, FS_CardinalityType
  <2>2. Cardinality(s) = 0 => s = {}
    BY <2>1, FS_EmptySet
  <2>3. s # {} => Cardinality(s \ {One(s)}) = Cardinality(s) - 1
    BY <2>1, OneIsIn, FS_RemoveElement
  <2> QED BY <2>1, <2>2, <2>3
<1>2. ASSUME NEW s \in UpTo(S, 0) PROVE s = {}
  <2>1. s \in SUBSET S /\ Cardinality(s) <= 0
    BY DEF UpTo
  <2>2. Cardinality(s) \in Nat /\ (Cardinality(s) = 0 => s = {})
    BY <1>1, <2>1
  <2> QED BY <2>1, <2>2
<1>3. UpTo(S, Cardinality(S)) = SUBSET S
  BY <1>1 DEF UpTo
<1>4. ASSUME NEW n \in Nat
      PROVE  /\ UpTo(S, n) \subseteq UpTo(S, n + 1)
             /\ \A s \in UpTo(S, n + 1) : s # {} => s \ {One(s)} \in UpTo(S, n)
  <2>1. ASSUME NEW s \in UpTo(S, n) PROVE s \in UpTo(S, n + 1)
    <3>1. s \in SUBSET S /\ Cardinality(s) <= n
      BY DEF UpTo
    <3>2. Cardinality(s) \in Nat
      BY <1>1, <3>1
    <3> QED BY <3>1, <3>2 DEF UpTo
  <2>2. ASSUME NEW s \in UpTo(S, n + 1), s # {}
        PROVE  s \ {One(s)} \in UpTo(S, n)
    <3>1. s \in SUBSET S /\ Cardinality(s) <= n + 1
      BY DEF UpTo
    <3>2. Cardinality(s) \in Nat /\ Cardinality(s \ {One(s)}) = Cardinality(s) - 1
      BY <1>1, <2>2, <3>1
    <3> QED BY <3>1, <3>2 DEF UpTo
  <2> QED BY <2>1, <2>2
<1> QED BY <1>2, <1>3, <1>4

LEMMA SumExists ==
  ASSUME NEW f, NEW S, IsFiniteSet(S)
  PROVE  \E iter : IsSum(iter, f, S)
<1> DEFINE T == {n \in Nat : \E iter : IsSumUpTo(iter, f, S, n)}
<1>1. 0 \in T
  <2>1. IsSumUpTo([s \in UpTo(S, 0) |-> 0], f, S, 0)
    BY UpToGrows DEF IsSumUpTo
  <2> QED BY <2>1
<1>2. ASSUME NEW n \in Nat, n \in T PROVE n + 1 \in T
  <2>1. PICK iter : IsSumUpTo(iter, f, S, n)
    BY <1>2
  <2>2. PICK next : next = [s \in UpTo(S, n + 1) |->
          IF s = {} THEN 0 ELSE f[One(s)] + iter[s \ {One(s)}]]
    OBVIOUS
  <2>3. \A s \in UpTo(S, n) : next[s] = iter[s]
    BY <2>1, <2>2, UpToGrows DEF IsSumUpTo
  <2>4. \A s \in UpTo(S, n + 1) : s # {} => s \ {One(s)} \in UpTo(S, n)
    BY UpToGrows
  <2>5. \A s \in UpTo(S, n + 1) : s # {} => next[s \ {One(s)}] = iter[s \ {One(s)}]
    BY <2>3, <2>4
  <2>6. next = [s \in UpTo(S, n + 1) |->
          IF s = {} THEN 0 ELSE f[One(s)] + next[s \ {One(s)}]]
    BY <2>2, <2>5
  <2>7. IsSumUpTo(next, f, S, n + 1)
    BY <2>6 DEF IsSumUpTo
  <2> QED BY <2>7
<1>3. Nat \subseteq T
  <2> HIDE DEF T
  <2> QED BY <1>1, <1>2, EveryNumber
<1>4. PICK iter : IsSumUpTo(iter, f, S, Cardinality(S))
  <2>1. Cardinality(S) \in T
    BY <1>3, FS_CardinalityType
  <2> QED BY <2>1
<1>5. UpTo(S, Cardinality(S)) = SUBSET S
  BY UpToGrows
<1>6. IsSum(iter, f, S)
  BY <1>4, <1>5, Zenon DEF IsSum, IsSumUpTo
<1> QED BY <1>6

\* The same subset has the same sum whatever set it is taken from.
LEMMA SumsAgree ==
  ASSUME NEW f, NEW S, IsFiniteSet(S), NEW R \in SUBSET S,
         NEW t, IsSum(t, f, S), NEW u, IsSum(u, f, R)
  PROVE  t[R] = u[R]
<1> DEFINE F == {s \in SUBSET R : t[s] = u[s]}
<1>1. ASSUME NEW s \in SUBSET R, \A x \in s : s \ {x} \in F PROVE s \in F
  <2>1. s \in SUBSET S
    OBVIOUS
  <2>2. /\ t[s] = IF s = {} THEN 0 ELSE f[One(s)] + t[s \ {One(s)}]
        /\ u[s] = IF s = {} THEN 0 ELSE f[One(s)] + u[s \ {One(s)}]
    BY <2>1 DEF IsSum
  <2>3. s # {} => t[s \ {One(s)}] = u[s \ {One(s)}]
    BY <1>1, OneIsIn
  <2> QED BY <2>2, <2>3
<1>2. IsFiniteSet(R)
  BY FS_Subset
<1>3. SUBSET R \subseteq F
  <2> HIDE DEF F
  <2> QED BY <1>1, <1>2, EverySubset
<1> QED BY <1>3

LEMMA SumEmpty == \A f : SumFunctionOnSet(f, {}) = 0
<1>1. ASSUME NEW f PROVE SumFunctionOnSet(f, {}) = 0
  <2>1. IsFiniteSet({})
    BY FS_EmptySet
  <2>2. IsSum(CHOOSE iter : IsSum(iter, f, {}), f, {})
    BY <2>1, SumExists, Zenon
  <2> QED BY <2>2, SumIsChosen DEF IsSum
<1> QED BY <1>1

LEMMA SumStep ==
  ASSUME NEW f, NEW S, IsFiniteSet(S), S # {}
  PROVE  SumFunctionOnSet(f, S) = f[One(S)] + SumFunctionOnSet(f, S \ {One(S)})
<1>1. PICK R \in SUBSET S : R = S \ {One(S)}
  OBVIOUS
<1>2. PICK t : t = CHOOSE iter : IsSum(iter, f, S)
  OBVIOUS
<1>3. PICK u : u = CHOOSE iter : IsSum(iter, f, R)
  OBVIOUS
<1>4. IsSum(t, f, S) /\ IsSum(u, f, R)
  BY <1>2, <1>3, SumExists, FS_Subset, Zenon
<1>5. t[R] = u[R]
  BY <1>4, SumsAgree
<1>6. t[S] = f[One(S)] + t[R]
  BY <1>1, <1>4 DEF IsSum
<1> QED BY <1>1, <1>2, <1>3, <1>5, <1>6, SumIsChosen

\* A sum is in every set of numbers that is closed under addition and holds what is
\* added, and any element may be taken first.
LEMMA SumTakesIn ==
  ASSUME NEW N \in SUBSET Int, 0 \in N, \A a, b \in N : a + b \in N,
         NEW f, NEW S, IsFiniteSet(S), \A x \in S : f[x] \in N
  PROVE  /\ SumFunctionOnSet(f, S) \in N
         /\ \A x \in S :
              SumFunctionOnSet(f, S) = f[x] + SumFunctionOnSet(f, S \ {x})
<1> DEFINE F == {s \in SUBSET S :
                   /\ \A r \in SUBSET s : SumFunctionOnSet(f, r) \in N
                   /\ \A x \in s :
                        SumFunctionOnSet(f, s) = f[x] + SumFunctionOnSet(f, s \ {x})}
<1>1. ASSUME NEW s \in SUBSET S, \A x \in s : s \ {x} \in F PROVE s \in F
  <2>1. CASE s = {}
    BY <2>1, SumEmpty
  <2>2. CASE s # {}
    <3>1. PICK y \in s : y = One(s)
      BY <2>2, OneIsIn
    <3>2. IsFiniteSet(s)
      BY FS_Subset
    <3>3. SumFunctionOnSet(f, s) = f[y] + SumFunctionOnSet(f, s \ {y})
      BY <2>2, <3>1, <3>2, SumStep
    <3>4. SumFunctionOnSet(f, s \ {y}) \in N /\ f[y] \in N
      BY <1>1
    <3>5. ASSUME NEW x \in s, x # y
          PROVE  SumFunctionOnSet(f, s) = f[x] + SumFunctionOnSet(f, s \ {x})
      <4>1. PICK rest : rest = (s \ {y}) \ {x}
        OBVIOUS
      <4>2. SumFunctionOnSet(f, s \ {y}) = f[x] + SumFunctionOnSet(f, rest)
        BY <1>1, <3>5, <4>1
      <4>3. rest = (s \ {x}) \ {y}
        BY <4>1
      <4>4. SumFunctionOnSet(f, s \ {x}) = f[y] + SumFunctionOnSet(f, rest)
        BY <1>1, <3>5, <4>3
      <4>5. SumFunctionOnSet(f, rest) \in N /\ f[x] \in N
        BY <1>1, <4>1
      <4>6. /\ SumFunctionOnSet(f, rest) \in Int /\ f[x] \in Int /\ f[y] \in Int
        BY <3>4, <4>5
      <4> QED BY <3>3, <4>2, <4>4, <4>6
    <3>6. ASSUME NEW r \in SUBSET s PROVE SumFunctionOnSet(f, r) \in N
      <4>1. CASE r = s
        BY <3>3, <3>4, <4>1
      <4>2. CASE r # s
        <5>1. PICK x \in s : x \notin r
          BY <4>2
        <5>2. r \in SUBSET (s \ {x}) /\ s \ {x} \in F
          BY <1>1, <5>1
        <5> QED BY <5>2
      <4> QED BY <4>1, <4>2
    <3> QED BY <3>3, <3>5, <3>6
  <2> QED BY <2>1, <2>2
<1>2. SUBSET S \subseteq F
  <2> HIDE DEF F
  <2> QED BY <1>1, EverySubset
<1> QED BY <1>2

\* A sum of natural numbers is one.
LEMMA SumTakes ==
  ASSUME NEW f, NEW S, IsFiniteSet(S), \A x \in S : f[x] \in Nat
  PROVE  /\ SumFunctionOnSet(f, S) \in Nat
         /\ \A x \in S :
              SumFunctionOnSet(f, S) = f[x] + SumFunctionOnSet(f, S \ {x})
<1>1. PICK N : N = Nat
  OBVIOUS
<1>2. N \in SUBSET Int /\ 0 \in N /\ \A a, b \in N : a + b \in N
  BY <1>1
<1>3. \A x \in S : f[x] \in N
  BY <1>1
<1>4. /\ SumFunctionOnSet(f, S) \in N
      /\ \A x \in S : SumFunctionOnSet(f, S) = f[x] + SumFunctionOnSet(f, S \ {x})
  BY <1>2, <1>3, SumTakesIn
<1> QED BY <1>1, <1>4

\* A sum is that over a part and that over the rest.
LEMMA SumSplits ==
  ASSUME NEW f, NEW S, IsFiniteSet(S), \A x \in S : f[x] \in Nat,
         NEW R \in SUBSET S
  PROVE  SumFunctionOnSet(f, S) = SumFunctionOnSet(f, R) + SumFunctionOnSet(f, S \ R)
<1> DEFINE F == {Q \in SUBSET S : SumFunctionOnSet(f, S) =
                                 SumFunctionOnSet(f, Q) + SumFunctionOnSet(f, S \ Q)}
<1>1. \A Q \in SUBSET S : /\ SumFunctionOnSet(f, Q) \in Nat
                          /\ \A x \in Q : SumFunctionOnSet(f, Q)
                                         = f[x] + SumFunctionOnSet(f, Q \ {x})
  BY FS_Subset, SumTakes
<1>2. ASSUME NEW Q \in SUBSET S, \A x \in Q : Q \ {x} \in F PROVE Q \in F
  <2>1. CASE Q = {}
    <3>1. S \ Q = S /\ SumFunctionOnSet(f, Q) = 0 /\ SumFunctionOnSet(f, S) \in Nat
      BY <1>1, <2>1, SumEmpty
    <3> QED BY <3>1
  <2>2. CASE Q # {}
    <3>1. PICK x \in Q : TRUE
      BY <2>2
    <3>2. PICK less, more, rest :
            less = Q \ {x} /\ more = S \ (Q \ {x}) /\ rest = S \ Q
      OBVIOUS
    <3>3. less \in SUBSET S /\ more \in SUBSET S /\ x \in more /\ more \ {x} = rest
      BY <3>1, <3>2
    <3>4. SumFunctionOnSet(f, S) = SumFunctionOnSet(f, less) + SumFunctionOnSet(f, more)
      BY <1>2, <3>1, <3>2
    <3>5. /\ SumFunctionOnSet(f, Q) = f[x] + SumFunctionOnSet(f, less)
          /\ SumFunctionOnSet(f, more) = f[x] + SumFunctionOnSet(f, rest)
          /\ rest \in SUBSET S
      BY <1>1, <3>1, <3>2, <3>3
    <3>6. /\ f[x] \in Nat /\ SumFunctionOnSet(f, less) \in Nat
          /\ SumFunctionOnSet(f, rest) \in Nat
      BY <1>1, <3>1, <3>3, <3>5
    <3>7. SumFunctionOnSet(f, S) = SumFunctionOnSet(f, Q) + SumFunctionOnSet(f, rest)
      BY <3>4, <3>5, <3>6
    <3> QED BY <3>2, <3>7
  <2> QED BY <2>1, <2>2
<1>3. SUBSET S \subseteq F
  <2> HIDE DEF F
  <2> QED BY <1>2, EverySubset
<1> QED BY <1>3

\* A sum of positive numbers is positive, unless it is empty, and a part of it with the
\* same sum is all of it.
LEMMA SumPositive ==
  ASSUME NEW f, NEW S, IsFiniteSet(S), \A x \in S : f[x] \in Nat \ {0}
  PROVE  /\ SumFunctionOnSet(f, S) \in Nat
         /\ S # {} => SumFunctionOnSet(f, S) # 0
         /\ \A R \in SUBSET S :
              /\ SumFunctionOnSet(f, R) \in Nat
              /\ SumFunctionOnSet(f, R) = SumFunctionOnSet(f, S) => R = S
<1>1. ASSUME NEW R \in SUBSET S
      PROVE  /\ SumFunctionOnSet(f, R) \in Nat
             /\ R # {} => SumFunctionOnSet(f, R) # 0
  <2>1. IsFiniteSet(R) /\ \A x \in R : f[x] \in Nat /\ f[x] # 0
    BY FS_Subset
  <2>2. SumFunctionOnSet(f, R) \in Nat
    BY <2>1, SumTakes
  <2>3. ASSUME NEW x \in R PROVE SumFunctionOnSet(f, R) # 0
    <3>1. PICK rest : rest = R \ {x}
      OBVIOUS
    <3>2. IsFiniteSet(rest) /\ \A y \in rest : f[y] \in Nat
      BY <2>1, <3>1, FS_Subset, rest \subseteq R
    <3>3. SumFunctionOnSet(f, rest) \in Nat
      BY <3>2, SumTakes
    <3>4. SumFunctionOnSet(f, R) = f[x] + SumFunctionOnSet(f, rest)
      BY <2>1, <3>1, SumTakes
    <3> QED BY <2>1, <3>3, <3>4
  <2> QED BY <2>2, <2>3
<1>2. ASSUME NEW R \in SUBSET S, SumFunctionOnSet(f, R) = SumFunctionOnSet(f, S)
      PROVE  R = S
  <2>1. SumFunctionOnSet(f, S) = SumFunctionOnSet(f, R) + SumFunctionOnSet(f, S \ R)
    BY SumSplits
  <2>2. SumFunctionOnSet(f, R) \in Nat /\ SumFunctionOnSet(f, S \ R) \in Nat
    BY <1>1
  <2>3. SumFunctionOnSet(f, S \ R) = 0
    BY <1>2, <2>1, <2>2
  <2>4. S \ R = {}
    BY <1>1, <2>3
  <2> QED BY <2>4
<1> QED BY <1>1, <1>2

\* A multiple divided is what it is a multiple by.
LEMMA MultipleDivided ==
  ASSUME NEW k \in Nat \ {0}, NEW q \in Int
  PROVE  (k * q) \div k = q /\ ((k * q) \div k) * k = k * q
OBVIOUS

\* The sum of multiples is one.
Multiples(k) == {k * q : q \in Int}

LEMMA SumOfMultiples ==
  ASSUME NEW k \in Nat \ {0}, NEW f, NEW S, IsFiniteSet(S),
         \A x \in S : f[x] \in Multiples(k)
  PROVE  SumFunctionOnSet(f, S) \in Multiples(k)
<1>1. Multiples(k) \in SUBSET Int
  BY DEF Multiples
<1>2. 0 \in Multiples(k)
  BY k * 0 = 0 DEF Multiples
<1>3. ASSUME NEW a \in Multiples(k), NEW b \in Multiples(k)
      PROVE  a + b \in Multiples(k)
  <2>1. PICK p \in Int, q \in Int : a = k * p /\ b = k * q
    BY DEF Multiples
  <2>2. a + b = k * (p + q) /\ p + q \in Int
    BY <2>1
  <2> QED BY <2>2 DEF Multiples
<1>4. PICK N : N = Multiples(k)
  OBVIOUS
<1> QED BY <1>1, <1>2, <1>3, <1>4, SumTakesIn
=============================================================================
