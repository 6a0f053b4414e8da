---------------------------- MODULE SequenceLemmas ----------------------------
(***************************************************************************)
(* Numbers and sequences: induction over the numbers, in a form the        *)
(* provers can use, what it says of the recursive operator that puts       *)
(* sequences together, and what a division is between.                     *)
(*                                                                         *)
(* The induction theorems of the library take a predicate as a parameter,  *)
(* which no prover here can instantiate.  Here the predicate is a set.     *)
(***************************************************************************)
EXTENDS Integers, Sequences, SequencesExt, FiniteSetTheorems,
        SequenceTheorems, WellFoundedInduction, TLAPS

-----------------------------------------------------------------------------
\* Every set of numbers has a least element: the intervals below its elements are
\* finite sets, which strict inclusion orders well.
LEMMA Least ==
  ASSUME NEW T \in SUBSET Nat, T # {}
  PROVE \E n \in T : \A m \in T : n <= m
<1> DEFINE below(n) == 0..(n - 1)
           R == StrictSubsetOrdering(Nat)
           B == {below(n) : n \in T}
<1>1. IsWellFoundedOn(R, FiniteSubsetsOf(Nat))
  BY FS_StrictSubsetOrderingWellFounded
<1>2. \A n \in Nat : below(n) \subseteq Nat /\ IsFiniteSet(below(n))
  BY FS_Interval
<1>3. B \subseteq FiniteSubsetsOf(Nat) /\ B # {}
  BY <1>2 DEF FiniteSubsetsOf
<1>4. \E x \in B : \A y \in B : ~ (<<y, x>> \in R)
  <2> HIDE DEF R, B
  <2> QED BY <1>1, <1>3, WFMin
<1>5. PICK n \in T : \A m \in T : ~ (<<below(m), below(n)>> \in R)
  BY <1>4
<1>6. \A m \in T : n <= m
  <2>1. SUFFICES ASSUME NEW m \in T, m < n PROVE FALSE
    OBVIOUS
  <2>2. below(m) \subseteq below(n) /\ m \in below(n) /\ m \notin below(m)
    BY <2>1
  <2>3. <<below(m), below(n)>> \in R
    BY <2>2, <1>2 DEF StrictSubsetOrdering
  <2>4. QED BY <2>3, <1>5
<1> QED BY <1>6

\* Induction: what holds 0 and the successor of each of its numbers holds them all.
LEMMA Induct ==
  ASSUME NEW S, 0 \in S, \A n \in Nat : n \in S => n + 1 \in S
  PROVE  Nat \subseteq S
<1>1. SUFFICES ASSUME Nat \ S # {} PROVE FALSE
  OBVIOUS
<1>2. PICK n \in Nat \ S : \A m \in Nat \ S : n <= m
  BY <1>1, Least
<1>3. n # 0 /\ n - 1 \in Nat /\ n - 1 \in S
  BY <1>2
<1>4. QED BY <1>2, <1>3

\* What the quotient of a division is between.
LEMMA Quotient ==
  ASSUME NEW a \in Int, NEW c \in Nat \ {0}
  PROVE  /\ a \div c \in Int
         /\ (a \div c) * c <= a
         /\ a < (a \div c) * c + c
OBVIOUS

\* A product of positive numbers grows with each of them.
LEMMA Products ==
  ASSUME NEW a \in Int, NEW b \in Int, NEW c \in Nat \ {0}, a * c < b * c
  PROVE  a < b
OBVIOUS

-----------------------------------------------------------------------------
\* The recursive function by which FlattenSeq is defined exists.
LEMMA FlattenSeqIs ==
  ASSUME NEW S, NEW s \in Seq(S), s # <<>>
  PROVE  \E f : /\ f = [i \in 1..Len(s) |-> IF i = 1 THEN s[i] ELSE f[i-1] \o s[i]]
                /\ FlattenSeq(s) = f[Len(s)]
<1> DEFINE ext(k, g) == g = [i \in 1..k |-> IF i = 1 THEN s[i] ELSE g[i-1] \o s[i]]
           F == CHOOSE g : ext(Len(s), g)
           D == {k \in Nat : \E g : ext(k, g)}
<1>1. 0 \in D
  <2>1. ext(0, [i \in 1..0 |-> 0])
     OBVIOUS
  <2> QED BY <2>1
<1>2. ASSUME NEW k \in Nat, k \in D PROVE k + 1 \in D
  <2>1. \E g : ext(k, g)
    BY <1>2
  <2>2. PICK g : ext(k, g)
    BY <2>1, Zenon
  <2> DEFINE h == [i \in 1..(k+1) |-> IF i <= k THEN g[i] ELSE IF i = 1 THEN s[i] ELSE g[k] \o s[k+1]]
  <2>3. ASSUME NEW i \in 1..(k+1) PROVE h[i] = IF i = 1 THEN s[i] ELSE h[i-1] \o s[i]
      <4>0. \A j \in 1..k : g[j] = IF j = 1 THEN s[j] ELSE g[j-1] \o s[j]
        <5> DEFINE e(j) == IF j = 1 THEN s[j] ELSE g[j-1] \o s[j]
        <5>1. g = [j \in 1..k |-> e(j)]
          BY <2>2
        <5> HIDE DEF e
        <5>2. \A j \in 1..k : g[j] = e(j)
          BY <5>1
        <5> QED BY <5>2 DEF e
      <4>1. CASE i <= k 
        <5>1. h[i] = g[i] /\ (i # 1 => h[i-1] = g[i-1])
          BY <4>1
        <5>2. g[i] = IF i = 1 THEN s[i] ELSE g[i-1] \o s[i]
          BY <4>0, <4>1
        <5> HIDE DEF h
        <5> QED BY <5>1, <5>2
      <4>2. CASE i = k+1
        BY <4>2
      <4> QED BY <4>1, <4>2
  <2>4. ext(k + 1, h)
    <3> DEFINE e(j) == IF j = 1 THEN s[j] ELSE h[j-1] \o s[j]
    <3>1. \A i \in 1..(k+1) : h[i] = e(i)
      BY <2>3
    <3>2. h = [i \in 1..(k+1) |-> h[i]]
      OBVIOUS
    <3>3. h = [i \in 1..(k+1) |-> e(i)]
      <4> HIDE DEF e, h
      <4> QED BY <3>1, <3>2
    <3> HIDE DEF h
    <3> QED BY <3>3
  <2>5. \E f : ext(k + 1, f)
    <3> HIDE DEF ext, h
    <3> QED BY <2>4, Zenon
  <2> HIDE DEF ext
  <2> QED BY <2>5
<1>3. \E g : ext(Len(s), g)
  <2> HIDE DEF ext
  <2>1. Nat \subseteq D
    <3> HIDE DEF D
    <3> QED BY <1>1, <1>2, Induct
  <2>2. Len(s) \in Nat
    OBVIOUS
  <2> QED BY <2>1, <2>2
<1>4. ext(Len(s), F)
  <2> HIDE DEF ext
  <2> QED BY <1>3, Zenon
<1>5. FlattenSeq(s) = F[Len(s)]
  <2>1. Len(s) # 0
    OBVIOUS
  <2> QED BY <2>1, Zenon DEF FlattenSeq
<1> HIDE DEF F
<1> QED BY <1>4, <1>5, Zenon

\* FlattenSeq puts sequences together to a sequence.
LEMMA FlattenSeqType ==
  ASSUME NEW S, NEW s \in Seq(Seq(S))
  PROVE  FlattenSeq(s) \in Seq(S)
<1>1. CASE s = <<>>
  <2>1. FlattenSeq(s) = s
    BY <1>1, Zenon, Len(s) = 0 DEF FlattenSeq
  <2>2. <<>> \in Seq(S)
    OBVIOUS
  <2>3. QED
    BY <1>1, <2>1, <2>2, Zenon
<1>2. CASE s # <<>>
  <2> DEFINE step(f, i) == IF i = 1 THEN s[i] ELSE f[i-1] \o s[i]
  <2>1. PICK f : /\ f = [i \in 1..Len(s) |-> step(f, i)]
                 /\ FlattenSeq(s) = f[Len(s)]
    BY <1>2, FlattenSeqIs, Zenon
  <2>2. \A i \in 1..Len(s) : f[i] = step(f, i)
    <3> HIDE DEF step
    <3>1. QED
      BY <2>1
  <2> DEFINE D == {k \in Nat : k \in 1..Len(s) => f[k] \in Seq(S)}
  <2>3. 0 \in D
    OBVIOUS
  <2>4. ASSUME NEW k \in Nat, k \in D
        PROVE  k + 1 \in D
    <3>1. SUFFICES ASSUME k + 1 \in 1..Len(s)
                   PROVE  f[k + 1] \in Seq(S)
      OBVIOUS
    <3>2. f[k + 1] = IF k = 0 THEN s[1] ELSE f[k] \o s[k + 1]
      BY <2>2, <3>1
    <3>3. s[k + 1] \in Seq(S) /\ (k # 0 => f[k] \in Seq(S))
      BY <2>4, <3>1
    <3>4. QED
      BY <3>2, <3>3
  <2>5. Nat \subseteq D
    <3> HIDE DEF D
    <3>1. QED
      BY <2>3, <2>4, Induct
  <2>6. Len(s) \in D /\ Len(s) \in 1..Len(s)
    BY <1>2, <2>5
  <2>7. QED
    BY <2>1, <2>6
<1>3. QED
  BY <1>1, <1>2

\* Put together, n sequences of the same element are n times that element.
LEMMA FlattenSingles ==
  ASSUME NEW S, NEW x \in S, NEW n \in Nat,
         NEW s \in Seq(Seq(S)), Len(s) = n, \A i \in 1..n : s[i] = <<x>>
  PROVE  FlattenSeq(s) = [i \in 1..n |-> x]
<1>1. CASE n = 0
  <2>1. FlattenSeq(s) = s
    BY <1>1, Zenon DEF FlattenSeq
  <2>2. QED
    BY <1>1, <2>1
<1>2. CASE n # 0
  <2> DEFINE step(f, i) == IF i = 1 THEN s[i] ELSE f[i-1] \o s[i]
  <2>0. s # <<>>
    BY <1>2
  <2>1. PICK f : /\ f = [i \in 1..Len(s) |-> step(f, i)]
                 /\ FlattenSeq(s) = f[Len(s)]
    BY <2>0, FlattenSeqIs, Zenon
  <2>2. \A i \in 1..n : f[i] = step(f, i)
    <3> HIDE DEF step
    <3>1. QED
      BY <2>1
  <2> DEFINE D == {k \in Nat : k \in 1..n => f[k] = [i \in 1..k |-> x]}
  <2>3. 0 \in D
    OBVIOUS
  <2>4. ASSUME NEW k \in Nat, k \in D
        PROVE  k + 1 \in D
    <3>1. SUFFICES ASSUME k + 1 \in 1..n
                   PROVE  f[k + 1] = [i \in 1..(k + 1) |-> x]
      OBVIOUS
    <3>2. f[k + 1] = IF k = 0 THEN <<x>> ELSE f[k] \o <<x>>
      BY <2>2, <3>1
    <3>3. k # 0 => f[k] = [i \in 1..k |-> x]
      BY <2>4, <3>1
    <3>4. CASE k = 0
      BY <3>2, <3>4
    <3>5. CASE k # 0
      <4> DEFINE e == [i \in 1..k |-> x]
      <4>1. e \in Seq(S) /\ Len(e) = k /\ \A i \in 1..k : e[i] = x
        OBVIOUS
      <4>2. e \o <<x>> = [i \in 1..(k + 1) |-> IF i <= k THEN e[i] ELSE x]
        <5> HIDE DEF e
        <5>1. QED
          BY <4>1, SMTT(30)
      <4>3. QED
        BY <3>2, <3>3, <3>5, <4>1, <4>2
    <3>6. QED
      BY <3>4, <3>5
  <2>5. Nat \subseteq D
    <3> HIDE DEF D
    <3>1. QED
      BY <2>3, <2>4, Induct
  <2>6. n \in D /\ n \in 1..n
    BY <1>2, <2>5
  <2>7. QED
    BY <2>1, <2>6
<1>3. QED
  BY <1>1, <1>2

\* The elements of t after the first j, each taken or left out on its own.
LEMMA FlattenRest ==
  ASSUME NEW S, NEW t \in Seq(S), NEW j \in 0..Len(t),
         NEW s \in Seq(Seq(S)), Len(s) = Len(t),
         \A i \in 1..Len(t) : s[i] = IF i > j THEN <<t[i]>> ELSE <<>>
  PROVE  FlattenSeq(s) = SubSeq(t, j + 1, Len(t))
<1> DEFINE n == Len(t)
<1>0. n \in Nat /\ j \in Nat /\ \A i \in 1..n : t[i] \in S
  OBVIOUS
<1>1. CASE n = 0
  <2>1. FlattenSeq(s) = s
    BY <1>1, Zenon DEF FlattenSeq
  <2>2. s = <<>> /\ SubSeq(t, j + 1, n) = <<>>
    BY <1>1
  <2>3. QED
    BY <2>1, <2>2
<1>2. CASE n # 0
  <2> DEFINE step(f, i) == IF i = 1 THEN s[i] ELSE f[i-1] \o s[i]
             part(i) == SubSeq(t, j + 1, i)
  <2>0. s # <<>>
    BY <1>0, <1>2
  <2>1. PICK f : /\ f = [i \in 1..Len(s) |-> step(f, i)]
                 /\ FlattenSeq(s) = f[Len(s)]
    BY <2>0, FlattenSeqIs, Zenon
  <2>2. \A i \in 1..n : f[i] = step(f, i)
    <3> HIDE DEF step
    <3>1. QED
      BY <2>1
  <2> DEFINE D == {k \in Nat : k \in 1..n => f[k] = part(k)}
  <2>3. 0 \in D
    OBVIOUS
  <2>4. ASSUME NEW k \in Nat, k \in D
        PROVE  k + 1 \in D
    <3>1. SUFFICES ASSUME k + 1 \in 1..n
                   PROVE  f[k + 1] = part(k + 1)
      BY SMTT(30)
    <3>2. f[k + 1] = IF k = 0 THEN s[1] ELSE f[k] \o s[k + 1]
      BY <2>2, <3>1
    <3>3. s[k + 1] = IF k + 1 > j THEN <<t[k + 1]>> ELSE <<>>
      BY <3>1
    <3>4. CASE k = 0
      <4>1. f[1] = IF j = 0 THEN <<t[1]>> ELSE <<>>
        BY <1>0, <3>2, <3>3, <3>4
      <4>2. part(1) = IF j = 0 THEN <<t[1]>> ELSE <<>>
        <5>1. CASE j = 0
          <6>1. SubSeq(t, 1, 1) = SubSeq(t, 1, 0) \o <<t[1]>> /\ SubSeq(t, 1, 0) = <<>>
            BY <1>0, <1>2, SubSeqRecursiveSecond, SubSeqEmpty
          <6>2. <<>> \o <<t[1]>> = <<t[1]>>
            OBVIOUS
          <6>3. SubSeq(t, 1, 1) = <<t[1]>>
            BY <6>1, <6>2, Zenon
          <6>4. j + 1 = 1
            BY <5>1
          <6>5. QED
            BY <5>1, <6>3, <6>4, Zenon
        <5>2. CASE j # 0
          BY <1>0, <5>2, SubSeqEmpty
        <5>3. QED
          BY <5>1, <5>2
      <4>3. QED
        BY <3>4, <4>1, <4>2, SMTT(30)
    <3>5. CASE k # 0 /\ k + 1 <= j
      <4>1. f[k] = part(k)
        BY <2>4, <3>1, <3>5
      <4>2. part(k) = <<>> /\ part(k + 1) = <<>>
        BY <1>0, <3>1, <3>5
      <4>3. f[k + 1] = f[k] \o <<>>
        <5>1. ~(k + 1 > j)
          BY <1>0, <3>5
        <5>2. QED
          BY <3>2, <3>3, <3>5, <5>1
      <4>4. <<>> \o <<>> = <<>>
        OBVIOUS
      <4>5. QED
        BY <4>1, <4>2, <4>3, <4>4
    <3>6. CASE k # 0 /\ k + 1 > j
      <4>1. f[k] = part(k)
        BY <2>4, <3>1, <3>6
      <4>2. f[k + 1] = part(k) \o <<t[k + 1]>>
        BY <3>2, <3>3, <3>6, <4>1
      <4>3. part(k + 1) = part(k) \o <<t[k + 1]>>
        <5>1. j + 1 \in 1..n /\ k + 1 \in (j + 1)..n /\ (k + 1) - 1 = k
          BY <1>0, <3>1, <3>6
        <5>2. QED
          BY <5>1, SubSeqRecursiveSecond
      <4>4. QED
        BY <4>2, <4>3
    <3>7. QED
      BY <3>4, <3>5, <3>6
  <2>5. Nat \subseteq D
    <3> HIDE DEF D
    <3>1. QED
      BY <2>3, <2>4, Induct
  <2>6. n \in D /\ n \in 1..n
    BY <1>0, <1>2, <2>5
  <2>7. QED
    BY <2>1, <2>6
<1>3. QED
  BY <1>1, <1>2
=============================================================================
