----------------------------- MODULE DataLemmas -----------------------------
(***************************************************************************)
(* What the proofs of several components need of their data: induction     *)
(* over natural numbers, positions and finite sets, what Select returns,   *)
(* paths and their beginnings, and trees.                                  *)
(*                                                                         *)
(* The induction theorems of the library take an operator, which no prover *)
(* here can instantiate, so induction is stated for sets: a set of natural *)
(* numbers that is not empty has a least member (LeastNatural), hence one  *)
(* that holds 0 and with every number the next holds all of them.          *)
(***************************************************************************)
EXTENDS Trees, Selection, Texts, SequenceTheorems, FiniteSetTheorems, WellFoundedInduction, TLAPS

-----------------------------------------------------------------------------
(***************************************************************************)
(* Induction.                                                              *)
(***************************************************************************)

NatLess == {ss \in Nat \X Nat : ss[1] < ss[2]}
LEMMA NatLessIsLess == OpToRel(<, Nat) = NatLess
BY DEF OpToRel, NatLess
LEMMA NatLessIsWellFounded == IsWellFoundedOn(NatLess, Nat)
BY NatLessIsLess, NatLessThanWellFounded, Zenon

LEMMA LeastNatural ==
  ASSUME NEW T \in SUBSET Nat, T # {}
  PROVE \E m \in T : \A k \in T : m <= k
<1>1. PICK m \in T : \A y \in T : ~(<<y, m>> \in NatLess)
  BY WFMin, NatLessIsWellFounded
<1>2. \A a, b \in Nat : a < b => <<a, b>> \in NatLess
  BY DEF NatLess
<1>3. \A k \in T : ~(k < m)
  BY <1>1, <1>2, Zenon
<1> QED BY <1>3

LEMMA InductionOverNat ==
  ASSUME NEW S, 0 \in S, \A n \in Nat : n \in S => n + 1 \in S
  PROVE Nat \subseteq S
<1>1. SUFFICES ASSUME NEW k \in Nat, k \notin S PROVE FALSE
  OBVIOUS
<1>2. PICK m \in Nat \ S : \A j \in Nat \ S : m <= j
  BY <1>1, LeastNatural
<1>3. m # 0
  OBVIOUS
<1>4. m - 1 \in Nat /\ m - 1 \in S
  BY <1>2, <1>3
<1> QED BY <1>4

LEMMA InductionUpTo ==
  ASSUME NEW n \in Nat, NEW S, 0 \in S, \A i \in 0..(n - 1) : i \in S => i + 1 \in S
  PROVE 0..n \subseteq S
<1> DEFINE T == {i \in Nat : i <= n => i \in S}
<1>1. 0 \in T /\ \A i \in Nat : i \in T => i + 1 \in T
  OBVIOUS
<1> HIDE DEF T
<1>2. Nat \subseteq T
  BY <1>1, InductionOverNat
<1> QED BY <1>2 DEF T

\* Among the positions of a sequence that have a property there is a last one.
LEMMA LastPosition ==
  ASSUME NEW n \in Nat, NEW T \in SUBSET (1..n), T # {}
  PROVE \E m \in T : \A k \in T : k <= m
<1> DEFINE U == {n - k : k \in T}
<1>1. U \in SUBSET Nat /\ U # {}
  <2>1. \A k \in T : n - k \in Nat
    OBVIOUS
  <2>2. PICK k \in T : TRUE
    OBVIOUS
  <2>3. n - k \in U
    OBVIOUS
  <2> QED BY <2>1, <2>3
<1>2. PICK u \in U : \A v \in U : u <= v
  <2> HIDE DEF U
  <2> QED BY <1>1, LeastNatural
<1>3. PICK m \in T : u = n - m
  BY <1>2
<1>4. ASSUME NEW k \in T PROVE k <= m
  <2>1. n - k \in U
    OBVIOUS
  <2>2. n - m <= n - k
    BY <1>2, <1>3, <2>1
  <2> QED BY <2>2
<1> QED BY <1>4

\* What holds for the empty set, and for a set if it does without any one of its
\* members, holds for every finite set.
LEMMA OneByOne ==
  ASSUME NEW B, IsFiniteSet(B), NEW Good, {} \in Good,
         \A T \in SUBSET B : T # {} /\ (\A y \in T : T \ {y} \in Good) => T \in Good
  PROVE  SUBSET B \subseteq Good
<1> DEFINE S == {n \in Nat : \A T \in SUBSET B : Cardinality(T) = n => T \in Good}
<1>1. \A T \in SUBSET B : IsFiniteSet(T) /\ Cardinality(T) \in Nat /\ (Cardinality(T) = 0 <=> T = {})
  BY FS_Subset, FS_CardinalityType, FS_EmptySet
<1>2. 0 \in S
  BY <1>1
<1>3. ASSUME NEW n \in Nat, n \in S
      PROVE  n + 1 \in S
  <2>1. SUFFICES ASSUME NEW T \in SUBSET B, Cardinality(T) = n + 1
                 PROVE  T \in Good
    OBVIOUS
  <2>2. T # {}
    BY <1>1, <2>1
  <2>3. ASSUME NEW y \in T
        PROVE  T \ {y} \in Good
    <3>1. T \ {y} \in SUBSET B /\ Cardinality(T \ {y}) = Cardinality(T) - 1
      BY <1>1, FS_RemoveElement
    <3>2. Cardinality(T \ {y}) = n
      BY <2>1, <3>1
    <3> QED BY <1>3, <3>1, <3>2
  <2> QED BY <2>2, <2>3
<1>4. Nat \subseteq S
  <2> HIDE DEF S
  <2> QED BY <1>2, <1>3, InductionOverNat
<1> QED BY <1>1, <1>4

-----------------------------------------------------------------------------
(***************************************************************************)
(* Select.                                                                 *)
(***************************************************************************)

\* "at" says which position of s each member of t comes from.
PickedAt(at, t, s, S) ==
  /\ at \in [1..Len(t) -> 1..Len(s)]
  /\ \A j \in 1..Len(t) : t[j] = s[at[j]]
  /\ \A h, j \in 1..Len(t) : h < j => at[h] < at[j]
  /\ \A k \in 1..Len(s) : s[k] \in S => \E j \in 1..Len(t) : at[j] = k

\* What is selected of a sequence are its members that lie in the set, each
\* position once and in their order: so no line of a file is lost or doubled
\* when the lines of one key are dropped.
THEOREM SelectPicks ==
  ASSUME NEW A, NEW s \in Seq(A), NEW S
  PROVE /\ Select(s, S) \in Seq(A \cap S)
        /\ \E at : PickedAt(at, Select(s, S), s, S)
<1> DEFINE Next(f, i) == IF s[i] \in S THEN Append(f[i - 1], s[i]) ELSE f[i - 1]
<1> DEFINE Def(f) == [i \in 0..Len(s) |-> IF i = 0 THEN <<>> ELSE Next(f, i)]
<1> DEFINE P == CHOOSE f : f = Def(f)
<1> DEFINE Upto(n) == \E f \in [0..n -> Seq(A)] : f[0] = <<>> /\ \A i \in 1..n : f[i] = Next(f, i)
<1>0. Len(s) \in Nat /\ \A i \in 1..Len(s) : s[i] \in A
  OBVIOUS
<1>1. Select(s, S) = P[Len(s)]
  BY DEF Select
<1>2. Upto(Len(s))
  <2> DEFINE N == {n \in Nat : n <= Len(s) => Upto(n)}
  <2>1. 0 \in N
    <3>1. [i \in 0..0 |-> <<>>] \in [0..0 -> Seq(A)]
      BY EmptySeq
    <3>2. Upto(0)
      <4> DEFINE f == [i \in 0..0 |-> <<>>]
      <4>1. f[0] = <<>> /\ \A i \in 1..0 : f[i] = Next(f, i)
        OBVIOUS
      <4> HIDE DEF f, Next
      <4> QED BY <3>1, <4>1 DEF f
    <3> QED BY <3>2
  <2>2. ASSUME NEW n \in Nat, n \in N PROVE n + 1 \in N
    <3>1. SUFFICES ASSUME n + 1 <= Len(s) PROVE Upto(n + 1)
      <4> HIDE DEF Upto
      <4> QED OBVIOUS
    <3>0. Upto(n)
      <4> HIDE DEF Upto
      <4> QED BY <2>2, <3>1, <1>0
    <3>2. PICK f \in [0..n -> Seq(A)] : f[0] = <<>> /\ \A i \in 1..n : f[i] = Next(f, i)
      BY <3>0
    <3> DEFINE g == [i \in 0..(n + 1) |-> IF i = n + 1 THEN Next(f, n + 1) ELSE f[i]]
    <3>3. f[n] \in Seq(A) /\ s[n + 1] \in A
      BY <3>1, <1>0
    <3>4. Next(f, n + 1) \in Seq(A)
      BY <3>3
    <3>5. g \in [0..(n + 1) -> Seq(A)]
      BY <3>4
    <3>6. g[0] = <<>>
      BY <3>2
    <3>7. ASSUME NEW i \in 1..(n + 1) PROVE g[i] = Next(g, i)
      <4>1. g[i - 1] = f[i - 1]
        OBVIOUS
      <4>2. Next(g, i) = Next(f, i)
        BY <4>1
      <4>3. CASE i = n + 1
        <5> HIDE DEF Next
        <5> QED BY <4>2, <4>3
      <4>4. CASE i # n + 1
        <5>1. g[i] = f[i] /\ i \in 1..n
          <6> HIDE DEF Next
          <6> QED BY <4>4
        <5> HIDE DEF g, Next
        <5> QED BY <4>2, <5>1, <3>2
      <4> QED BY <4>3, <4>4
    <3> HIDE DEF g, Next
    <3> QED BY <3>5, <3>6, <3>7
  <2> HIDE DEF N, Upto
  <2>3. Nat \subseteq N
    BY <2>1, <2>2, InductionOverNat
  <2> QED BY <2>3, <1>0 DEF N
<1>3. P = Def(P)
  <2>1. PICK f \in [0..Len(s) -> Seq(A)] : f[0] = <<>> /\ \A i \in 1..Len(s) : f[i] = Next(f, i)
    BY <1>2
  <2>2. f = Def(f)
    <3> HIDE DEF Next
    <3>1. \A i \in 0..Len(s) : f[i] = IF i = 0 THEN <<>> ELSE Next(f, i)
      BY <2>1, <1>0
    <3> QED BY <3>1
  <2> HIDE DEF Def
  <2> QED BY <2>2
<1>4. P[0] = <<>> /\ \A i \in 1..Len(s) : P[i] = Next(P, i)
  <2> HIDE DEF P, Next
  <2>1. \A i \in 0..Len(s) : P[i] = IF i = 0 THEN <<>> ELSE Next(P, i)
    BY <1>3
  <2> QED BY <2>1, <1>0
<1> DEFINE Fits(p, i) ==
      /\ p \in Seq(A \cap S)
      /\ \E at \in [1..Len(p) -> 1..i] :
             /\ \A j \in 1..Len(p) : p[j] = s[at[j]]
             /\ \A h, j \in 1..Len(p) : h < j => at[h] < at[j]
             /\ \A k \in 1..i : s[k] \in S => \E j \in 1..Len(p) : at[j] = k
<1> DEFINE Good(i) == Fits(P[i], i)
<1>5. ASSUME NEW i \in 0..Len(s), i + 1 <= Len(s), Good(i) PROVE Good(i + 1)
  <2> HIDE DEF P
  <2>1. CASE s[i + 1] \notin S
    <3>1. P[i + 1] = P[i]
      <4>1. P[i + 1] = Next(P, i + 1)
        <5> HIDE DEF Next, Good
        <5> QED BY <1>4, <1>5, <1>0
      <4>2. Next(P, i + 1) = P[i + 1 - 1]
        BY <2>1
      <4> QED BY <4>1, <4>2
    <3>2. PICK at \in [1..Len(P[i]) -> 1..i] :
             /\ \A j \in 1..Len(P[i]) : P[i][j] = s[at[j]]
             /\ \A h, j \in 1..Len(P[i]) : h < j => at[h] < at[j]
             /\ \A k \in 1..i : s[k] \in S => \E j \in 1..Len(P[i]) : at[j] = k
      BY <1>5
    <3>3. at \in [1..Len(P[i]) -> 1..(i + 1)]
      OBVIOUS
    <3>4. \A k \in 1..(i + 1) : s[k] \in S => \E j \in 1..Len(P[i]) : at[j] = k
      BY <3>2, <2>1
    <3>5. Fits(P[i], i + 1)
      BY <3>2, <3>3, <3>4, <1>5
    <3> HIDE DEF Fits
    <3> QED BY <3>1, <3>5
  <2>2. CASE s[i + 1] \in S
    <3> DEFINE new == Append(P[i], s[i + 1])
    <3>1. P[i + 1] = new
      <4>1. P[i + 1] = Next(P, i + 1)
        <5> HIDE DEF Next, Good
        <5> QED BY <1>4, <1>5, <1>0
      <4>2. Next(P, i + 1) = new
        BY <2>2
      <4> QED BY <4>1, <4>2
    <3>2. PICK at \in [1..Len(P[i]) -> 1..i] :
             /\ \A j \in 1..Len(P[i]) : P[i][j] = s[at[j]]
             /\ \A h, j \in 1..Len(P[i]) : h < j => at[h] < at[j]
             /\ \A k \in 1..i : s[k] \in S => \E j \in 1..Len(P[i]) : at[j] = k
      BY <1>5
    <3> DEFINE m == Len(P[i])
    <3>3. m \in Nat /\ P[i] \in Seq(A \cap S) /\ s[i + 1] \in A \cap S
      BY <1>5, <2>2, <1>0
    <3>4. new \in Seq(A \cap S) /\ Len(new) = m + 1 /\ new[m + 1] = s[i + 1]
          /\ \A j \in 1..m : new[j] = P[i][j]
      BY <3>3
    <3> DEFINE more == [j \in 1..(m + 1) |-> IF j = m + 1 THEN i + 1 ELSE at[j]]
    <3>5. more \in [1..(m + 1) -> 1..(i + 1)]
      BY <3>3
    <3>5a. \A j \in 1..m : more[j] = at[j]
      BY <3>3
    <3>5c. \A j \in 1..m : at[j] \in 1..i
      OBVIOUS
    <3>5b. more[m + 1] = i + 1
      BY <3>3
    <3>5d. /\ \A j \in 1..m : P[i][j] = s[at[j]]
           /\ \A h, j \in 1..m : h < j => at[h] < at[j]
           /\ \A k \in 1..i : s[k] \in S => \E j \in 1..m : at[j] = k
      BY <3>2
    <3>5e. \A j \in 1..(m + 1) : j # m + 1 => j \in 1..m
      BY <3>3
    <3> HIDE DEF m, more, new
    <3>6. \A j \in 1..(m + 1) : new[j] = s[more[j]]
      BY <3>3, <3>4, <3>5a, <3>5b, <3>5d, <3>5e
    <3>7. \A h, j \in 1..(m + 1) : h < j => more[h] < more[j]
      <4> SUFFICES ASSUME NEW h \in 1..(m + 1), NEW j \in 1..(m + 1), h < j PROVE more[h] < more[j]
        OBVIOUS
      <4>1. h \in 1..m
        BY <3>3
      <4>2. CASE j = m + 1
        BY <4>1, <4>2, <3>5a, <3>5b, <3>5c
      <4>3. CASE j # m + 1
        BY <4>1, <4>3, <3>5a, <3>5d, <3>5e
      <4> QED BY <4>2, <4>3
    <3>8. \A k \in 1..(i + 1) : s[k] \in S => \E j \in 1..(m + 1) : more[j] = k
      <4> SUFFICES ASSUME NEW k \in 1..(i + 1), s[k] \in S PROVE \E j \in 1..(m + 1) : more[j] = k
        OBVIOUS
      <4>1. CASE k = i + 1
        BY <4>1, <3>5b, <3>3
      <4>2. CASE k # i + 1
        <5>1. PICK j \in 1..m : at[j] = k
          BY <4>2, <3>5d
        <5> QED BY <5>1, <3>5a, <3>3
      <4> QED BY <4>1, <4>2
    <3>9. Fits(new, i + 1)
      <4>1. Len(new) = m + 1
        BY <3>4
      <4>2. /\ more \in [1..Len(new) -> 1..(i + 1)]
            /\ \A j \in 1..Len(new) : new[j] = s[more[j]]
            /\ \A h, j \in 1..Len(new) : h < j => more[h] < more[j]
            /\ \A k \in 1..(i + 1) : s[k] \in S => \E j \in 1..Len(new) : more[j] = k
        BY <4>1, <3>5, <3>6, <3>7, <3>8
      <4> QED BY <4>2, <3>4
    <3> HIDE DEF Fits
    <3> QED BY <3>1, <3>9
  <2> QED BY <2>1, <2>2
<1>6. Good(0)
  <2> HIDE DEF P
  <2>1. P[0] = <<>> /\ P[0] \in Seq(A \cap S) /\ Len(P[0]) = 0
    BY <1>4
  <2> DEFINE at == [j \in 1..0 |-> 1]
  <2>2. at \in [1..0 -> 1..0]
    OBVIOUS
  <2> HIDE DEF at
  <2>3. \A j \in 1..0 : FALSE
    OBVIOUS
  <2> QED BY <2>1, <2>2, <2>3
<1>7. Good(Len(s))
  <2> DEFINE N == {n \in Nat : n <= Len(s) => Good(n)}
  <2> HIDE DEF Good
  <2>1. 0 \in N
    BY <1>6
  <2>2. ASSUME NEW n \in Nat, n \in N PROVE n + 1 \in N
    BY <2>2, <1>5, <1>0
  <2> HIDE DEF N
  <2>3. Nat \subseteq N
    BY <2>1, <2>2, InductionOverNat
  <2> QED BY <2>3, <1>0 DEF N
<1> HIDE DEF P
<1>8. Fits(Select(s, S), Len(s))
  <2> HIDE DEF Fits
  <2> QED BY <1>1, <1>7
<1> QED BY <1>8 DEF PickedAt

-----------------------------------------------------------------------------
(***************************************************************************)
(* Paths.                                                                  *)
(***************************************************************************)

LEMMA FrontFacts ==
  ASSUME NEW S, NEW s \in Seq(S), s # <<>>
  PROVE  /\ Front(s) \in Seq(S) /\ Len(Front(s)) = Len(s) - 1
         /\ \A i \in 1..Len(s) - 1 : Front(s)[i] = s[i]
<1>1. Len(s) \in Nat \ {0}
  OBVIOUS
<1>2. \A i \in 1..Len(s) - 1 : s[i] \in S
  BY <1>1
<1>3. Front(s) \in Seq(S)
  BY <1>1, <1>2, SubSeqProperties DEF Front
<1>4. Len(Front(s)) = Len(s) - 1
  <2> DEFINE n == Len(s) - 1
  <2>1. n \in Nat /\ \A i \in 1..n : s[i] \in S
    BY <1>1, <1>2
  <2> HIDE DEF n
  <2>2. Len(SubSeq(s, 1, n)) = IF 1 <= n THEN n - 1 + 1 ELSE 0
    BY <2>1, SubSeqProperties
  <2>3. Len(SubSeq(s, 1, n)) = n
    BY <2>1, <2>2
  <2> QED
    BY <2>3 DEF Front, n
<1>5. \A i \in 1..Len(s) - 1 : Front(s)[i] = s[i]
  BY <1>1, <1>2 DEF Front
<1> QED
  BY <1>3, <1>4, <1>5

LEMMA PrefixRefl ==
  ASSUME NEW S, NEW s \in Seq(S)
  PROVE  IsPrefix(s, s) /\ IsPrefix(Root, s)
BY DEF IsPrefix, Root

LEMMA PrefixTrans ==
  ASSUME NEW S, NEW r \in Seq(S), NEW s \in Seq(S), NEW t \in Seq(S),
         IsPrefix(r, s), IsPrefix(s, t)
  PROVE  IsPrefix(r, t)
<1>1. /\ Len(r) \in Nat /\ Len(s) \in Nat /\ Len(t) \in Nat
      /\ Len(r) <= Len(s) /\ Len(s) <= Len(t)
  BY DEF IsPrefix
<1>2. \A i \in 1..Len(r) : r[i] = t[i]
  <2>1. ASSUME NEW i \in 1..Len(r) PROVE r[i] = s[i]
    BY <1>1 DEF IsPrefix
  <2>2. ASSUME NEW i \in 1..Len(s) PROVE s[i] = t[i]
    BY <1>1 DEF IsPrefix
  <2> QED
    BY <1>1, <2>1, <2>2
<1> QED
  BY <1>1, <1>2 DEF IsPrefix

LEMMA PrefixIff ==
  ASSUME NEW S, NEW s \in Seq(S), NEW t \in Seq(S)
  PROVE  IsPrefix(s, t) <=> Len(s) <= Len(t) /\ \A i \in 1..Len(s) : s[i] = t[i]
<1>1. Len(s) \in Nat /\ Len(t) \in Nat
  OBVIOUS
<1>2. ASSUME Len(s) <= Len(t)
      PROVE  SubSeq(s, 1, Len(s)) = SubSeq(t, 1, Len(s)) <=> \A i \in 1..Len(s) : s[i] = t[i]
  <2> DEFINE a == SubSeq(s, 1, Len(s))
             b == SubSeq(t, 1, Len(s))
  <2>1. /\ a \in Seq(S) /\ b \in Seq(S) /\ Len(a) = Len(s) /\ Len(b) = Len(s)
        /\ \A i \in 1..Len(s) : a[i] = s[i] /\ b[i] = t[i]
    BY <1>1, <1>2
  <2> HIDE DEF a, b
  <2>2. a = b <=> \A i \in 1..Len(s) : a[i] = b[i]
    BY <2>1, SeqEqual
  <2> QED BY <2>1, <2>2 DEF a, b
<1> QED BY <1>1, <1>2 DEF IsPrefix

LEMMA PrefixSame ==
  ASSUME NEW S, NEW s \in Seq(S), NEW t \in Seq(S), IsPrefix(s, t), Len(s) = Len(t)
  PROVE  s = t
<1>1. \A i \in 1..Len(s) : s[i] = t[i]
  BY PrefixIff
<1> QED BY <1>1, SeqEqual

\* Of two beginnings of one path the shorter is a beginning of the longer.
LEMMA PrefixesCompare ==
  ASSUME NEW S, NEW r \in Seq(S), NEW s \in Seq(S), NEW t \in Seq(S),
         IsPrefix(r, t), IsPrefix(s, t)
  PROVE  IsPrefix(r, s) \/ IsPrefix(s, r)
<1>1. Len(r) \in Nat /\ Len(s) \in Nat /\ Len(t) \in Nat
  OBVIOUS
<1>2. /\ Len(r) <= Len(t) /\ Len(s) <= Len(t)
      /\ \A i \in 1..Len(r) : r[i] = t[i]
      /\ \A i \in 1..Len(s) : s[i] = t[i]
  BY PrefixIff
<1>3. CASE Len(r) <= Len(s)
  <2>1. \A i \in 1..Len(r) : r[i] = s[i]
    BY <1>1, <1>2, <1>3
  <2> QED BY <1>3, <2>1, PrefixIff
<1>4. CASE Len(s) <= Len(r)
  <2>1. \A i \in 1..Len(s) : s[i] = r[i]
    BY <1>1, <1>2, <1>4
  <2> QED BY <1>4, <2>1, PrefixIff
<1> QED BY <1>1, <1>3, <1>4

\* Paths below a place compare as they do in the source.
LEMMA PrefixInPlace ==
  ASSUME NEW S, NEW place \in Seq(S), NEW s \in Seq(S), NEW t \in Seq(S),
         IsPrefix(place \o s, place \o t)
  PROVE  IsPrefix(s, t)
<1>1. Len(place) \in Nat /\ Len(s) \in Nat /\ Len(t) \in Nat
  OBVIOUS
<1> DEFINE a == place \o s
           b == place \o t
<1>2. /\ a \in Seq(S) /\ b \in Seq(S)
      /\ Len(a) = Len(place) + Len(s) /\ Len(b) = Len(place) + Len(t)
      /\ \A i \in 1..Len(s) : a[Len(place) + i] = s[i]
      /\ \A i \in 1..Len(t) : b[Len(place) + i] = t[i]
  BY <1>1
<1> HIDE DEF a, b
<1>3. Len(a) <= Len(b) /\ \A i \in 1..Len(a) : a[i] = b[i]
  <2>1. IsPrefix(a, b)
    BY DEF a, b
  <2>2. a \in Seq(S) /\ b \in Seq(S)
    BY <1>2
  <2> QED BY <2>1, <2>2, PrefixIff
<1>4. Len(s) <= Len(t)
  BY <1>1, <1>2, <1>3
<1>5. ASSUME NEW i \in 1..Len(s)
      PROVE  s[i] = t[i]
  <2>1. Len(place) + i \in 1..Len(a) /\ i \in 1..Len(t)
    BY <1>1, <1>2, <1>4
  <2> QED BY <1>2, <1>3, <2>1
<1> QED BY <1>4, <1>5, PrefixIff

LEMMA EmptyPlace ==
  ASSUME NEW S, NEW s \in Seq(S)
  PROVE  s \o Root = s
BY DEF Root

LEMMA LastAdded ==
  ASSUME NEW S, NEW s \in Seq(S), NEW x
  PROVE  /\ Parent(Append(s, x)) = s /\ Last(Append(s, x)) = x
         /\ Append(s, x) \in Seq(S \cup {x}) /\ Len(Append(s, x)) = Len(s) + 1
<1>1. s \in Seq(S \cup {x}) /\ Len(s) \in Nat
  OBVIOUS
<1> DEFINE t == Append(s, x)
<1>2. /\ t \in Seq(S \cup {x}) /\ Len(t) = Len(s) + 1 /\ t[Len(t)] = x /\ t # <<>>
      /\ \A i \in 1..Len(s) : t[i] = s[i]
  BY <1>1
<1> HIDE DEF t
<1>3. Front(t) \in Seq(S \cup {x}) /\ Len(Front(t)) = Len(s) /\ \A i \in 1..Len(s) : Front(t)[i] = s[i]
  BY <1>1, <1>2, FrontFacts
<1>4. Front(t) = s
  BY <1>1, <1>3, SeqEqual
<1> QED BY <1>2, <1>4 DEF Parent, Last, t

\* A path is its parent and its last name.
LEMMA ParentAndLast ==
  ASSUME NEW S, NEW s \in Seq(S), s # Root
  PROVE  /\ Parent(s) \in Seq(S) /\ Len(Parent(s)) = Len(s) - 1 /\ Last(s) \in S
         /\ s = Append(Parent(s), Last(s)) /\ IsPrefix(Parent(s), s) /\ Len(s) > 0
<1>1. Len(s) \in Nat \ {0} /\ s # <<>>
  BY DEF Root
<1>2. /\ Front(s) \in Seq(S) /\ Len(Front(s)) = Len(s) - 1
      /\ \A i \in 1..Len(s) - 1 : Front(s)[i] = s[i]
  BY <1>1, FrontFacts
<1> DEFINE f == Front(s)
           t == Append(f, Last(s))
<1>3. Last(s) = s[Len(s)] /\ Last(s) \in S
  BY <1>1 DEF Last
<1>4. t = s
  <2> HIDE DEF f
  <2>1. /\ t \in Seq(S) /\ Len(t) = Len(s) /\ t[Len(s)] = s[Len(s)]
        /\ \A i \in 1..Len(s) - 1 : t[i] = s[i]
    BY <1>1, <1>2, <1>3 DEF f
  <2>2. \A i \in 1..Len(s) : t[i] = s[i]
    BY <1>1, <2>1
  <2> HIDE DEF t
  <2> QED BY <2>1, <2>2, SeqEqual
<1>5. IsPrefix(f, s)
  <2> HIDE DEF f
  <2> QED BY <1>1, <1>2, PrefixIff DEF f
<1> QED BY <1>1, <1>2, <1>3, <1>4, <1>5 DEF Parent

LEMMA SequencesTogether ==
  ASSUME NEW p, NEW q, IsSequence(p), IsSequence(q)
  PROVE  /\ p \in Seq(ToSet(p) \cup ToSet(q)) /\ q \in Seq(ToSet(p) \cup ToSet(q))
         /\ p \o q \in Seq(ToSet(p) \cup ToSet(q)) /\ Len(p \o q) = Len(p) + Len(q)
         /\ Len(p) \in Nat /\ Len(q) \in Nat
<1>1. p \in Seq(ToSet(p) \cup ToSet(q)) /\ q \in Seq(ToSet(p) \cup ToSet(q))
  BY DEF IsSequence
<1> QED BY <1>1

LEMMA InSeqIsSequence ==
  ASSUME NEW S, NEW s \in Seq(S)
  PROVE  IsSequence(s)
<1>1. ToSet(s) = {s[i] : i \in 1..Len(s)} /\ Len(s) \in Nat
  BY DEF ToSet
<1>2. \A i \in 1..Len(s) : s[i] \in ToSet(s)
  BY <1>1
<1>3. DOMAIN s = 1..Len(s) /\ s = [i \in 1..Len(s) |-> s[i]]
  OBVIOUS
<1>4. s \in Seq(ToSet(s))
  BY <1>1, <1>2, <1>3
<1> QED BY <1>4 DEF IsSequence

-----------------------------------------------------------------------------
(***************************************************************************)
(* Trees.                                                                  *)
(***************************************************************************)

NamedTree(tree) == IsTree(tree) /\ \A p \in DOMAIN tree : IsSequence(p)

LEMMA WithFacts ==
  ASSUME NEW tree, NEW p, NEW entry
  PROVE  /\ DOMAIN With(tree, p, entry) = DOMAIN tree \cup {p}
         /\ With(tree, p, entry)[p] = entry
         /\ \A q \in DOMAIN tree : q # p => With(tree, p, entry)[q] = tree[q]
BY DEF With

LEMMA WithoutFacts ==
  ASSUME NEW tree, NEW p
  PROVE  /\ DOMAIN Without(tree, p) = {q \in DOMAIN tree : ~IsPrefix(p, q)}
         /\ \A q \in DOMAIN Without(tree, p) : Without(tree, p)[q] = tree[q]
BY DEF Without, Below

\* Every path is in directories, also those further up.
LEMMA AboveIsDirectory ==
  ASSUME NEW tree, NamedTree(tree), NEW p, IsSequence(p), NEW q \in DOMAIN tree,
         IsPrefix(p, q), q # p
  PROVE  IsDir(tree, p)
<1> DEFINE N == {n \in Nat : \A x \in DOMAIN tree :
                   Len(x) = n /\ IsPrefix(p, x) /\ x # p => IsDir(tree, p)}
<1>0. \A x \in DOMAIN tree : IsSequence(x) /\ Len(x) \in Nat
  BY DEF NamedTree, IsSequence
<1>1. p \in Seq(ToSet(p)) /\ Len(p) \in Nat
  BY DEF IsSequence
<1>2. 0 \in N
  <2>1. ASSUME NEW x \in DOMAIN tree, Len(x) = 0, IsPrefix(p, x), x # p
        PROVE  FALSE
    <3>1. Len(p) = 0
      BY <1>1, <2>1 DEF IsPrefix
    <3> QED BY <1>0, <1>1, <2>1, <3>1 DEF IsSequence
  <2> QED BY <2>1
<1>3. ASSUME NEW n \in Nat, n \in N
      PROVE  n + 1 \in N
  <2>1. SUFFICES ASSUME NEW x \in DOMAIN tree, Len(x) = n + 1, IsPrefix(p, x), x # p
                 PROVE  IsDir(tree, p)
    OBVIOUS
  <2>2. x # Root
    BY <2>1 DEF Root
  <2>3. IsDir(tree, Parent(x))
    BY <2>2 DEF NamedTree, IsTree
  <2> DEFINE S == ToSet(p) \cup ToSet(x)
  <2>4. p \in Seq(S) /\ x \in Seq(S)
    BY <1>0, SequencesTogether
  <2> HIDE DEF S
  <2>5. Parent(x) \in Seq(S) /\ Len(Parent(x)) = n /\ IsPrefix(Parent(x), x)
    BY <2>1, <2>2, <2>4, ParentAndLast
  <2>6. IsPrefix(p, Parent(x))
    <3>1. CASE IsPrefix(p, Parent(x))
      BY <3>1
    <3>2. CASE IsPrefix(Parent(x), p)
      <4>1. n <= Len(p) /\ Len(p) <= n + 1
        BY <2>1, <2>5, <3>2 DEF IsPrefix
      <4>2. CASE Len(p) = n + 1
        BY <2>1, <2>4, <4>2, PrefixSame
      <4>3. CASE Len(p) = n
        <5>1. Parent(x) = p
          BY <2>4, <2>5, <3>2, <4>3, PrefixSame
        <5> QED BY <2>5, <5>1, PrefixRefl
      <4> QED BY <1>1, <4>1, <4>2, <4>3
    <3> QED BY <2>1, <2>4, <2>5, <3>1, <3>2, PrefixesCompare
  <2>7. CASE Parent(x) = p
    BY <2>3, <2>7
  <2>8. CASE Parent(x) # p
    <3>1. Parent(x) \in DOMAIN tree
      BY <2>3 DEF IsDir, Exists
    <3> QED BY <1>3, <2>5, <2>6, <2>8, <3>1
  <2> QED BY <2>7, <2>8
<1> HIDE DEF N
<1>4. Nat \subseteq N
  BY <1>2, <1>3, InductionOverNat
<1>5. Len(q) \in N
  BY <1>0, <1>4
<1> QED BY <1>5 DEF N

\* Only directories hold anything, and what holds anything has children.
LEMMA BelowOthers ==
  ASSUME NEW tree, NamedTree(tree), NEW p, IsSequence(p), ~IsDir(tree, p) \/ Children(tree, p) = {}
  PROVE  Below(tree, p) \subseteq {p}
<1> SUFFICES ASSUME NEW q \in Below(tree, p), q # p PROVE FALSE
  OBVIOUS
<1>1. q \in DOMAIN tree /\ IsPrefix(p, q) /\ IsSequence(q)
  BY DEF Below, NamedTree
<1>2. IsDir(tree, p)
  BY <1>1, AboveIsDirectory
<1>3. PICK S : p \in Seq(S) /\ q \in Seq(S)
  BY <1>1, SequencesTogether
<1>4. Len(p) \in Nat /\ Len(q) \in Nat /\ Len(p) < Len(q)
  <2>1. Len(p) <= Len(q) /\ Len(p) # Len(q)
    BY <1>1, <1>3, PrefixSame DEF IsPrefix
  <2> QED BY <2>1, <1>3
<1> DEFINE c == SubSeq(q, 1, Len(p) + 1)
<1>5. c \in Seq(S) /\ Len(c) = Len(p) + 1 /\ \A i \in 1..(Len(p) + 1) : c[i] = q[i]
  BY <1>3, <1>4
<1> HIDE DEF c
<1>6. IsPrefix(p, c) /\ IsPrefix(c, q)
  <2>1. \A i \in 1..Len(p) : p[i] = q[i]
    BY <1>1, <1>3, PrefixIff
  <2>2. \A i \in 1..Len(p) : p[i] = c[i]
    BY <2>1, <1>4, <1>5
  <2> QED BY <2>2, <1>3, <1>4, <1>5, PrefixIff
<1>7. c \in DOMAIN tree
  <2>1. CASE c = q
    BY <2>1, <1>1
  <2>2. CASE c # q
    <3>1. IsSequence(c)
      BY <1>5, InSeqIsSequence
    <3> QED BY <3>1, <2>2, <1>1, <1>6, AboveIsDirectory DEF IsDir, Exists
  <2> QED BY <2>1, <2>2
<1>8. c \in Children(tree, p)
  BY <1>5, <1>6, <1>7 DEF Children, Below
<1> QED BY <1>2, <1>8

LEMMA WithoutIsTree ==
  ASSUME NEW tree, NamedTree(tree), IsFiniteSet(DOMAIN tree), NEW p, IsSequence(p), p # Root
  PROVE  NamedTree(Without(tree, p)) /\ IsFiniteSet(DOMAIN Without(tree, p))
<1> DEFINE rest == Without(tree, p)
<1>1. /\ DOMAIN rest = {q \in DOMAIN tree : ~IsPrefix(p, q)}
      /\ \A q \in DOMAIN rest : rest[q] = tree[q]
  BY WithoutFacts
<1> HIDE DEF rest
<1>2. IsFiniteSet(DOMAIN rest)
  BY <1>1, FS_Subset
<1>3. ~IsPrefix(p, Root)
  <2>1. Len(p) > 0
    <3>1. p \in Seq(ToSet(p))
      BY DEF IsSequence
    <3> QED BY <3>1 DEF Root
  <2> QED BY <2>1 DEF IsPrefix, Root
<1>4. IsDir(rest, Root)
  BY <1>1, <1>3 DEF NamedTree, IsTree, IsDir, Exists
<1>5. ASSUME NEW q \in DOMAIN rest, q # Root PROVE IsDir(rest, Parent(q))
  <2>1. q \in DOMAIN tree /\ ~IsPrefix(p, q) /\ IsDir(tree, Parent(q)) /\ IsSequence(q)
    BY <1>1, <1>5 DEF NamedTree, IsTree
  <2>2. PICK S : p \in Seq(S) /\ q \in Seq(S)
    BY <2>1, SequencesTogether
  <2>3. Parent(q) \in Seq(S) /\ IsPrefix(Parent(q), q)
    BY <2>2, <1>5, ParentAndLast
  <2>4. ~IsPrefix(p, Parent(q))
    BY <2>1, <2>2, <2>3, PrefixTrans
  <2> QED BY <1>1, <2>1, <2>4 DEF IsDir, Exists
<1>6. \A q \in DOMAIN rest : IsSequence(q)
  BY <1>1 DEF NamedTree
<1>7. NamedTree(rest)
  BY <1>4, <1>5, <1>6 DEF NamedTree, IsTree
<1> QED BY <1>2, <1>7 DEF rest

LEMMA WithIsTree ==
  ASSUME NEW tree, NamedTree(tree), IsFiniteSet(DOMAIN tree), NEW p, IsSequence(p), CanAdd(tree, p), NEW entry
  PROVE  NamedTree(With(tree, p, entry)) /\ IsFiniteSet(DOMAIN With(tree, p, entry))
<1> DEFINE more == With(tree, p, entry)
<1>1. /\ DOMAIN more = DOMAIN tree \cup {p}
      /\ \A q \in DOMAIN tree : more[q] = tree[q]
  <2>1. p \notin DOMAIN tree
    BY DEF CanAdd, Exists
  <2> QED BY <2>1 DEF With
<1> HIDE DEF more
<1>2. IsFiniteSet(DOMAIN more)
  BY <1>1, FS_AddElement
<1>3. \A q : IsDir(tree, q) => IsDir(more, q)
  BY <1>1 DEF IsDir, Exists
<1>4. NamedTree(more)
  BY <1>1, <1>3 DEF NamedTree, IsTree, CanAdd
<1> QED BY <1>2, <1>4 DEF more

-----------------------------------------------------------------------------

\* A function over the positions up to n that is given where it starts and how
\* it goes on from each position to the next exists, and is the only one.
GoesOn(f, n, start, next) == f[0] = start /\ \A i \in 1..n : f[i] = next[i][f[i - 1]]
GoOnAlike(f, g, n) == f[0] = g[0] /\ \A i \in 1..n : f[i - 1] = g[i - 1] => f[i] = g[i]

LEMMA RecursionUpTo ==
  ASSUME NEW n \in Nat, NEW V, NEW start \in V, NEW next \in [1..n -> [V -> V]]
  PROVE \E f \in [0..n -> V] : GoesOn(f, n, start, next)
<1> DEFINE Upto(k) == \E f \in [0..k -> V] : f[0] = start /\ \A i \in 1..k : f[i] = next[i][f[i - 1]]
<1> DEFINE S == {k \in Nat : k <= n => Upto(k)}
<1>1. 0 \in S
  <2> DEFINE f == [i \in 0..0 |-> start]
  <2>1. f \in [0..0 -> V] /\ f[0] = start /\ \A i \in 1..0 : f[i] = next[i][f[i - 1]]
    OBVIOUS
  <2> HIDE DEF f
  <2> QED BY <2>1
<1>2. ASSUME NEW k \in Nat, k \in S, k + 1 <= n PROVE Upto(k + 1)
  <2>1. PICK f \in [0..k -> V] : f[0] = start /\ \A i \in 1..k : f[i] = next[i][f[i - 1]]
    BY <1>2
  <2> DEFINE g == [i \in 0..(k + 1) |-> IF i = k + 1 THEN next[k + 1][f[k]] ELSE f[i]]
  <2>2. next[k + 1] \in [V -> V] /\ f[k] \in V
    BY <1>2
  <2>2a. next[k + 1][f[k]] \in V
    BY <2>2
  <2>3. g \in [0..(k + 1) -> V]
    BY <2>2a
  <2>4. g[k + 1] = next[k + 1][f[k]] /\ \A i \in 0..k : g[i] = f[i]
    OBVIOUS
  <2> HIDE DEF g
  <2>5. g[0] = start
    BY <2>1, <2>4
  <2>6. ASSUME NEW i \in 1..(k + 1) PROVE g[i] = next[i][g[i - 1]]
    <3>1. CASE i = k + 1
      <4>1. g[i - 1] = f[k]
        BY <2>4, <3>1
      <4> QED BY <2>4, <3>1, <4>1
    <3>2. CASE i # k + 1
      <4>1. i \in 1..k /\ i \in 0..k /\ i - 1 \in 0..k
        BY <3>2
      <4> QED BY <2>1, <2>4, <4>1
    <3> QED BY <3>1, <3>2
  <2> QED BY <2>3, <2>5, <2>6
<1>3. \A k \in Nat : k \in S => k + 1 \in S
  <2> SUFFICES ASSUME NEW k \in Nat, k \in S PROVE k + 1 \in S
    OBVIOUS
  <2>1. k + 1 <= n => Upto(k + 1)
    BY <1>2
  <2> HIDE DEF Upto
  <2> QED BY <2>1
<1> HIDE DEF S
<1>4. n \in S
  BY <1>1, <1>3, InductionOverNat
<1> QED BY <1>4 DEF S, GoesOn

\* Two functions that start alike and go on alike are alike at the end.
LEMMA SameAt ==
  ASSUME NEW n \in Nat, NEW f, NEW g, GoOnAlike(f, g, n)
  PROVE f[n] = g[n]
<1> DEFINE S == {i \in 0..n : f[i] = g[i]}
<1> USE DEF GoOnAlike
<1>1. 0 \in S
  OBVIOUS
<1>2. \A i \in 0..(n - 1) : i \in S => i + 1 \in S
  <2> SUFFICES ASSUME NEW i \in 0..(n - 1), i \in S PROVE i + 1 \in S
    OBVIOUS
  <2>1. i + 1 \in 1..n /\ (i + 1) - 1 = i
    OBVIOUS
  <2> QED BY <2>1
<1> HIDE DEF S, GoOnAlike
<1>3. 0..n \subseteq S
  BY <1>1, <1>2, InductionUpTo
<1> QED BY <1>3 DEF S

\* What holds for the empty sequence, and for a sequence with one more member
\* if it does without, holds for every sequence.
LEMMA OneMoreMember ==
  ASSUME NEW A, NEW Good, <<>> \in Good,
         \A s \in Seq(A), a \in A : s \in Good => Append(s, a) \in Good
  PROVE Seq(A) \subseteq Good
<1> DEFINE N == {n \in Nat : \A s \in Seq(A) : Len(s) = n => s \in Good}
<1>1. 0 \in N
  <2>1. \A s \in Seq(A) : Len(s) = 0 => s = <<>>
    OBVIOUS
  <2> QED BY <2>1
<1>2. ASSUME NEW n \in Nat, n \in N PROVE n + 1 \in N
  <2> SUFFICES ASSUME NEW s \in Seq(A), Len(s) = n + 1 PROVE s \in Good
    OBVIOUS
  <2>1. s # <<>>
    OBVIOUS
  <2>2. PICK t \in Seq(A), a \in A : s = Append(t, a)
    BY <2>1, SequenceEmptyOrAppend
  <2>3. Len(t) = n
    BY <2>2, AppendProperties
  <2> QED BY <1>2, <2>2, <2>3
<1> HIDE DEF N
<1>3. Nat \subseteq N
  BY <1>1, <1>2, InductionOverNat
<1> QED BY <1>3 DEF N

\* What a text over A is split into: one part at least.
PartsOver(A) == Seq(Seq(A)) \ {<<>>}

LEMMA SplitMoreType ==
  ASSUME NEW A, NEW parts \in PartsOver(A), NEW c \in A, NEW sep
  PROVE SplitMore(parts, c, sep) \in PartsOver(A)
<1>1. parts \in Seq(Seq(A)) /\ Len(parts) \in 1..Len(parts) /\ Len(parts) \in Nat
  BY EmptySeq DEF PartsOver
<1>2. CASE c = sep
  <2>1. <<>> \in Seq(A)
    BY EmptySeq
  <2> QED BY <1>1, <1>2, <2>1, AppendProperties DEF SplitMore, PartsOver
<1>3. CASE c # sep
  <2> DEFINE more == Append(parts[Len(parts)], c)
  <2>1. parts[Len(parts)] \in Seq(A)
    BY <1>1, ElementOfSeq
  <2>2. more \in Seq(A)
    BY <2>1, AppendProperties
  <2>3. SplitMore(parts, c, sep) = [parts EXCEPT ![Len(parts)] = more]
    BY <1>3 DEF SplitMore
  <2> HIDE DEF more
  <2>4. /\ [parts EXCEPT ![Len(parts)] = more] \in Seq(Seq(A))
        /\ Len([parts EXCEPT ![Len(parts)] = more]) = Len(parts)
    BY <1>1, <2>2, ExceptSeq
  <2>5. Len(parts) # 0 /\ Len(<<>>) = 0
    BY <1>1
  <2> QED BY <2>3, <2>4, <2>5 DEF PartsOver
<1> QED BY <1>2, <1>3

\* The positions at which Split looks.
SplitsTo(f, s, sep) ==
  /\ f[0] = <<<<>>>> /\ \A i \in 1..Len(s) : f[i] = SplitMore(f[i - 1], s[i], sep)
  /\ Split(s, sep) = f[Len(s)]

\* Split is the function over the positions that goes on by SplitMore.
LEMMA SplitByPositions ==
  ASSUME NEW A, NEW s \in Seq(A), NEW sep
  PROVE \E f \in [0..Len(s) -> PartsOver(A)] : SplitsTo(f, s, sep)
<1> DEFINE V == PartsOver(A)
<1> DEFINE next == [i \in 1..Len(s) |-> [p \in V |-> SplitMore(p, s[i], sep)]]
<1> DEFINE Def(f) == [i \in 0..Len(s) |-> IF i = 0 THEN <<<<>>>> ELSE SplitMore(f[i - 1], s[i], sep)]
<1> DEFINE P == CHOOSE f : f = Def(f)
<1>1. Len(s) \in Nat /\ \A i \in 1..Len(s) : s[i] \in A
  OBVIOUS
<1>2. Split(s, sep) = P[Len(s)]
  BY DEF Split
<1>3. <<<<>>>> \in V
  BY EmptySeq DEF PartsOver
<1>4. next \in [1..Len(s) -> [V -> V]]
  <2>1. \A i \in 1..Len(s), p \in V : SplitMore(p, s[i], sep) \in V
    BY <1>1, SplitMoreType
  <2> QED BY <2>1
<1>5. PICK f \in [0..Len(s) -> V] : GoesOn(f, Len(s), <<<<>>>>, next)
  <2> HIDE DEF next, V
  <2> QED BY <1>1, <1>3, <1>4, RecursionUpTo
<1>6. f[0] = <<<<>>>> /\ \A i \in 1..Len(s) : f[i] = SplitMore(f[i - 1], s[i], sep)
  <2> SUFFICES ASSUME NEW i \in 1..Len(s) PROVE f[i] = SplitMore(f[i - 1], s[i], sep)
    BY <1>5 DEF GoesOn
  <2>1. f[i - 1] \in V
    BY <1>1
  <2>2. next[i][f[i - 1]] = SplitMore(f[i - 1], s[i], sep)
    <3> HIDE DEF V
    <3> QED BY <2>1
  <2> QED BY <1>5, <2>2 DEF GoesOn
<1> HIDE DEF next, V
<1>7. f = Def(f)
  <2>0. \A i \in 0..Len(s) : i # 0 => i \in 1..Len(s)
    BY <1>1
  <2>1. \A i \in 0..Len(s) : f[i] = IF i = 0 THEN <<<<>>>> ELSE SplitMore(f[i - 1], s[i], sep)
    BY <2>0, <1>6, Zenon
  <2> QED BY <2>1
<1>8. P = Def(P)
  <2> HIDE DEF Def
  <2> QED BY <1>7
<1> HIDE DEF P
<1>9. P[0] = <<<<>>>> /\ \A i \in 1..Len(s) : P[i] = SplitMore(P[i - 1], s[i], sep)
  <2>1. \A i \in 0..Len(s) : P[i] = IF i = 0 THEN <<<<>>>> ELSE SplitMore(P[i - 1], s[i], sep)
    BY <1>8
  <2> QED BY <2>1, <1>1
<1>10. GoOnAlike(f, P, Len(s))
  BY <1>6, <1>9 DEF GoOnAlike
<1>11. f[Len(s)] = P[Len(s)]
  BY <1>1, <1>10, SameAt
<1> QED BY <1>2, <1>6, <1>11 DEF SplitsTo, V

\* What Split returns: of no text one part, and of a text with one more
\* character the parts with it.
LEMMA SplitOfNothing ==
  ASSUME NEW sep PROVE Split(<<>>, sep) = <<<<>>>>
<1>1. <<>> \in Seq({}) /\ Len(<<>>) = 0
  BY EmptySeq
<1>2. PICK f \in [0..Len(<<>>) -> PartsOver({})] : SplitsTo(f, <<>>, sep)
  BY <1>1, SplitByPositions
<1> QED BY <1>1, <1>2 DEF SplitsTo

LEMMA SplitOfMore ==
  ASSUME NEW A, NEW s \in Seq(A), NEW c \in A, NEW sep
  PROVE Split(Append(s, c), sep) = SplitMore(Split(s, sep), c, sep)
<1> DEFINE n == Len(s)
<1> DEFINE t == Append(s, c)
<1>1. t \in Seq(A) /\ Len(t) = n + 1 /\ n \in Nat /\ t[n + 1] = c /\ \A i \in 1..n : t[i] = s[i]
  BY AppendProperties
<1>2. PICK f \in [0..n -> PartsOver(A)] : SplitsTo(f, s, sep)
  BY SplitByPositions
<1> HIDE DEF t
<1>3. PICK g \in [0..(n + 1) -> PartsOver(A)] : SplitsTo(g, t, sep)
  <2>1. \E g \in [0..Len(t) -> PartsOver(A)] : SplitsTo(g, t, sep)
    BY <1>1, SplitByPositions
  <2> QED BY <1>1, <2>1
<1> HIDE DEF n
<1>4. GoOnAlike(f, g, n)
  BY <1>1, <1>2, <1>3 DEF SplitsTo, GoOnAlike, n
<1>6. f[n] = g[n]
  BY <1>1, <1>4, SameAt
<1>7. g[n + 1] = SplitMore(g[n], t[n + 1], sep)
  <2>1. n + 1 \in 1..Len(t) /\ (n + 1) - 1 = n
    BY <1>1
  <2> QED BY <2>1, <1>3 DEF SplitsTo
<1>8. Split(s, sep) = f[n] /\ Split(t, sep) = g[n + 1]
  BY <1>1, <1>2, <1>3 DEF SplitsTo, n
<1> QED BY <1>1, <1>6, <1>7, <1>8 DEF t

LEMMA SplitType ==
  ASSUME NEW A, NEW s \in Seq(A), NEW sep
  PROVE Split(s, sep) \in PartsOver(A)
<1>1. PICK f \in [0..Len(s) -> PartsOver(A)] : SplitsTo(f, s, sep)
  BY SplitByPositions
<1> QED BY <1>1 DEF SplitsTo

\* A member appended behind a second sequence is appended behind both.
AppendsInto(s, t, a) == s \o Append(t, a) = Append(s \o t, a)
LEMMA AppendToConcat ==
  ASSUME NEW A, NEW s \in Seq(A), NEW t \in Seq(A), NEW a \in A
  PROVE AppendsInto(s, t, a)
<1>1. <<a>> \in Seq(A) /\ s \o t \in Seq(A)
  <2>1. <<a>> \in Seq(A)
    OBVIOUS
  <2> QED BY <2>1, ConcatProperties
<1>2. Append(t, a) = t \o <<a>> /\ Append(s \o t, a) = (s \o t) \o <<a>>
  BY <1>1, AppendIsConcat
<1>3. (s \o t) \o <<a>> = s \o (t \o <<a>>)
  BY <1>1, ConcatAssociative
<1> QED BY <1>2, <1>3, Zenon DEF AppendsInto

\* No character of the text is the one that separates.
FreeOf(text, c) == \A i \in DOMAIN text : text[i] # c

LEMMA FreeConcat ==
  ASSUME NEW A, NEW s \in Seq(A), NEW t \in Seq(A), NEW c, FreeOf(s, c), FreeOf(t, c)
  PROVE FreeOf(s \o t, c)
<1>1. /\ s \o t \in Seq(A) /\ Len(s \o t) = Len(s) + Len(t)
      /\ \A i \in 1..Len(s) + Len(t) : (s \o t)[i] = IF i <= Len(s) THEN s[i] ELSE t[i - Len(s)]
  BY ConcatProperties
<1>2. DOMAIN s = 1..Len(s) /\ DOMAIN t = 1..Len(t) /\ Len(s) \in Nat /\ Len(t) \in Nat
  OBVIOUS
<1> DEFINE u == s \o t
<1>3. DOMAIN u = 1..Len(s) + Len(t)
  BY <1>1
<1> HIDE DEF u
<1>4. ASSUME NEW i \in DOMAIN u PROVE u[i] # c
  <2>1. i \in 1..Len(s) + Len(t) /\ u[i] = IF i <= Len(s) THEN s[i] ELSE t[i - Len(s)]
    BY <1>1, <1>3 DEF u
  <2>2. CASE i <= Len(s)
    BY <1>2, <2>1, <2>2 DEF FreeOf
  <2>3. CASE ~(i <= Len(s))
    <3>1. i - Len(s) \in 1..Len(t)
      BY <1>2, <2>1, <2>3
    <3> QED BY <1>2, <2>1, <2>3, <3>1 DEF FreeOf
  <2> QED BY <2>2, <2>3
<1> QED BY <1>4 DEF FreeOf, u

\* What Split makes of one more character, by the last part.
LEMMA SplitMoreOf ==
  ASSUME NEW A, NEW ps \in Seq(Seq(A)), NEW p \in Seq(A), NEW c \in A, NEW sep
  PROVE /\ c = sep => SplitMore(Append(ps, p), c, sep) = Append(Append(ps, p), <<>>)
        /\ c # sep => SplitMore(Append(ps, p), c, sep) = Append(ps, Append(p, c))
<1>1. c = sep => SplitMore(Append(ps, p), c, sep) = Append(Append(ps, p), <<>>)
  BY DEF SplitMore
<1>2. ASSUME c # sep PROVE SplitMore(Append(ps, p), c, sep) = Append(ps, Append(p, c))
  <2> DEFINE n == Len(ps)
  <2> DEFINE t == Append(ps, p)
  <2> DEFINE q == Append(p, c)
  <2> DEFINE u == Append(ps, q)
  <2>1. q \in Seq(A)
    BY AppendProperties
  <2>2. t \in Seq(Seq(A)) /\ Len(t) = n + 1 /\ n \in Nat /\ t[n + 1] = p /\ \A i \in 1..n : t[i] = ps[i]
    BY AppendProperties
  <2> HIDE DEF q
  <2>3. u \in Seq(Seq(A)) /\ Len(u) = n + 1 /\ u[n + 1] = q /\ \A i \in 1..n : u[i] = ps[i]
    BY <2>1, AppendProperties
  <2> HIDE DEF t, u, n
  <2>4. SplitMore(t, c, sep) = [t EXCEPT ![n + 1] = q]
    BY <1>2, <2>2 DEF SplitMore, q
  <2>5. n + 1 \in 1..Len(t)
    BY <2>2
  <2>6. /\ [t EXCEPT ![n + 1] = q] \in Seq(Seq(A)) /\ Len([t EXCEPT ![n + 1] = q]) = Len(t)
        /\ \A j \in 1..Len(t) : [t EXCEPT ![n + 1] = q][j] = IF j = n + 1 THEN q ELSE t[j]
    BY <2>1, <2>2, <2>5, ExceptSeq
  <2> DEFINE r == [t EXCEPT ![n + 1] = q]
  <2> HIDE DEF r
  <2>7. \A j \in 1..Len(r) : r[j] = u[j]
    <3>1. \A j \in 1..(n + 1) : j # n + 1 => j \in 1..n
      BY <2>2
    <3> QED BY <2>2, <2>3, <2>6, <3>1 DEF r
  <2>8. r = u
    BY <2>2, <2>3, <2>6, <2>7, SeqEqual DEF r
  <2> QED BY <2>4, <2>8 DEF r, t, u, q
<1> QED BY <1>1, <1>2

\* What a text is split into: the last part, and those before it.
SplitsInto(s, sep, ps, p) == Split(s, sep) = Append(ps, p)

LEMMA SplitsIntoParts ==
  ASSUME NEW A, NEW s \in Seq(A), NEW sep
  PROVE \E ps \in Seq(Seq(A)), p \in Seq(A) : SplitsInto(s, sep, ps, p)
<1>1. Split(s, sep) \in Seq(Seq(A)) /\ Split(s, sep) # <<>>
  BY SplitType DEF PartsOver
<1> QED BY <1>1, SequenceEmptyOrAppend DEF SplitsInto

\* A separator ends the part, and what has none goes to the last part.
LEMMA SplitAtSeparator ==
  ASSUME NEW A, NEW s \in Seq(A), NEW sep \in A, NEW ps \in Seq(Seq(A)), NEW p \in Seq(A),
         SplitsInto(s, sep, ps, p)
  PROVE SplitsInto(Append(s, sep), sep, Append(ps, p), <<>>)
<1>1. Split(Append(s, sep), sep) = SplitMore(Split(s, sep), sep, sep)
  BY SplitOfMore
<1>2. SplitMore(Append(ps, p), sep, sep) = Append(Append(ps, p), <<>>)
  BY DEF SplitMore
<1> QED BY <1>1, <1>2, Zenon DEF SplitsInto

LEMMA SplitOfRun ==
  ASSUME NEW A, NEW s \in Seq(A), NEW sep, NEW ps \in Seq(Seq(A)), NEW p \in Seq(A),
         SplitsInto(s, sep, ps, p), NEW w \in Seq(A), FreeOf(w, sep)
  PROVE SplitsInto(s \o w, sep, ps, p \o w)
<1> DEFINE Good == {v \in Seq(A) : FreeOf(v, sep) => SplitsInto(s \o v, sep, ps, p \o v)}
<1>1. <<>> \in Good
  <2>1. s \o <<>> = s /\ p \o <<>> = p /\ <<>> \in Seq(A)
    BY ConcatEmptySeq, EmptySeq
  <2> QED BY <2>1, Zenon
<1>2. ASSUME NEW v \in Seq(A), NEW c \in A, v \in Good PROVE Append(v, c) \in Good
  <2> DEFINE t == Append(v, c)
  <2>1. t \in Seq(A) /\ Len(t) = Len(v) + 1 /\ Len(v) \in Nat /\ t[Len(v) + 1] = c
        /\ \A i \in 1..Len(v) : t[i] = v[i]
    BY AppendProperties
  <2> SUFFICES ASSUME FreeOf(t, sep) PROVE SplitsInto(s \o t, sep, ps, p \o t)
    BY <2>1
  <2>2. DOMAIN t = 1..Len(v) + 1 /\ DOMAIN v = 1..Len(v)
    BY <2>1
  <2> HIDE DEF t
  <2>3. c # sep /\ FreeOf(v, sep)
    <3>1. Len(v) + 1 \in 1..Len(v) + 1 /\ \A i \in 1..Len(v) : i \in 1..Len(v) + 1
      BY <2>1
    <3>2. \A i \in 1..Len(v) + 1 : t[i] # sep
      BY <2>2 DEF FreeOf
    <3>3. t[Len(v) + 1] # sep
      BY <3>1, <3>2
    <3>4. \A i \in 1..Len(v) : v[i] # sep
      BY <2>1, <3>1, <3>2
    <3> QED BY <2>1, <2>2, <3>3, <3>4 DEF FreeOf
  <2>4. SplitsInto(s \o v, sep, ps, p \o v)
    BY <1>2, <2>3
  <2>5. s \o v \in Seq(A) /\ p \o v \in Seq(A)
    BY ConcatProperties
  <2>6. s \o t = Append(s \o v, c) /\ p \o t = Append(p \o v, c)
    <3>1. AppendsInto(s, v, c) /\ AppendsInto(p, v, c)
      BY AppendToConcat
    <3> QED BY <3>1, Zenon DEF AppendsInto, t
  <2> DEFINE sv == s \o v
  <2> DEFINE pv == p \o v
  <2>7. sv \in Seq(A) /\ pv \in Seq(A) /\ Split(sv, sep) = Append(ps, pv)
    BY <2>4, <2>5, Zenon DEF SplitsInto
  <2> HIDE DEF sv, pv
  <2>8. Split(Append(sv, c), sep) = SplitMore(Append(ps, pv), c, sep)
    BY <2>7, SplitOfMore
  <2>9. SplitMore(Append(ps, pv), c, sep) = Append(ps, Append(pv, c))
    BY <2>3, <2>7, SplitMoreOf
  <2> QED BY <2>6, <2>8, <2>9, Zenon DEF SplitsInto, sv, pv
<1> HIDE DEF Good
<1>3. Seq(A) \subseteq Good
  BY <1>1, <1>2, OneMoreMember
<1> QED BY <1>3 DEF Good

\* What a longer text is split into begins with what its beginning is split
\* into; only the last part of that may go on.
Longer(q, p, A) == \E w \in Seq(A) : q = p \o w
Prolongs(qs, ps, p, A) ==
  /\ Len(ps) < Len(qs) /\ \A i \in 1..Len(ps) : qs[i] = ps[i]
  /\ Longer(qs[Len(ps) + 1], p, A)

LEMMA SplitGrows ==
  ASSUME NEW A, NEW s \in Seq(A), NEW sep, NEW ps \in Seq(Seq(A)), NEW p \in Seq(A),
         SplitsInto(s, sep, ps, p), NEW w \in Seq(A)
  PROVE Prolongs(Split(s \o w, sep), ps, p, A)
<1> DEFINE Good == {v \in Seq(A) : Prolongs(Split(s \o v, sep), ps, p, A)}
<1> DEFINE n == Len(ps)
<1>0. n \in Nat
  OBVIOUS
<1>1. <<>> \in Good
  <2>1. s \o <<>> = s /\ p = p \o <<>> /\ <<>> \in Seq(A)
    BY ConcatEmptySeq, EmptySeq
  <2> DEFINE t == Append(ps, p)
  <2>2. Len(t) = n + 1 /\ t[n + 1] = p /\ \A i \in 1..n : t[i] = ps[i]
    BY AppendProperties
  <2>3. Split(s \o <<>>, sep) = t
    BY <2>1, Zenon DEF SplitsInto
  <2>4. Longer(p, p, A)
    BY <2>1, Zenon DEF Longer
  <2> HIDE DEF t
  <2>5. Prolongs(t, ps, p, A)
    BY <1>0, <2>2, <2>4 DEF Prolongs
  <2> QED BY <2>1, <2>3, <2>5, Zenon
<1>2. ASSUME NEW v \in Seq(A), NEW c \in A, v \in Good PROVE Append(v, c) \in Good
  <2>1. s \o v \in Seq(A) /\ Append(v, c) \in Seq(A)
    BY ConcatProperties, AppendProperties
  <2>2. s \o Append(v, c) = Append(s \o v, c)
    <3>1. AppendsInto(s, v, c)
      BY AppendToConcat
    <3> QED BY <3>1, Zenon DEF AppendsInto
  <2> DEFINE sv == s \o v
  <2> DEFINE Q == Split(sv, sep)
  <2> HIDE DEF sv
  <2>3. Split(Append(sv, c), sep) = SplitMore(Q, c, sep)
    BY <2>1, SplitOfMore DEF sv
  <2>4. PICK qs \in Seq(Seq(A)), q \in Seq(A) : Q = Append(qs, q)
    <3>1. sv \in Seq(A)
      BY <2>1 DEF sv
    <3>2. PICK qs \in Seq(Seq(A)), q \in Seq(A) : SplitsInto(sv, sep, qs, q)
      BY <3>1, SplitsIntoParts
    <3> QED BY <3>2 DEF SplitsInto
  <2>5. Prolongs(Q, ps, p, A)
    BY <1>2 DEF sv
  <2> HIDE DEF Q
  <2> DEFINE m == Len(qs)
  <2>6. m \in Nat /\ Len(Q) = m + 1 /\ Q[m + 1] = q /\ (\A i \in 1..m : Q[i] = qs[i]) /\ Q \in Seq(Seq(A))
    BY <2>4, AppendProperties
  <2> HIDE DEF m, n
  <2>7. n < m + 1 /\ (\A i \in 1..n : Q[i] = ps[i]) /\ Longer(Q[n + 1], p, A)
    BY <2>5, <2>6 DEF Prolongs, n
  <2>8. CASE c = sep
    <3> DEFINE R == Append(Q, <<>>)
    <3>1. <<>> \in Seq(A)
      BY EmptySeq
    <3>2. Len(R) = m + 2 /\ \A i \in 1..m + 1 : R[i] = Q[i]
      BY <2>6, <3>1, AppendProperties
    <3>3. SplitMore(Q, c, sep) = R
      BY <2>8 DEF SplitMore
    <3> HIDE DEF R
    <3>4. n + 1 \in 1..m + 1 /\ \A i \in 1..n : i \in 1..m + 1
      BY <1>0, <2>6, <2>7
    <3>5. Prolongs(R, ps, p, A)
      BY <1>0, <2>6, <2>7, <3>2, <3>4 DEF Prolongs, n
    <3> QED BY <2>1, <2>2, <2>3, <3>3, <3>5, Zenon DEF sv
  <2>9. CASE c # sep
    <3> DEFINE qc == Append(q, c)
    <3> DEFINE R == Append(qs, qc)
    <3>1. qc \in Seq(A)
      BY AppendProperties
    <3> HIDE DEF qc
    <3>2. Len(R) = m + 1 /\ R[m + 1] = qc /\ \A i \in 1..m : R[i] = qs[i]
      BY <2>6, <3>1, AppendProperties DEF m
    <3>3. SplitMore(Q, c, sep) = R
      BY <2>4, <2>9, SplitMoreOf DEF qc
    <3> HIDE DEF R
    <3>4. Longer(R[n + 1], p, A)
      <4>1. CASE n = m
        <5>1. Longer(q, p, A)
          BY <2>6, <2>7, <4>1
        <5>2. PICK w1 \in Seq(A) : q = p \o w1
          BY <5>1 DEF Longer
        <5>3. AppendsInto(p, w1, c)
          BY AppendToConcat
        <5>4. qc = p \o Append(w1, c) /\ Append(w1, c) \in Seq(A)
          <6>1. Append(w1, c) \in Seq(A)
            BY AppendProperties
          <6> QED BY <5>2, <5>3, <6>1, Zenon DEF AppendsInto, qc
        <5>5. Longer(qc, p, A)
          BY <5>4, Zenon DEF Longer
        <5> QED BY <3>2, <4>1, <5>5
      <4>2. CASE n # m
        <5>1. n + 1 \in 1..m
          BY <1>0, <2>6, <2>7, <4>2
        <5> QED BY <2>6, <2>7, <3>2, <5>1
      <4> QED BY <4>1, <4>2
    <3>5. \A i \in 1..n : i \in 1..m
      BY <1>0, <2>6, <2>7
    <3>6. Prolongs(R, ps, p, A)
      BY <1>0, <2>6, <2>7, <3>2, <3>4, <3>5 DEF Prolongs, n
    <3> QED BY <2>1, <2>2, <2>3, <3>3, <3>6, Zenon DEF sv
  <2> QED BY <2>8, <2>9
<1> HIDE DEF Good
<1>3. Seq(A) \subseteq Good
  BY <1>1, <1>2, OneMoreMember
<1> QED BY <1>3 DEF Good

\* A sequence that has one member more than another, behind the same ones.
LEMMA IsAppend ==
  ASSUME NEW A, NEW s \in Seq(A), NEW t \in Seq(A), Len(t) = Len(s) + 1,
         \A i \in 1..Len(s) : t[i] = s[i]
  PROVE t = Append(s, t[Len(s) + 1])
<1> DEFINE n == Len(s)
<1> DEFINE x == t[n + 1]
<1>1. n \in Nat /\ x \in A
  <2>1. n \in Nat
    OBVIOUS
  <2>2. n + 1 \in 1..Len(t)
    BY <2>1
  <2> QED BY <2>1, <2>2, ElementOfSeq
<1> HIDE DEF x
<1> DEFINE u == Append(s, x)
<1>2. u \in Seq(A) /\ Len(u) = n + 1 /\ u[n + 1] = x /\ \A i \in 1..n : u[i] = s[i]
  BY <1>1, AppendProperties
<1> HIDE DEF u
<1>3. \A i \in 1..Len(t) : t[i] = u[i]
  <2>1. \A i \in 1..Len(t) : i # n + 1 => i \in 1..n
    BY <1>1
  <2> QED BY <1>1, <1>2, <2>1 DEF x
<1>4. t = u
  BY <1>2, <1>3, SeqEqual
<1> QED BY <1>4 DEF u, x

\* The positions at which Select looks, and what it makes of one more member.
PickMore(p, x, S) == IF x \in S THEN Append(p, x) ELSE p
SelectsTo(f, s, S) ==
  /\ f[0] = <<>> /\ \A i \in 1..Len(s) : f[i] = PickMore(f[i - 1], s[i], S)
  /\ Select(s, S) = f[Len(s)]

LEMMA SelectByPositions ==
  ASSUME NEW A, NEW s \in Seq(A), NEW S
  PROVE \E f \in [0..Len(s) -> Seq(A)] : SelectsTo(f, s, S)
<1> DEFINE V == Seq(A)
<1> DEFINE next == [i \in 1..Len(s) |-> [p \in V |-> PickMore(p, s[i], S)]]
<1> DEFINE Def(f) == [i \in 0..Len(s) |-> IF i = 0 THEN <<>>
                                          ELSE IF s[i] \in S THEN Append(f[i - 1], s[i]) ELSE f[i - 1]]
<1> DEFINE P == CHOOSE f : f = Def(f)
<1>1. Len(s) \in Nat /\ \A i \in 1..Len(s) : s[i] \in A
  OBVIOUS
<1>2. Select(s, S) = P[Len(s)]
  BY DEF Select
<1>3. <<>> \in V
  BY EmptySeq
<1>4. next \in [1..Len(s) -> [V -> V]]
  <2>1. \A i \in 1..Len(s), p \in V : PickMore(p, s[i], S) \in V
    BY <1>1 DEF PickMore
  <2> QED BY <2>1
<1>5. PICK f \in [0..Len(s) -> V] : GoesOn(f, Len(s), <<>>, next)
  <2> HIDE DEF next, V
  <2> QED BY <1>1, <1>3, <1>4, RecursionUpTo
<1>6. f[0] = <<>> /\ \A i \in 1..Len(s) : f[i] = PickMore(f[i - 1], s[i], S)
  <2> SUFFICES ASSUME NEW i \in 1..Len(s) PROVE f[i] = PickMore(f[i - 1], s[i], S)
    BY <1>5 DEF GoesOn
  <2>1. f[i - 1] \in V
    <3>1. i - 1 \in 0..Len(s)
      BY <1>1
    <3> HIDE DEF V
    <3> QED BY <3>1
  <2>2. next[i][f[i - 1]] = PickMore(f[i - 1], s[i], S)
    <3> HIDE DEF V
    <3> QED BY <2>1
  <2> QED BY <1>5, <2>2 DEF GoesOn
<1> HIDE DEF next, V
<1>7. f = Def(f)
  <2>0. \A i \in 0..Len(s) : i # 0 => i \in 1..Len(s)
    BY <1>1
  <2>1. \A i \in 0..Len(s) : f[i] = IF i = 0 THEN <<>> ELSE PickMore(f[i - 1], s[i], S)
    BY <2>0, <1>6, Zenon
  <2> QED BY <2>1 DEF PickMore
<1>8. P = Def(P)
  <2> HIDE DEF Def
  <2> QED BY <1>7
<1> HIDE DEF P
<1>9. P[0] = <<>> /\ \A i \in 1..Len(s) : P[i] = PickMore(P[i - 1], s[i], S)
  <2>1. \A i \in 0..Len(s) : P[i] = IF i = 0 THEN <<>> ELSE PickMore(P[i - 1], s[i], S)
    BY <1>8 DEF PickMore
  <2> QED BY <2>1, <1>1
<1>10. GoOnAlike(f, P, Len(s))
  BY <1>6, <1>9 DEF GoOnAlike
<1>11. f[Len(s)] = P[Len(s)]
  BY <1>1, <1>10, SameAt
<1> QED BY <1>2, <1>6, <1>11 DEF SelectsTo, V

LEMMA SelectOfNothing ==
  ASSUME NEW S PROVE Select(<<>>, S) = <<>>
<1>1. <<>> \in Seq({}) /\ Len(<<>>) = 0
  BY EmptySeq
<1>2. PICK f \in [0..Len(<<>>) -> Seq({})] : SelectsTo(f, <<>>, S)
  BY <1>1, SelectByPositions
<1> QED BY <1>1, <1>2 DEF SelectsTo

LEMMA SelectOfMore ==
  ASSUME NEW A, NEW s \in Seq(A), NEW c \in A, NEW S
  PROVE Select(Append(s, c), S) = PickMore(Select(s, S), c, S)
<1> DEFINE n == Len(s)
<1> DEFINE t == Append(s, c)
<1>1. t \in Seq(A) /\ Len(t) = n + 1 /\ n \in Nat /\ t[n + 1] = c /\ \A i \in 1..n : t[i] = s[i]
  BY AppendProperties
<1>2. PICK f \in [0..n -> Seq(A)] : SelectsTo(f, s, S)
  BY SelectByPositions
<1> HIDE DEF t
<1>3. PICK g \in [0..(n + 1) -> Seq(A)] : SelectsTo(g, t, S)
  <2>1. \E g \in [0..Len(t) -> Seq(A)] : SelectsTo(g, t, S)
    BY <1>1, SelectByPositions
  <2> QED BY <1>1, <2>1
<1> HIDE DEF n
<1>4. GoOnAlike(f, g, n)
  BY <1>1, <1>2, <1>3 DEF SelectsTo, GoOnAlike, n
<1>6. f[n] = g[n]
  BY <1>1, <1>4, SameAt
<1>7. g[n + 1] = PickMore(g[n], t[n + 1], S)
  <2>1. n + 1 \in 1..Len(t) /\ (n + 1) - 1 = n
    BY <1>1
  <2> QED BY <2>1, <1>3 DEF SelectsTo
<1>8. Select(s, S) = f[n] /\ Select(t, S) = g[n + 1]
  BY <1>1, <1>2, <1>3 DEF SelectsTo, n
<1> QED BY <1>1, <1>6, <1>7, <1>8 DEF t

\* Behind a member that is left out, all that are in the set are picked.
SelectsRest(x, s, S) == Select(<<x>> \o s, S) = s
LEMMA SelectAllButFirst ==
  ASSUME NEW A, NEW s \in Seq(A), NEW x \in A, NEW S, x \notin S, \A i \in 1..Len(s) : s[i] \in S
  PROVE SelectsRest(x, s, S)
<1> DEFINE Good == {t \in Seq(A) : (\A i \in 1..Len(t) : t[i] \in S) => SelectsRest(x, t, S)}
<1>0. <<x>> \in Seq(A) /\ <<>> \in Seq(A)
  BY EmptySeq
<1>1. <<>> \in Good
  <2>1. <<x>> \o <<>> = Append(<<>>, x)
    OBVIOUS
  <2>2. Select(Append(<<>>, x), S) = PickMore(Select(<<>>, S), x, S)
    BY <1>0, SelectOfMore
  <2>3. Select(<<x>> \o <<>>, S) = <<>>
    BY <2>1, <2>2, SelectOfNothing, Zenon DEF PickMore
  <2> QED BY <1>0, <2>3 DEF SelectsRest
<1>2. ASSUME NEW t \in Seq(A), NEW c \in A, t \in Good PROVE Append(t, c) \in Good
  <2> DEFINE u == Append(t, c)
  <2>1. u \in Seq(A) /\ Len(u) = Len(t) + 1 /\ Len(t) \in Nat /\ u[Len(t) + 1] = c /\ \A i \in 1..Len(t) : u[i] = t[i]
    BY AppendProperties
  <2> SUFFICES ASSUME \A i \in 1..Len(u) : u[i] \in S PROVE SelectsRest(x, u, S)
    BY <2>1
  <2> HIDE DEF u
  <2>2. c \in S /\ \A i \in 1..Len(t) : t[i] \in S
    <3>1. \A i \in 1..Len(t) : i \in 1..Len(u)
      BY <2>1
    <3>2. Len(t) + 1 \in 1..Len(u)
      BY <2>1
    <3> QED BY <2>1, <3>1, <3>2
  <2>3. Select(<<x>> \o t, S) = t
    BY <1>2, <2>2 DEF SelectsRest
  <2>4. <<x>> \o Append(t, c) = Append(<<x>> \o t, c) /\ <<x>> \o t \in Seq(A)
    <3>1. AppendsInto(<<x>>, t, c)
      BY <1>0, AppendToConcat
    <3>2. <<x>> \o t \in Seq(A)
      BY <1>0, ConcatProperties
    <3> QED BY <3>1, <3>2, Zenon DEF AppendsInto
  <2> DEFINE v == <<x>> \o t
  <2>5. v \in Seq(A) /\ Select(v, S) = t /\ <<x>> \o u = Append(v, c)
    BY <2>3, <2>4, Zenon DEF u
  <2> HIDE DEF v
  <2>6. Select(Append(v, c), S) = PickMore(t, c, S)
    BY <2>5, SelectOfMore
  <2>7. PickMore(t, c, S) = u
    BY <2>2 DEF PickMore, u
  <2> QED BY <2>5, <2>6, <2>7, Zenon DEF SelectsRest
<1> HIDE DEF Good
<1>3. Seq(A) \subseteq Good
  BY <1>1, <1>2, OneMoreMember
<1> QED BY <1>3 DEF Good

\* Concatenation associates.
Regroups(s, t, u) == (s \o t) \o u = s \o (t \o u)
LEMMA Regroup ==
  ASSUME NEW A, NEW s \in Seq(A), NEW t \in Seq(A), NEW u \in Seq(A)
  PROVE Regroups(s, t, u)
  BY ConcatAssociative DEF Regroups

\* A function applied to every member of a sequence.
Mapped(s, f) == [i \in DOMAIN s |-> f[s[i]]]
MapsMore(s, a, f) == Mapped(Append(s, a), f) = Append(Mapped(s, f), f[a])

MapsEach(s, f, B) ==
  /\ Mapped(s, f) \in Seq(B) /\ Len(Mapped(s, f)) = Len(s)
  /\ \A i \in 1..Len(s) : Mapped(s, f)[i] = f[s[i]]
LEMMA MappedType ==
  ASSUME NEW A, NEW B, NEW f \in [A -> B], NEW s \in Seq(A)
  PROVE MapsEach(s, f, B)
<1>1. Len(s) \in Nat /\ DOMAIN s = 1..Len(s) /\ \A i \in 1..Len(s) : s[i] \in A
  BY ElementOfSeq
<1>2. \A i \in 1..Len(s) : f[s[i]] \in B
  BY <1>1
<1> QED BY <1>1, <1>2 DEF Mapped, MapsEach

LEMMA MappedNothing ==
  ASSUME NEW f PROVE Mapped(<<>>, f) = <<>>
  BY DEF Mapped

LEMMA MappedMore ==
  ASSUME NEW A, NEW B, NEW f \in [A -> B], NEW s \in Seq(A), NEW a \in A
  PROVE MapsMore(s, a, f)
<1> DEFINE t == Append(s, a)
<1>1. t \in Seq(A) /\ Len(t) = Len(s) + 1 /\ Len(s) \in Nat /\ t[Len(s) + 1] = a /\ \A i \in 1..Len(s) : t[i] = s[i]
  BY AppendProperties
<1> HIDE DEF t
<1> DEFINE m == Mapped(s, f)
<1> DEFINE n == Mapped(t, f)
<1>2. m \in Seq(B) /\ Len(m) = Len(s) /\ \A i \in 1..Len(s) : m[i] = f[s[i]]
  <2>1. MapsEach(s, f, B)
    BY MappedType
  <2> QED BY <2>1, Zenon DEF MapsEach
<1>3. n \in Seq(B) /\ Len(n) = Len(t) /\ \A i \in 1..Len(t) : n[i] = f[t[i]]
  <2>1. MapsEach(t, f, B)
    BY <1>1, MappedType
  <2> QED BY <2>1, Zenon DEF MapsEach
<1> HIDE DEF m, n
<1>4. \A i \in 1..Len(m) : n[i] = m[i]
  <2>1. \A i \in 1..Len(s) : i \in 1..Len(t)
    BY <1>1
  <2> QED BY <1>1, <1>2, <1>3, <2>1
<1>5. n[Len(m) + 1] = f[a]
  <2>1. Len(s) + 1 \in 1..Len(t)
    BY <1>1
  <2> QED BY <1>1, <1>2, <1>3, <2>1
<1>6. n = Append(m, n[Len(m) + 1])
  BY <1>1, <1>2, <1>3, <1>4, IsAppend
<1> QED BY <1>5, <1>6, Zenon DEF MapsMore, m, n, t

\* A function over the positions up to n is a sequence.
LEMMA ByPositions ==
  ASSUME NEW A, NEW n \in Nat, NEW f \in [1..n -> A] PROVE f \in Seq(A) /\ Len(f) = n
  OBVIOUS

\* The members of two sequences one after the other.
ConcatenatesTo(s, t, u, A) ==
  /\ u \in Seq(A) /\ Len(u) = Len(s) + Len(t)
  /\ \A i \in 1..Len(s) + Len(t) : u[i] = IF i <= Len(s) THEN s[i] ELSE t[i - Len(s)]
LEMMA Concatenated ==
  ASSUME NEW A, NEW s \in Seq(A), NEW t \in Seq(A) PROVE ConcatenatesTo(s, t, s \o t, A)
  BY ConcatProperties DEF ConcatenatesTo

\* The first k members of a sequence.
FirstOf(rs, k) == SubSeq(rs, 1, k)
LEMMA FirstOnes ==
  ASSUME NEW A, NEW rs \in Seq(A), NEW k \in 0..Len(rs)
  PROVE FirstOf(rs, k) \in Seq(A) /\ Len(FirstOf(rs, k)) = k /\ \A i \in 1..k : FirstOf(rs, k)[i] = rs[i]
<1>1. \A i \in 1..k : rs[i] \in A
  <2>1. \A i \in 1..k : i \in 1..Len(rs)
    OBVIOUS
  <2> QED BY <2>1, ElementOfSeq
<1> DEFINE f == FirstOf(rs, k)
<1>2. f \in Seq(A) /\ Len(f) = (IF 1 <= k THEN k - 1 + 1 ELSE 0) /\ \A i \in 1 .. k - 1 + 1 : f[i] = rs[1 + i - 1]
  BY <1>1, SubSeqProperties DEF FirstOf
<1> HIDE DEF f
<1>3. \A i \in 1..k : i \in 1 .. k - 1 + 1 /\ 1 + i - 1 = i
  OBVIOUS
<1> QED BY <1>2, <1>3 DEF f

-----------------------------------------------------------------------------
\* What is picked of two sequences one after the other.
PicksApart(s, t, S) == Select(s \o t, S) = Select(s, S) \o Select(t, S)
LEMMA SelectOfConcat ==
  ASSUME NEW A, NEW s \in Seq(A), NEW t \in Seq(A), NEW S
  PROVE PicksApart(s, t, S)
<1> DEFINE Good == {u \in Seq(A) : PicksApart(s, u, S)}
<1>0. \A u \in Seq(A) : Select(u, S) \in Seq(A)
  <2>1. \A u \in Seq(A) : Select(u, S) \in Seq(A \cap S)
    BY SelectPicks
  <2>2. Seq(A \cap S) \subseteq Seq(A)
    BY SeqMonotonic
  <2> QED BY <2>1, <2>2
<1>1. <<>> \in Good
  <2>1. s \o <<>> = s /\ Select(s, S) \o <<>> = Select(s, S) /\ <<>> \in Seq(A)
    BY <1>0, ConcatEmptySeq, EmptySeq
  <2>2. Select(<<>>, S) = <<>>
    BY SelectOfNothing
  <2> QED BY <2>1, <2>2, Zenon DEF PicksApart
<1>2. ASSUME NEW u \in Seq(A), NEW a \in A, u \in Good PROVE Append(u, a) \in Good
  <2> DEFINE v == s \o u
  <2> DEFINE p == Select(s, S)
  <2> DEFINE q == Select(u, S)
  <2>1. v \in Seq(A) /\ p \in Seq(A) /\ q \in Seq(A) /\ Append(u, a) \in Seq(A)
    BY <1>0, ConcatProperties, AppendProperties
  <2>2. s \o Append(u, a) = Append(v, a)
    <3>1. AppendsInto(s, u, a)
      BY AppendToConcat
    <3> QED BY <3>1, Zenon DEF AppendsInto
  <2>3. Select(v, S) = p \o q
    <3>1. PicksApart(s, u, S)
      BY <1>2
    <3> QED BY <3>1, Zenon DEF PicksApart
  <2> HIDE DEF v
  <2>4. Select(Append(v, a), S) = PickMore(Select(v, S), a, S)
    BY <2>1, SelectOfMore
  <2>5. Select(Append(u, a), S) = PickMore(q, a, S)
    BY SelectOfMore
  <2> HIDE DEF p, q
  <2>6. PickMore(p \o q, a, S) = p \o PickMore(q, a, S)
    <3>1. CASE a \in S
      <4>1. AppendsInto(p, q, a)
        BY <2>1, AppendToConcat
      <4> QED BY <3>1, <4>1, Zenon DEF PickMore, AppendsInto
    <3>2. CASE a \notin S
      BY <3>2, Zenon DEF PickMore
    <3> QED BY <3>1, <3>2
  <2>7. Select(s \o Append(u, a), S) = Select(s, S) \o Select(Append(u, a), S)
    BY <2>2, <2>3, <2>4, <2>5, <2>6, Zenon DEF p
  <2> QED BY <2>1, <2>7, Zenon DEF PicksApart
<1> HIDE DEF Good
<1>3. Seq(A) \subseteq Good
  BY <1>1, <1>2, OneMoreMember
<1> QED BY <1>3 DEF Good

\* What is picked depends on what the set says of the members only.
Agree(s, S, T) == \A i \in 1..Len(s) : s[i] \in S <=> s[i] \in T
LEMMA SelectAlike ==
  ASSUME NEW A, NEW s \in Seq(A), NEW S, NEW T, Agree(s, S, T)
  PROVE Select(s, S) = Select(s, T)
<1> DEFINE Good == {u \in Seq(A) : Agree(u, S, T) => Select(u, S) = Select(u, T)}
<1>1. <<>> \in Good
  BY SelectOfNothing, EmptySeq
<1>2. ASSUME NEW u \in Seq(A), NEW a \in A, u \in Good PROVE Append(u, a) \in Good
  <2> DEFINE v == Append(u, a)
  <2>1. v \in Seq(A) /\ Len(v) = Len(u) + 1 /\ Len(u) \in Nat /\ v[Len(u) + 1] = a
        /\ \A i \in 1..Len(u) : v[i] = u[i]
    BY AppendProperties
  <2> SUFFICES ASSUME Agree(v, S, T) PROVE Select(v, S) = Select(v, T)
    BY <2>1
  <2>2. Select(v, S) = PickMore(Select(u, S), a, S) /\ Select(v, T) = PickMore(Select(u, T), a, T)
    BY SelectOfMore
  <2> HIDE DEF v
  <2>3. Agree(u, S, T) /\ (a \in S <=> a \in T)
    <3>1. Len(u) + 1 \in 1..Len(v) /\ \A i \in 1..Len(u) : i \in 1..Len(v)
      BY <2>1
    <3> QED BY <2>1, <3>1 DEF Agree
  <2>4. Select(u, S) = Select(u, T)
    BY <1>2, <2>3
  <2> QED BY <2>2, <2>3, <2>4, Zenon DEF PickMore
<1> HIDE DEF Good
<1>3. Seq(A) \subseteq Good
  BY <1>1, <1>2, OneMoreMember
<1> QED BY <1>3 DEF Good

\* A text that goes on behind a separator is split into the parts before it and
\* those of the rest.
SplitsApart(s, qs, w, sep) == Split(s \o w, sep) = qs \o Split(w, sep)
LEMMA SplitBehindSeparator ==
  ASSUME NEW A, NEW s \in Seq(A), NEW sep, NEW qs \in Seq(Seq(A)),
         SplitsInto(s, sep, qs, <<>>), NEW w \in Seq(A)
  PROVE SplitsApart(s, qs, w, sep)
<1> DEFINE Good == {v \in Seq(A) : SplitsApart(s, qs, v, sep)}
<1>0. <<>> \in Seq(A)
  BY EmptySeq
<1>1. <<>> \in Good
  <2>1. s \o <<>> = s
    BY ConcatEmptySeq
  <2>2. Split(s, sep) = Append(qs, <<>>)
    BY Zenon DEF SplitsInto
  <2>3. Append(qs, <<>>) = qs \o <<<<>>>>
    BY <1>0, AppendIsConcat
  <2>4. Split(<<>>, sep) = <<<<>>>>
    BY SplitOfNothing
  <2> QED BY <1>0, <2>1, <2>2, <2>3, <2>4, Zenon DEF SplitsApart
<1>2. ASSUME NEW v \in Seq(A), NEW c \in A, v \in Good PROVE Append(v, c) \in Good
  <2>1. PICK ps \in Seq(Seq(A)), p \in Seq(A) : SplitsInto(v, sep, ps, p)
    BY SplitsIntoParts
  <2> DEFINE t == s \o v
  <2> DEFINE rs == qs \o ps
  <2>2. t \in Seq(A) /\ rs \in Seq(Seq(A)) /\ Append(v, c) \in Seq(A) /\ Append(p, c) \in Seq(A)
    BY ConcatProperties, AppendProperties
  <2>3. s \o Append(v, c) = Append(t, c)
    <3>1. AppendsInto(s, v, c)
      BY AppendToConcat
    <3> QED BY <3>1, Zenon DEF AppendsInto
  <2>4. \A x \in Seq(A) : qs \o Append(ps, x) = Append(rs, x)
    <3> SUFFICES ASSUME NEW x \in Seq(A) PROVE qs \o Append(ps, x) = Append(rs, x)
      OBVIOUS
    <3>1. AppendsInto(qs, ps, x)
      BY AppendToConcat
    <3> QED BY <3>1, Zenon DEF AppendsInto
  <2>5. Split(t, sep) = Append(rs, p)
    <3>1. Split(v, sep) = Append(ps, p)
      BY <2>1, Zenon DEF SplitsInto
    <3>2. SplitsApart(s, qs, v, sep)
      BY <1>2
    <3>3. Split(t, sep) = qs \o Append(ps, p)
      BY <3>1, <3>2, Zenon DEF SplitsApart
    <3> QED BY <3>3, <2>4, Zenon
  <2> HIDE DEF t
  <2>6. Split(Append(t, c), sep) = SplitMore(Append(rs, p), c, sep)
    BY <2>2, <2>5, SplitOfMore
  <2>7. Split(Append(v, c), sep) = SplitMore(Append(ps, p), c, sep)
    <3>1. Split(v, sep) = Append(ps, p)
      BY <2>1, Zenon DEF SplitsInto
    <3> QED BY <3>1, SplitOfMore
  <2>8. SplitMore(Append(rs, p), c, sep) = qs \o SplitMore(Append(ps, p), c, sep)
    <3> HIDE DEF rs
    <3>1. CASE c = sep
      <4>1. SplitMore(Append(rs, p), c, sep) = Append(Append(rs, p), <<>>)
        BY <2>2, <3>1, SplitMoreOf
      <4>2. SplitMore(Append(ps, p), c, sep) = Append(Append(ps, p), <<>>)
        BY <3>1, SplitMoreOf
      <4>3. qs \o Append(Append(ps, p), <<>>) = Append(qs \o Append(ps, p), <<>>)
        <5>1. Append(ps, p) \in Seq(Seq(A))
          BY AppendProperties
        <5>2. AppendsInto(qs, Append(ps, p), <<>>)
          BY <1>0, <5>1, AppendToConcat
        <5> QED BY <5>2, Zenon DEF AppendsInto
      <4>4. qs \o Append(ps, p) = Append(rs, p)
        BY <2>4, Zenon
      <4> QED BY <4>1, <4>2, <4>3, <4>4, Zenon
    <3>2. CASE c # sep
      <4>1. SplitMore(Append(rs, p), c, sep) = Append(rs, Append(p, c))
        BY <2>2, <3>2, SplitMoreOf
      <4>2. SplitMore(Append(ps, p), c, sep) = Append(ps, Append(p, c))
        BY <3>2, SplitMoreOf
      <4> QED BY <2>2, <2>4, <4>1, <4>2, Zenon
    <3> QED BY <3>1, <3>2
  <2>9. Split(s \o Append(v, c), sep) = qs \o Split(Append(v, c), sep)
    BY <2>3, <2>6, <2>7, <2>8, Zenon
  <2> QED BY <2>2, <2>9, Zenon DEF SplitsApart
<1> HIDE DEF Good
<1>3. Seq(A) \subseteq Good
  BY <1>1, <1>2, OneMoreMember
<1> QED BY <1>3 DEF Good
=============================================================================
