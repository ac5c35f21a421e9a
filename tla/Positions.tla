---------------------------- MODULE Positions ----------------------------
(***************************************************************************)
(* Facts about finite sets, positions and sequences that the proofs of     *)
(* several modules rest on.                                                *)
(***************************************************************************)
EXTENDS SequenceTheorems, FiniteSetTheorems, WellFoundedInduction, TLAPS

\* Positions are well ordered, as their initial segments are finite sets.
LEMMA LeastPosition ==
  ASSUME NEW S, S \subseteq Nat, S # {}
  PROVE  \E i \in S : \A j \in S : i <= j
<1> DEFINE segments == {0 .. i : i \in S}
<1>1. segments \subseteq FiniteSubsetsOf(Nat) /\ segments # {}
  <2>1. \A i \in S : 0 .. i \in SUBSET Nat /\ IsFiniteSet(0 .. i)
    BY FS_Interval
  <2>2. \A i \in S : 0 .. i \in FiniteSubsetsOf(Nat)
    BY <2>1, Zenon DEF FiniteSubsetsOf
  <2>3. segments \subseteq FiniteSubsetsOf(Nat)
    BY <2>2, Zenon
  <2>4. PICK i \in S : TRUE
    OBVIOUS
  <2> QED
    BY <2>3, <2>4, Zenon
<1>2. PICK T \in segments : \A U \in segments : <<U, T>> \notin StrictSubsetOrdering(Nat)
  <2> HIDE DEF segments
  <2> QED
    BY <1>1, FS_StrictSubsetOrderingWellFounded, WFMin
<1>3. PICK i \in S : T = 0 .. i
  BY <1>2
<1>4. ASSUME NEW j \in S, j < i
      PROVE  FALSE
  <2>1. /\ 0 .. j \subseteq 0 .. i /\ 0 .. j # 0 .. i
        /\ 0 .. j \in SUBSET Nat /\ 0 .. i \in SUBSET Nat
    BY <1>4
  <2>2. <<0 .. j, 0 .. i>> \in StrictSubsetOrdering(Nat)
    BY <2>1 DEF StrictSubsetOrdering
  <2>3. 0 .. j \in segments
    BY <1>4, Zenon
  <2> QED
    BY <1>2, <1>3, <2>2, <2>3, Zenon
<1> QED
  BY <1>4

\* A finite set can be listed, and a list without repetitions that is as long as
\* the set is large has every element.
LEMMA ListedOnce ==
  ASSUME NEW S, IsFiniteSet(S)
  PROVE  /\ Cardinality(S) \in Nat
         /\ \E f \in [1 .. Cardinality(S) -> S] : IsInjective(f)
         /\ \A f \in [1 .. Cardinality(S) -> S] :
              IsInjective(f) => \A x \in S : \E i \in 1 .. Cardinality(S) : f[i] = x
<1>1. Cardinality(S) \in Nat /\ ExistsBijection(1 .. Cardinality(S), S)
  BY FS_CardinalityType
<1>2. \E f \in [1 .. Cardinality(S) -> S] : IsInjective(f)
  BY <1>1 DEF ExistsBijection, Bijection, Injection
<1>3. IsFiniteSet(1 .. Cardinality(S)) /\ Cardinality(1 .. Cardinality(S)) = Cardinality(S)
  BY <1>1, FS_Interval
<1>4. ASSUME NEW f \in [1 .. Cardinality(S) -> S], IsInjective(f)
      PROVE  \A x \in S : \E i \in 1 .. Cardinality(S) : f[i] = x
  <2>1. f \in Injection(1 .. Cardinality(S), S)
    BY <1>4 DEF Injection
  <2>2. f \in Surjection(1 .. Cardinality(S), S)
    BY <1>3, <2>1, FS_Injection
  <2> QED
    BY <2>2 DEF Surjection
<1> QED
  BY <1>1, <1>2, <1>4

\* A sequence over a set is one over a larger set.
LEMMA SeqGrows ==
  ASSUME NEW S, NEW T, S \subseteq T, NEW s \in Seq(S)
  PROVE  s \in Seq(T)
OBVIOUS

\* Two sequences, or three, one in front of the other.
LEMMA Joined ==
  ASSUME NEW S, NEW s \in Seq(S), NEW t \in Seq(S)
  PROVE  /\ s \o t \in Seq(S) /\ Len(s \o t) = Len(s) + Len(t)
         /\ \A j \in 1 .. Len(s) : (s \o t)[j] = s[j]
         /\ \A j \in 1 .. Len(t) : (s \o t)[Len(s) + j] = t[j]
BY ConcatProperties

LEMMA JoinedThree ==
  ASSUME NEW S, NEW a \in Seq(S), NEW b \in Seq(S), NEW c \in Seq(S)
  PROVE  /\ a \o b \o c \in Seq(S) /\ Len(a \o b \o c) = Len(a) + Len(b) + Len(c)
         /\ \A j \in 1 .. Len(a) : (a \o b \o c)[j] = a[j]
         /\ \A j \in 1 .. Len(b) : (a \o b \o c)[Len(a) + j] = b[j]
         /\ \A j \in 1 .. Len(c) : (a \o b \o c)[Len(a) + Len(b) + j] = c[j]
OBVIOUS

\* F folds over the finite set R from s, within S; Q holds of the elements folded so far
\* and the result, at the start and after every step.
Foldable(R, S, s, F, Q) ==
  /\ IsFiniteSet(R) /\ s \in S /\ F \in [R \X S -> S] /\ <<{}, s>> \in Q
  /\ \A T \in SUBSET R : \A x \in T, t \in S : <<T \ {x}, t>> \in Q => <<T, F[<<x, t>>]>> \in Q

\* f is the fold of each subset, where CHOOSE picks the elements.
IsFold(R, s, F, f) ==
  f = [T \in SUBSET R |->
         IF T = {} THEN s ELSE LET x == CHOOSE y \in T : TRUE IN F[<<x, f[T \ {x}]>>]]

\* There is such a fold, and it stays within S and Q.
LEMMA FoldOver ==
  ASSUME NEW R, NEW S, NEW s, NEW F, NEW Q, Foldable(R, S, s, F, Q)
  PROVE  \E g : IsFold(R, s, F, g) /\ \A T \in SUBSET R : g[T] \in S /\ <<T, g[T]>> \in Q
<1> DEFINE Pick(T) == CHOOSE y \in T : TRUE
           Small(n) == {T \in SUBSET R : Cardinality(T) <= n}
           Folds(n, f) == \A T \in Small(n) : /\ f[T] = IF T = {} THEN s ELSE F[<<Pick(T), f[T \ {Pick(T)}]>>]
                                              /\ f[T] \in S /\ <<T, f[T]>> \in Q
           Bad == {n \in Nat : ~ \E f : Folds(n, f)}
<1>0. /\ IsFiniteSet(R) /\ s \in S /\ F \in [R \X S -> S] /\ <<{}, s>> \in Q
      /\ \A T \in SUBSET R : \A x \in T, t \in S : <<T \ {x}, t>> \in Q => <<T, F[<<x, t>>]>> \in Q
  BY Zenon DEF Foldable
<1>1. \A T \in SUBSET R : IsFiniteSet(T) /\ Cardinality(T) \in Nat /\ Cardinality(T) <= Cardinality(R)
  BY <1>0, FS_Subset, FS_CardinalityType
<1>2. \A T \in SUBSET R : T # {} =>
        /\ Pick(T) \in T /\ T \ {Pick(T)} \in SUBSET R
        /\ Cardinality(T \ {Pick(T)}) = Cardinality(T) - 1
  <2> SUFFICES ASSUME NEW T \in SUBSET R, T # {}
               PROVE /\ Pick(T) \in T /\ T \ {Pick(T)} \in SUBSET R
                     /\ Cardinality(T \ {Pick(T)}) = Cardinality(T) - 1
    OBVIOUS
  <2>1. Pick(T) \in T
    BY Zenon
  <2> HIDE DEF Pick
  <2> QED
    BY <2>1, <1>1, FS_RemoveElement
<1>3. Bad = {}
  <2> SUFFICES ASSUME Bad # {} PROVE FALSE
    OBVIOUS
  <2>1. PICK n \in Bad : \A j \in Bad : n <= j
    <3>1. Bad \subseteq Nat
      OBVIOUS
    <3> HIDE DEF Bad
    <3> QED
      BY <3>1, LeastPosition
  <2>2. n \in Nat
    OBVIOUS
  <2>3. CASE n = 0
    <3> DEFINE f == [T \in SUBSET R |-> s]
    <3>1. \A T \in Small(0) : T = {}
      <4>1. \A T \in SUBSET R : Cardinality(T) = 0 => T = {}
        BY <1>1, FS_EmptySet
      <4>2. \A T \in SUBSET R : Cardinality(T) <= 0 => Cardinality(T) = 0
        <5>1. \A a \in Nat : a <= 0 => a = 0
          OBVIOUS
        <5> QED
          BY <1>1, <5>1, Zenon
      <4> QED
        BY <4>1, <4>2
    <3>2. Folds(0, f)
      BY <1>0, <3>1
    <3> QED
      BY <2>1, <2>3, <3>2
  <2>4. CASE n # 0
    <3>1. n - 1 \in Nat /\ n - 1 \notin Bad
      <4>1. n - 1 \in Nat
        BY <2>2, <2>4
      <4> HIDE DEF Bad
      <4> QED
        BY <2>1, <2>2, <4>1
    <3>2. PICK f : Folds(n - 1, f)
      <4> HIDE DEF Folds
      <4> QED
        BY <3>1
    <3> DEFINE g == [T \in SUBSET R |-> IF Cardinality(T) <= n - 1 THEN f[T]
                                        ELSE F[<<Pick(T), f[T \ {Pick(T)}]>>]]
    <3>3. ASSUME NEW T \in Small(n)
          PROVE  /\ g[T] = IF T = {} THEN s ELSE F[<<Pick(T), g[T \ {Pick(T)}]>>]
                 /\ g[T] \in S /\ <<T, g[T]>> \in Q
      <4>1. T \in SUBSET R /\ Cardinality(T) \in Nat /\ Cardinality(T) <= n
        BY <1>1
      <4>2. CASE T = {}
        <5>1. Cardinality(T) = 0
          BY <4>2, FS_EmptySet
        <5>2. g[T] = f[T] /\ T \in Small(n - 1)
          BY <4>1, <5>1, <3>1
        <5> QED
          BY <3>2, <4>2, <5>2
      <4>3. CASE T # {}
        <5> DEFINE x == Pick(T)
                   U == T \ {x}
        <5>1. x \in T /\ U \in SUBSET R /\ Cardinality(U) = Cardinality(T) - 1
          BY <1>2, <4>1, <4>3
        <5>2. U \in Small(n - 1) /\ g[U] = f[U]
          <6> HIDE DEF x, U, Pick
          <6>1. Cardinality(U) <= n - 1
            <7>1. \A b : \A a, c \in Nat : c <= a /\ b = c - 1 => b <= a - 1
              OBVIOUS
            <7> HIDE DEF g, Bad, Folds, Small
            <7> QED
              BY <4>1, <5>1, <2>2, <7>1, Zenon
          <6> QED
            BY <5>1, <6>1
        <5>3. f[U] \in S /\ <<U, f[U]>> \in Q
          BY <3>2, <5>2
        <5>4. g[T] = F[<<x, f[U]>>]
          <6>1. CASE Cardinality(T) <= n - 1
            <7>1. T \in Small(n - 1) /\ g[T] = f[T]
              BY <4>1, <6>1
            <7> QED
              BY <3>2, <4>3, <7>1
          <6>2. CASE ~ (Cardinality(T) <= n - 1)
            BY <4>1, <6>2
          <6> QED
            BY <6>1, <6>2
        <5> HIDE DEF g, x
        <5>5. F[<<x, f[U]>>] \in S /\ <<T, F[<<x, f[U]>>]>> \in Q
          BY <1>0, <4>1, <5>1, <5>3
        <5>6. g[T] = F[<<x, g[U]>>]
          BY <5>2, <5>4
        <5> QED
          BY <4>3, <5>4, <5>5, <5>6 DEF x
      <4> QED
        BY <4>2, <4>3
    <3>4. Folds(n, g)
      <4> HIDE DEF g
      <4> QED
        BY <3>3
    <3> HIDE DEF g
    <3> QED
      BY <2>1, <3>4
  <2> QED
    BY <2>3, <2>4
<1>4. Cardinality(R) \in Nat /\ Small(Cardinality(R)) = SUBSET R
  BY <1>1
<1>5. PICK f : Folds(Cardinality(R), f)
  BY <1>3, <1>4
<1> DEFINE g == [T \in SUBSET R |-> f[T]]
<1>6. ASSUME NEW T \in SUBSET R
      PROVE  /\ g[T] = IF T = {} THEN s ELSE LET x == CHOOSE y \in T : TRUE IN F[<<x, g[T \ {x}]>>]
             /\ g[T] \in S /\ <<T, g[T]>> \in Q
  <2>1. g[T] = f[T] /\ (T # {} => g[T \ {Pick(T)}] = f[T \ {Pick(T)}])
    BY <1>2
  <2>2. /\ f[T] = IF T = {} THEN s ELSE F[<<Pick(T), f[T \ {Pick(T)}]>>]
        /\ f[T] \in S /\ <<T, f[T]>> \in Q
    BY <1>4, <1>5
  <2> HIDE DEF g
  <2> QED
    BY <2>1, <2>2
<1>7. g = [T \in SUBSET R |-> g[T]]
  OBVIOUS
<1> HIDE DEF g
<1>8. g = [T \in SUBSET R |->
             IF T = {} THEN s ELSE LET x == CHOOSE y \in T : TRUE IN F[<<x, g[T \ {x}]>>]]
  BY <1>6, <1>7
<1> QED
  BY <1>6, <1>8, Zenon DEF IsFold

\* Two functions that compute the fold of a set from that of the set without the element
\* CHOOSE picks, in the same way, agree.
LEMMA FoldsAgree ==
  ASSUME NEW R, IsFiniteSet(R), NEW f, NEW g, f[{}] = g[{}],
         \A T \in SUBSET R : T # {} =>
           LET x == CHOOSE y \in T : TRUE IN f[T \ {x}] = g[T \ {x}] => f[T] = g[T]
  PROVE  f[R] = g[R]
<1> DEFINE Pick(T) == CHOOSE y \in T : TRUE
           Bad == {n \in Nat : \E T \in SUBSET R : Cardinality(T) = n /\ f[T] # g[T]}
<1>1. \A T \in SUBSET R : IsFiniteSet(T) /\ Cardinality(T) \in Nat
  BY FS_Subset, FS_CardinalityType
<1>2. Bad = {}
  <2> SUFFICES ASSUME Bad # {} PROVE FALSE
    OBVIOUS
  <2>1. PICK n \in Bad : \A j \in Bad : n <= j
    <3>1. Bad \subseteq Nat
      OBVIOUS
    <3> HIDE DEF Bad
    <3> QED
      BY <3>1, LeastPosition
  <2>2. PICK T \in SUBSET R : Cardinality(T) = n /\ f[T] # g[T]
    OBVIOUS
  <2>3. T # {}
    BY <2>2
  <2> DEFINE x == Pick(T)
             U == T \ {x}
  <2>4. x \in T /\ U \in SUBSET R
    BY <2>3, Zenon
  <2>5. f[U] # g[U]
    BY <2>2, <2>3, Zenon
  <2> HIDE DEF x
  <2>6. Cardinality(U) = Cardinality(T) - 1
    BY <1>1, <2>4, FS_RemoveElement
  <2>7. Cardinality(U) \in Nat /\ Cardinality(U) \in Bad
    BY <1>1, <2>4, <2>5
  <2> HIDE DEF U, Bad
  <2> QED
    BY <2>1, <2>2, <2>6, <2>7, <1>1
<1>3. Cardinality(R) \in Nat
  BY <1>1
<1> QED
  BY <1>2, <1>3
=============================================================================
