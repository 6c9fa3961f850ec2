--------------------------- MODULE LeastElements ---------------------------
(* Least and greatest elements of sets of numbers, from the library's fact *)
(* that finite sets are well founded under strict inclusion: the intervals *)
(* 0..n for n in a set of numbers have a least one.                        *)
EXTENDS Integers, FiniteSetTheorems, TLAPS

(* A nonempty set of natural numbers has a least element. *)
LEMMA LeastNatural ==
    ASSUME NEW S, S \subseteq Nat, S # {}
    PROVE  \E m \in S : \A n \in S : m <= n
  <1>. DEFINE T == {0..n : n \in S}
              R == StrictSubsetOrdering(Nat)
  <1>1. T \subseteq FiniteSubsetsOf(Nat) /\ T # {}
    <2>1. \A n \in S : 0..n \subseteq Nat /\ IsFiniteSet(0..n)
      BY FS_Interval
    <2>. QED BY <2>1 DEF FiniteSubsetsOf
  <1>2. IsWellFoundedOn(R, FiniteSubsetsOf(Nat))
    BY FS_StrictSubsetOrderingWellFounded
  <1>3. PICK x \in T : \A y \in T : ~ (<<y, x>> \in R)
    <2>. HIDE DEF T, R
    <2>. QED BY <1>1, <1>2, WFMin
  <1>4. PICK m \in S : x = 0..m
    OBVIOUS
  <1>5. ASSUME NEW n \in S, n < m
        PROVE  FALSE
    <2>1. 0..n \subseteq 0..m /\ m \in 0..m /\ m \notin 0..n
      BY <1>5
    <2>2. <<0..n, 0..m>> \in R
      <3>1. 0..n \in SUBSET Nat /\ 0..m \in SUBSET Nat
        BY <1>5
      <3>. QED BY <2>1, <3>1 DEF StrictSubsetOrdering
    <2>. QED BY <1>3, <1>4, <2>2
  <1>. QED BY <1>5

(* A nonempty set of natural numbers with an upper bound has a greatest one. *)
LEMMA GreatestNatural ==
    ASSUME NEW S, S \subseteq Nat, S # {}, NEW b \in Nat, \A n \in S : n <= b
    PROVE  \E m \in S : \A n \in S : n <= m
  <1>. DEFINE D == {b - n : n \in S}
  <1>1. D \subseteq Nat /\ D # {}
    <2>1. \A n \in S : b - n \in Nat
      OBVIOUS
    <2>. QED BY <2>1
  <1>2. PICK d \in D : \A e \in D : d <= e
    <2>. HIDE DEF D
    <2>. QED BY <1>1, LeastNatural
  <1>3. PICK m \in S : d = b - m
    OBVIOUS
  <1>4. ASSUME NEW n \in S
        PROVE  n <= m
    <2>1. b - n \in D
      OBVIOUS
    <2>2. d <= b - n
      BY <1>2, <2>1
    <2>3. n \in Nat /\ m \in Nat
      OBVIOUS
    <2>. HIDE DEF D
    <2>. QED BY <2>2, <2>3, <1>3
  <1>. QED BY <1>4
=============================================================================
