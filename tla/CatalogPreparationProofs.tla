---------------------- MODULE CatalogPreparationProofs ----------------------
(***************************************************************************)
(* Theorems about CatalogPreparation, for every value of the constants,    *)
(* every world the operator and the marketplaces can make of them, and any *)
(* number of attempts:                                                     *)
(*                                                                         *)
(*   1. the algorithms: what sorting and filtering return, the best price, *)
(*      the complete matrix of variants, the ranked opportunities;         *)
(*   2. Inv, an inductive invariant that says what every record can hold   *)
(*      (TypeCorrect);                                                     *)
(*   3. Parts, which says where each part of a package comes from: its     *)
(*      variants and prices are what the algorithms make of the            *)
(*      opportunity, its artwork is the stored one (OfferIsComplete,       *)
(*      PricesAreTheBest);                                                 *)
(*   4. Orderly, for attempts that do not overlap: what an attempt, the    *)
(*      run and the workflow know of each other (PackagesAreWhole,         *)
(*      NothingIsPaidTwice).                                               *)
(***************************************************************************)
EXTENDS CatalogPreparation, LeastElements, SequenceTheorems

-----------------------------------------------------------------------------
(* Sorting and filtering.  An order of finitely many elements has one       *)
(* element at every position, so SortedBy, which chooses it, permutes its   *)
(* argument; equal keys keep their order.                                   *)

(* A strict linear order of a finite set, given by what is ahead of each    *)
(* element: the numbers of elements ahead are 0, 1, 2, ...                  *)
LEMMA LinearOrder ==
    ASSUME NEW D, IsFiniteSet(D), NEW ahead,
           \A i \in D : ahead[i] \subseteq D /\ i \notin ahead[i],
           \A i, j \in D : i # j => i \in ahead[j] \/ j \in ahead[i],
           \A i, j \in D : j \in ahead[i] => ahead[j] \subseteq ahead[i]
    PROVE  /\ \A i \in D : /\ IsFiniteSet(ahead[i])
                           /\ Cardinality(ahead[i]) \in 0..(Cardinality(D) - 1)
           /\ \A i, j \in D : j \in ahead[i] => Cardinality(ahead[j]) < Cardinality(ahead[i])
           /\ \A n \in 1..Cardinality(D) : \E i \in D : Cardinality(ahead[i]) = n - 1
  <1>. DEFINE N == Cardinality(D)
              f == [i \in D |-> Cardinality(ahead[i])]
  <1>0. N \in Nat
    BY FS_CardinalityType
  <1>1. ASSUME NEW S \in SUBSET D, NEW T \in SUBSET S, S # T
        PROVE  /\ IsFiniteSet(S) /\ Cardinality(S) \in Nat
               /\ IsFiniteSet(T) /\ Cardinality(T) \in Nat
               /\ Cardinality(T) < Cardinality(S)
    <2>1. IsFiniteSet(S)
      BY FS_Subset
    <2>2. IsFiniteSet(T) /\ Cardinality(T) <= Cardinality(S)
          /\ (Cardinality(S) = Cardinality(T) => S = T)
      BY <2>1, FS_Subset
    <2>3. Cardinality(S) \in Nat /\ Cardinality(T) \in Nat
      BY <2>1, <2>2, FS_CardinalityType
    <2>. QED BY <1>1, <2>1, <2>2, <2>3
  <1>2. ASSUME NEW i \in D
        PROVE  IsFiniteSet(ahead[i]) /\ Cardinality(ahead[i]) \in 0..(N - 1)
    <2>1. ahead[i] \in SUBSET D /\ ahead[i] # D
      OBVIOUS
    <2>2. IsFiniteSet(ahead[i]) /\ Cardinality(ahead[i]) \in Nat /\ Cardinality(ahead[i]) < N
      BY <1>1, <2>1
    <2>. QED BY <1>0, <2>2
  <1>3. ASSUME NEW i \in D, NEW j \in D, j \in ahead[i]
        PROVE  Cardinality(ahead[j]) < Cardinality(ahead[i])
    <2>1. ahead[i] \in SUBSET D /\ ahead[j] \in SUBSET ahead[i] /\ ahead[i] # ahead[j]
      BY <1>3
    <2>. QED BY <1>1, <2>1
  <1>4. f \in Injection(D, 0..(N - 1))
    <2>1. f \in [D -> 0..(N - 1)]
      BY <1>2
    <2>2. ASSUME NEW i \in D, NEW j \in D, f[i] = f[j]
          PROVE  i = j
      <3>1. Cardinality(ahead[i]) = Cardinality(ahead[j])
        BY <2>2
      <3>2. Cardinality(ahead[i]) \in Int
        BY <1>0, <1>2
      <3>. QED BY <1>3, <3>1, <3>2
    <2>. QED BY <2>1, <2>2 DEF Injection, IsInjective
  <1>5. IsFiniteSet(0..(N - 1)) /\ Cardinality(0..(N - 1)) = N
    <2>. DEFINE last == N - 1
    <2>1. 0 \in Int /\ last \in Int /\ N = IF 0 > last THEN 0 ELSE last - 0 + 1
      BY <1>0
    <2>. HIDE DEF last, N
    <2>2. IsFiniteSet(0..last) /\ Cardinality(0..last) = IF 0 > last THEN 0 ELSE last - 0 + 1
      BY <2>1, FS_Interval
    <2>. QED BY <2>1, <2>2 DEF last
  <1>6. f \in Surjection(D, 0..(N - 1))
    BY <1>4, <1>5, FS_Injection
  <1>7. ASSUME NEW n \in 1..N
        PROVE  \E i \in D : Cardinality(ahead[i]) = n - 1
    <2>1. n - 1 \in 0..(N - 1)
      BY <1>0
    <2>2. PICK i \in D : f[i] = n - 1
      BY <1>6, <2>1 DEF Surjection
    <2>. QED BY <2>2
  <1>. QED BY <1>2, <1>3, <1>7

(* The order of tuples of one length is a strict linear order.              *)
LEMMA BeforeIsLinear ==
    ASSUME NEW L \in Nat, NEW s \in [1..L -> Int], NEW t \in [1..L -> Int]
    PROVE  /\ ~ Before(s, s)
           /\ s # t => Before(s, t) \/ Before(t, s)
           /\ \A u \in [1..L -> Int] : Before(s, t) /\ Before(t, u) => Before(s, u)
  <1>1. ~ Before(s, s)
    BY DEF Before
  <1>2. ASSUME s # t
        PROVE  Before(s, t) \/ Before(t, s)
    <2>. DEFINE W == {i \in 1..L : s[i] # t[i]}
    <2>1. W \subseteq Nat /\ W # {}
      BY <1>2
    <2>2. PICK i \in W : \A j \in W : i <= j
      BY <2>1, LeastNatural
    <2>3. \A j \in 1..(i - 1) : s[j] = t[j]
      <3>. SUFFICES ASSUME NEW j \in 1..(i - 1)
                    PROVE  s[j] = t[j]
        OBVIOUS
      <3>1. j \in 1..L /\ ~ (i <= j)
        BY <2>1, <2>2
      <3>. QED BY <2>2, <3>1
    <2>4. s[i] < t[i] \/ t[i] < s[i]
      BY <2>2
    <2>. QED BY <2>2, <2>3, <2>4 DEF Before
  <1>3. ASSUME NEW u \in [1..L -> Int], Before(s, t), Before(t, u)
        PROVE  Before(s, u)
    <2>1. PICK i \in 1..L : s[i] < t[i] /\ \A k \in 1..(i - 1) : s[k] = t[k]
      BY <1>3 DEF Before
    <2>2. PICK j \in 1..L : t[j] < u[j] /\ \A k \in 1..(j - 1) : t[k] = u[k]
      BY <1>3 DEF Before
    <2>3. CASE i <= j
      <3>1. s[i] < u[i]
        BY <2>1, <2>2, <2>3
      <3>2. \A k \in 1..(i - 1) : s[k] = u[k]
        BY <2>1, <2>2, <2>3
      <3>. QED BY <3>1, <3>2 DEF Before
    <2>4. CASE j < i
      <3>1. s[j] < u[j]
        BY <2>1, <2>2, <2>4
      <3>2. \A k \in 1..(j - 1) : s[k] = u[k]
        BY <2>1, <2>2, <2>4
      <3>. QED BY <3>1, <3>2 DEF Before
    <2>. QED BY <2>3, <2>4
  <1>. QED BY <1>1, <1>2, <1>3

\* r is s at the places in DOMAIN key, arranged by ascending keys, those with equal
\* keys as they are in s: p[n] is the place of the element that comes n-th.
Arranged(r, s, key, p) ==
    LET N == Cardinality(DOMAIN key)
    IN /\ p \in [1..N -> DOMAIN key]
       /\ r = [n \in 1..N |-> s[p[n]]]
       /\ \A i \in DOMAIN key : \E n \in 1..N : p[n] = i
       /\ \A m, n \in 1..N :
            m < n => \/ Before(key[p[m]], key[p[n]])
                     \/ key[p[m]] = key[p[n]] /\ p[m] < p[n]

(* SortedBy arranges the elements at the places it is given.                *)
LEMMA SortedByArranges ==
    ASSUME NEW s, NEW D \in SUBSET Nat, IsFiniteSet(D), NEW L \in Nat,
           NEW key \in [D -> [1..L -> Int]]
    PROVE  \E p : Arranged(SortedBy(s, key), s, key, p)
  <1>. DEFINE N == Cardinality(D)
              Ahead(i) == {j \in D : \/ Before(key[j], key[i])
                                     \/ key[j] = key[i] /\ j < i}
              ahead == [i \in D |-> Ahead(i)]
  <1>0. N \in Nat
    BY FS_CardinalityType
  <1>a. ASSUME NEW i \in D, NEW j \in D
        PROVE  /\ ~ Before(key[i], key[i])
               /\ key[i] # key[j] => Before(key[i], key[j]) \/ Before(key[j], key[i])
               /\ \A k \in D : Before(key[i], key[j]) /\ Before(key[j], key[k])
                                => Before(key[i], key[k])
    <2>1. \A k \in D : key[k] \in [1..L -> Int]
      OBVIOUS
    <2>. QED BY <2>1, BeforeIsLinear
  <1>1. \A i \in D : ahead[i] \subseteq D /\ i \notin ahead[i]
    BY <1>a
  <1>2. ASSUME NEW i \in D, NEW j \in D, i # j
        PROVE  i \in ahead[j] \/ j \in ahead[i]
    <2>1. i < j \/ j < i
      BY <1>2
    <2>. QED BY <1>a, <2>1
  <1>3. ASSUME NEW i \in D, NEW j \in D, j \in ahead[i]
        PROVE  ahead[j] \subseteq ahead[i]
    <2>. SUFFICES ASSUME NEW k \in D, k \in Ahead(j)
                  PROVE  k \in Ahead(i)
      OBVIOUS
    <2>a. j \in Ahead(i)
      BY <1>3
    <2>1. /\ Before(key[k], key[j]) \/ (key[k] = key[j] /\ k < j)
          /\ Before(key[j], key[i]) \/ (key[j] = key[i] /\ j < i)
      BY <2>a
    <2>2. i \in Int /\ j \in Int /\ k \in Int
      OBVIOUS
    <2>3. CASE Before(key[k], key[j]) /\ Before(key[j], key[i])
      BY <1>a, <2>3
    <2>4. CASE key[k] = key[j]
      BY <2>1, <2>2, <2>4
    <2>5. CASE key[j] = key[i]
      BY <2>1, <2>2, <2>5
    <2>. QED BY <2>1, <2>3, <2>4, <2>5
  <1>. DEFINE P(i, n) == i \in D /\ Cardinality(ahead[i]) = n - 1
              p == [n \in 1..N |-> CHOOSE i \in D : Cardinality(ahead[i]) = n - 1]
  <1>4. /\ \A i \in D : Cardinality(ahead[i]) \in 0..(N - 1)
        /\ \A i, j \in D : j \in ahead[i] => Cardinality(ahead[j]) < Cardinality(ahead[i])
        /\ \A n \in 1..N : \E i \in D : Cardinality(ahead[i]) = n - 1
    <2>. HIDE DEF ahead
    <2>. QED BY <1>1, <1>2, <1>3, LinearOrder
  <1>5. \A n \in 1..N : p[n] \in D /\ Cardinality(ahead[p[n]]) = n - 1
    <2>. HIDE DEF ahead
    <2>. QED BY <1>4
  <1>6. SortedBy(s, key) = [n \in 1..N |-> s[p[n]]]
    <2>1. SortedBy(s, key)
            = [n \in 1..N |-> s[CHOOSE i \in D : Cardinality(Ahead(i)) = n - 1]]
      BY DEF SortedBy
    <2>2. ASSUME NEW n \in 1..N
          PROVE  p[n] = CHOOSE i \in D : Cardinality(Ahead(i)) = n - 1
      <3>1. \A i \in D : ahead[i] = Ahead(i)
        OBVIOUS
      <3>. HIDE DEF Ahead, ahead
      <3>. QED BY <3>1
    <2>. HIDE DEF p
    <2>. QED BY <2>1, <2>2
  <1>7. ASSUME NEW i \in D
        PROVE  \E n \in 1..N : p[n] = i
    <2>. DEFINE n == Cardinality(ahead[i]) + 1
    <2>1. n \in 1..N /\ Cardinality(ahead[i]) \in Int
      <3>. HIDE DEF ahead, N
      <3>1. Cardinality(ahead[i]) \in 0..(N - 1)
        BY <1>4
      <3>2. \A c \in 0..(N - 1) : c + 1 \in 1..N /\ c \in Int
        BY <1>0
      <3>. QED BY <3>1, <3>2
    <2>2. p[n] \in D /\ Cardinality(ahead[p[n]]) = Cardinality(ahead[i])
      <3>. HIDE DEF p, ahead, N
      <3>. QED BY <1>5, <2>1
    <2>3. p[n] = i
      <3>. HIDE DEF p, n, ahead, N
      <3>1. ~ (Cardinality(ahead[i]) < Cardinality(ahead[p[n]]))
            /\ ~ (Cardinality(ahead[p[n]]) < Cardinality(ahead[i]))
        BY <2>1, <2>2
      <3>2. p[n] \notin ahead[i] /\ i \notin ahead[p[n]]
        BY <1>4, <2>2, <3>1
      <3>. QED BY <1>2, <2>2, <3>2
    <2>. QED BY <2>1, <2>3
  <1>8. ASSUME NEW m \in 1..N, NEW n \in 1..N, m < n
        PROVE  p[m] \in ahead[p[n]]
    <2>. HIDE DEF p, ahead, N
    <2>a. m \in Int /\ n \in Int
      BY <1>0
    <2>b. /\ p[m] \in D /\ Cardinality(ahead[p[m]]) = m - 1
          /\ p[n] \in D /\ Cardinality(ahead[p[n]]) = n - 1
      BY <1>5
    <2>c. p[m] # p[n] /\ ~ (Cardinality(ahead[p[n]]) < Cardinality(ahead[p[m]]))
      BY <1>8, <2>a, <2>b
    <2>1. p[m] # p[n] /\ p[n] \notin ahead[p[m]]
      BY <1>4, <2>b, <2>c
    <2>. QED BY <1>2, <1>5, <2>1
  <1>9. p \in [1..N -> D]
    BY <1>5
  <1>10. \A m, n \in 1..N :
           m < n => \/ Before(key[p[m]], key[p[n]])
                    \/ key[p[m]] = key[p[n]] /\ p[m] < p[n]
    <2>. SUFFICES ASSUME NEW m \in 1..N, NEW n \in 1..N, m < n
                  PROVE  \/ Before(key[p[m]], key[p[n]])
                         \/ key[p[m]] = key[p[n]] /\ p[m] < p[n]
      OBVIOUS
    <2>1. p[m] \in ahead[p[n]] /\ p[n] \in D
      BY <1>5, <1>8
    <2>. HIDE DEF p
    <2>. QED BY <2>1
  <1>. HIDE DEF p
  <1>11. Arranged(SortedBy(s, key), s, key, p)
    <2>1. DOMAIN key = D
      OBVIOUS
    <2>. HIDE DEF N
    <2>. QED BY <1>6, <1>7, <1>9, <1>10, <2>1 DEF Arranged, N
  <1>. QED BY <1>11

\* r has the elements of s at the places in D, in their order.
Keeps(r, s, D, p) ==
    LET N == Cardinality(D)
    IN /\ p \in [1..N -> D]
       /\ r = [n \in 1..N |-> s[p[n]]]
       /\ \A i \in D : \E n \in 1..N : p[n] = i
       /\ \A m, n \in 1..N : m < n => p[m] < p[n]

(* A comprehension keeps the elements at some places, in their order.       *)
LEMMA FilteredKeeps ==
    ASSUME NEW s, NEW D \in SUBSET Nat, IsFiniteSet(D)
    PROVE  \E p : Keeps(Filtered(s, D), s, D, p)
  <1>. DEFINE key == [i \in D |-> <<>>]
  <1>1. PICK L \in Nat : L = 0
    OBVIOUS
  <1>2. key \in [D -> [1..L -> Int]]
    BY <1>1
  <1>3. \A i, j \in D : ~ Before(key[i], key[j])
    BY DEF Before
  <1>4. Filtered(s, D) = SortedBy(s, key) /\ DOMAIN key = D
    BY DEF Filtered
  <1>. HIDE DEF key
  <1>5. PICK p : Arranged(SortedBy(s, key), s, key, p)
    BY <1>2, SortedByArranges
  <1>6. /\ p \in [1..Cardinality(D) -> D]
        /\ Filtered(s, D) = [n \in 1..Cardinality(D) |-> s[p[n]]]
        /\ \A i \in D : \E n \in 1..Cardinality(D) : p[n] = i
    BY <1>4, <1>5 DEF Arranged
  <1>7. \A m, n \in 1..Cardinality(D) : m < n => p[m] < p[n]
    BY <1>3, <1>4, <1>5, <1>6 DEF Arranged
  <1>. QED BY <1>6, <1>7 DEF Keeps

(* The image of a finite set under a function is finite. *)
LEMMA FiniteImage ==
    ASSUME NEW D, IsFiniteSet(D), NEW f
    PROVE  /\ IsFiniteSet({f[x] : x \in D})
           /\ Cardinality({f[x] : x \in D}) <= Cardinality(D)
  <1>. DEFINE g == [x \in D |-> f[x]]
              T == {f[x] : x \in D}
  <1>1. g \in Surjection(D, T)
    BY DEF Surjection
  <1>. QED BY <1>1, FS_Surjection

(* A sum of natural numbers is one. *)
LEMMA TotalIsNatural ==
    ASSUME NEW D, IsFiniteSet(D), NEW amount \in [D -> Nat]
    PROVE  Total(amount) \in Nat
  <1>. DEFINE f == [i \in D |-> {i} \X (1..amount[i])]
              T == {f[i] : i \in D}
  <1>1. IsFiniteSet(T)
    <2>. HIDE DEF f
    <2>. QED BY FiniteImage
  <1>2. \A i \in D : IsFiniteSet({i} \X (1..amount[i]))
    <2>1. \A i \in D : IsFiniteSet({i}) /\ IsFiniteSet(1..amount[i])
      BY FS_Singleton, FS_Interval
    <2>. QED BY <2>1, FS_Product
  <1>3. IsFiniteSet(UNION T)
    BY <1>1, <1>2, FS_UNION
  <1>4. UNION T = UNION {{i} \X (1..amount[i]) : i \in DOMAIN amount}
    OBVIOUS
  <1>. HIDE DEF T
  <1>. QED BY <1>3, <1>4, FS_CardinalityType DEF Total

(* The functions between two finite sets are finitely many. *)
LEMMA FiniteFunctions ==
    ASSUME NEW A, IsFiniteSet(A), NEW B, IsFiniteSet(B)
    PROVE  IsFiniteSet([A -> B])
  <1>. DEFINE graph == [f \in [A -> B] |-> {<<x, f[x]>> : x \in A}]
  <1>1. IsFiniteSet(SUBSET (A \X B))
    BY FS_Product, FS_SUBSET
  <1>2. graph \in [[A -> B] -> SUBSET (A \X B)]
    OBVIOUS
  <1>3. ASSUME NEW f \in [A -> B], NEW g \in [A -> B], graph[f] = graph[g]
        PROVE  f = g
    <2>1. ASSUME NEW x \in A
          PROVE  f[x] = g[x]
      <3>1. <<x, f[x]>> \in graph[f]
        OBVIOUS
      <3>2. <<x, f[x]>> \in {<<y, g[y]>> : y \in A}
        BY <1>3, <3>1
      <3>. QED BY <3>2
    <2>. QED BY <2>1
  <1>4. graph \in Injection([A -> B], SUBSET (A \X B))
    BY <1>2, <1>3 DEF Injection, IsInjective
  <1>. QED BY <1>1, <1>4, FS_Injection

(* The elements of a comprehension.                                        *)
LEMMA FilteredSeq ==
    ASSUME NEW V, NEW s \in Seq(V), NEW D \in SUBSET DOMAIN s
    PROVE  /\ IsFiniteSet(D) /\ Cardinality(D) \in Nat
           /\ Filtered(s, D) \in Seq(V) /\ Len(Filtered(s, D)) = Cardinality(D)
           /\ DOMAIN Filtered(s, D) = 1..Cardinality(D)
           /\ \E p : Keeps(Filtered(s, D), s, D, p)
  <1>1. D \subseteq 1..Len(s) /\ Len(s) \in Nat /\ \A i \in D : s[i] \in V
    OBVIOUS
  <1>2. IsFiniteSet(D) /\ Cardinality(D) \in Nat /\ D \subseteq Nat
    <2>1. IsFiniteSet(1..Len(s))
      BY <1>1, FS_Interval
    <2>2. IsFiniteSet(D)
      BY <1>1, <2>1, FS_Subset
    <2>. QED BY <1>1, <2>2, FS_CardinalityType
  <1>. DEFINE N == Cardinality(D)
              f == Filtered(s, D)
  <1>3. PICK p : Keeps(f, s, D, p)
    BY <1>2, FilteredKeeps
  <1>a. p \in [1..N -> D] /\ f = [n \in 1..N |-> s[p[n]]]
    BY <1>3 DEF Keeps
  <1>. HIDE DEF N, f
  <1>4. f \in [1..N -> V]
    BY <1>1, <1>a
  <1>5. f \in Seq(V) /\ Len(f) = N /\ DOMAIN f = 1..N
    <2>1. N \in Nat
      BY <1>2 DEF N
    <2>2. f \in Seq(V)
      BY <1>4, <2>1, SeqDef
    <2>. QED BY <1>4, <2>1, <2>2, LenProperties
  <1>. QED BY <1>2, <1>3, <1>5 DEF N, f

(* The elements of a sorted sequence.                                      *)
LEMMA SortedSeq ==
    ASSUME NEW V, NEW s \in Seq(V), NEW D \in SUBSET DOMAIN s, NEW L \in Nat,
           NEW key \in [D -> [1..L -> Int]]
    PROVE  /\ IsFiniteSet(D) /\ Cardinality(D) \in Nat
           /\ SortedBy(s, key) \in Seq(V) /\ Len(SortedBy(s, key)) = Cardinality(D)
           /\ DOMAIN SortedBy(s, key) = 1..Cardinality(D)
           /\ \E p : Arranged(SortedBy(s, key), s, key, p)
  <1>1. D \subseteq 1..Len(s) /\ Len(s) \in Nat /\ \A i \in D : s[i] \in V
    OBVIOUS
  <1>2. IsFiniteSet(D) /\ Cardinality(D) \in Nat /\ D \subseteq Nat
    <2>1. IsFiniteSet(1..Len(s))
      BY <1>1, FS_Interval
    <2>2. IsFiniteSet(D)
      BY <1>1, <2>1, FS_Subset
    <2>. QED BY <1>1, <2>2, FS_CardinalityType
  <1>. DEFINE f == SortedBy(s, key)
              N == Cardinality(D)
  <1>3. PICK p : Arranged(f, s, key, p)
    BY <1>2, SortedByArranges
  <1>4. p \in [1..N -> D] /\ f = [n \in 1..N |-> s[p[n]]] /\ N \in Nat
    BY <1>2, <1>3 DEF Arranged
  <1>. HIDE DEF N, f
  <1>5. f \in [1..N -> V]
    BY <1>1, <1>4
  <1>6. f \in Seq(V)
    BY <1>4, <1>5, SeqDef
  <1>7. Len(f) = N /\ DOMAIN f = 1..N
    BY <1>4, <1>5, <1>6, LenProperties
  <1>. QED BY <1>2, <1>3, <1>6, <1>7 DEF N, f

-----------------------------------------------------------------------------
(* Prices (domain/pricing.py).                                              *)

(* Division rounds down. *)
LEMMA Division ==
    ASSUME NEW a \in Int, NEW b \in Nat \ {0}
    PROVE  /\ a \div b \in Int
           /\ b * (a \div b) <= a /\ a < b * (a \div b) + b
  OBVIOUS

(* Multiplication by a natural number is monotone. *)
LEMMA Scaling ==
    ASSUME NEW k \in Nat, NEW x \in Int, NEW y \in Int, x <= y
    PROVE  k * x <= k * y
  OBVIOUS

(* CeilDiv is the least number whose multiple is not below the dividend. *)
LEMMA CeilDivIsLeast ==
    ASSUME NEW a \in Int, NEW b \in Nat \ {0}
    PROVE  /\ CeilDiv(a, b) \in Int
           /\ b * CeilDiv(a, b) >= a
           /\ \A x \in Int : b * x >= a => x >= CeilDiv(a, b)
  <1>. DEFINE q == (-a) \div b
  <1>1. q \in Int /\ b * q <= -a /\ -a < b * q + b
    BY Division
  <1>2. CeilDiv(a, b) = -q
    BY DEF CeilDiv
  <1>. HIDE DEF q
  <1>3. b * (-q) >= a
    BY <1>1
  <1>4. ASSUME NEW x \in Int, b * x >= a, x < -q
        PROVE  FALSE
    <2>1. q + 1 <= -x
      BY <1>1, <1>4
    <2>2. b * (q + 1) <= b * (-x)
      BY <1>1, <2>1, Scaling
    <2>3. b * (-x) <= -a /\ b * (q + 1) = b * q + b
      BY <1>1, <1>4
    <2>. QED BY <1>1, <2>2, <2>3
  <1>. QED BY <1>1, <1>2, <1>3, <1>4

(* RoundUpTo99 is the least price ending in 99 that is not below a limit. *)
LEMMA RoundUp ==
    ASSUME NEW n \in Nat
    PROVE  /\ RoundUpTo99(n) \in Nat /\ RoundUpTo99(n) >= n
           /\ RoundUpTo99(n) % 100 = 99
           /\ \A m \in Int : 100 * m - 1 >= n => 100 * m - 1 >= RoundUpTo99(n)
  BY DEF RoundUpTo99, CeilDiv

(* The highest price ending in 99 that is not above a limit                 *)
(* (_highest_99_at_or_below).                                               *)
LEMMA RoundDown ==
    ASSUME NEW n \in Int, n >= 99
    PROVE  /\ Highest99AtOrBelow(n) \in Nat /\ Highest99AtOrBelow(n) <= n
           /\ Highest99AtOrBelow(n) % 100 = 99
           /\ \A m \in Int : 100 * m - 1 <= n => 100 * m - 1 <= Highest99AtOrBelow(n)
  BY DEF Highest99AtOrBelow

(* FloorPrice is the least profitable price ending in 99. *)
LEMMA FloorPriceIsLeast ==
    ASSUME NEW v, v.cost \in Nat, v.shipping \in Nat
    PROVE  /\ FloorPrice(v) \in Nat /\ FloorPrice(v) >= 99 /\ FloorPrice(v) % 100 = 99
           /\ \A q \in Int : q >= FloorPrice(v) => Profitable(v, q)
           /\ \A n \in Nat \ {0} : Profitable(v, 100 * n - 1) => FloorPrice(v) <= 100 * n - 1
  <1>. DEFINE k == 1000 - PercentFee - TargetMargin
              f == 1000 * FixedCosts(v)
              c == CeilDiv(f, k)
              least == AtLeastZero(c - CustomerShipping)
  <1>1. k \in Nat \ {0} /\ f \in Nat /\ CustomerShipping \in Nat
    BY PricingAssumption DEF FixedCosts
  <1>2. FloorPrice(v) = RoundUpTo99(least)
    BY DEF FloorPrice
  <1>3. \A q : Profitable(v, q) <=> k * (q + CustomerShipping) >= f
    BY PricingAssumption DEF Profitable, FixedCosts
  <1>. HIDE DEF k, f
  <1>4. c \in Int /\ k * c >= f /\ \A x \in Int : k * x >= f => x >= c
    BY <1>1, CeilDivIsLeast
  <1>. HIDE DEF c
  <1>5. least \in Nat /\ least >= c - CustomerShipping
    BY <1>1, <1>4 DEF AtLeastZero
  <1>6. \A q \in Nat : q >= c - CustomerShipping => q >= least
    BY <1>1, <1>4 DEF AtLeastZero
  <1>. HIDE DEF least
  <1>7. /\ FloorPrice(v) \in Nat /\ FloorPrice(v) >= least /\ FloorPrice(v) % 100 = 99
        /\ \A m \in Int : 100 * m - 1 >= least => 100 * m - 1 >= FloorPrice(v)
    BY <1>2, <1>5, RoundUp
  <1>8. ASSUME NEW q \in Int, q >= FloorPrice(v)
        PROVE  Profitable(v, q)
    <2>1. q + CustomerShipping >= c
      BY <1>1, <1>4, <1>5, <1>7, <1>8
    <2>2. k * c <= k * (q + CustomerShipping)
      BY <1>1, <1>4, <2>1, Scaling
    <2>. QED BY <1>1, <1>3, <1>4, <2>2
  <1>9. ASSUME NEW n \in Nat \ {0}, Profitable(v, 100 * n - 1)
        PROVE  FloorPrice(v) <= 100 * n - 1
    <2>. DEFINE q == 100 * n - 1
    <2>1. q \in Nat
      OBVIOUS
    <2>. HIDE DEF q
    <2>2. k * (q + CustomerShipping) >= f /\ q + CustomerShipping \in Int
      BY <1>1, <1>3, <1>9, <2>1 DEF q
    <2>3. q >= c - CustomerShipping
      BY <1>1, <1>4, <2>1, <2>2
    <2>4. q >= least
      BY <1>6, <2>1, <2>3
    <2>. QED BY <1>7, <2>4 DEF q
  <1>10. FloorPrice(v) >= 99
    BY <1>7
  <1>. QED BY <1>7, <1>8, <1>9, <1>10

(* Undercut is the greatest price ending in 99 that undercuts the median. *)
LEMMA UndercutIsGreatest ==
    ASSUME NEW b \in Int
    PROVE  /\ Undercut(b) \in Int
           /\ Undercut(b) >= 99 =>
                /\ Undercut(b) % 100 = 99
                /\ b # Unknown /\ Undercut(b) + CustomerShipping < b
           /\ \A n \in Nat \ {0} : b # Unknown /\ 100 * n - 1 + CustomerShipping < b
                                  => 100 * n - 1 <= Undercut(b)
  <1>. DEFINE limit == b - CustomerShipping - 1
  <1>1. limit \in Int /\ CustomerShipping \in Nat
    BY PricingAssumption
  <1>2. CASE b = Unknown
    BY <1>2 DEF Undercut, Unknown
  <1>3. CASE b # Unknown /\ limit < 99
    <2>1. Undercut(b) = -1
      BY <1>3 DEF Undercut, Unknown, Highest99AtOrBelow
    <2>. QED BY <1>1, <1>3, <2>1
  <1>4. CASE b # Unknown /\ limit >= 99
    <2>1. Undercut(b) = Highest99AtOrBelow(limit)
      BY <1>4 DEF Undercut
    <2>. HIDE DEF limit
    <2>2. /\ Highest99AtOrBelow(limit) \in Nat /\ Highest99AtOrBelow(limit) <= limit
          /\ Highest99AtOrBelow(limit) % 100 = 99
          /\ \A m \in Int : 100 * m - 1 <= limit => 100 * m - 1 <= Highest99AtOrBelow(limit)
      BY <1>1, <1>4, RoundDown
    <2>. QED BY <1>1, <1>4, <2>1, <2>2 DEF limit
  <1>. QED BY <1>1, <1>2, <1>3, <1>4

(* competitive_price: a profitable price that ends in 99, the highest that     *)
(* undercuts the median if there is one, the lowest at all if there is none.  *)
THEOREM PriceIsBest ==
    ASSUME NEW v, v.cost \in Nat, v.shipping \in Nat, NEW b \in Int
    PROVE  LET p == CompetitivePrice(v, b)
               Undercuts(q) == b # Unknown /\ q + CustomerShipping < b
           IN /\ p.price \in Nat
              /\ p.price % 100 = 99 /\ Profitable(v, p.price)
              /\ p.undercut = "true" <=> Undercuts(p.price)
              /\ \A n \in Nat \ {0} : Profitable(v, 100 * n - 1) =>
                    IF Undercuts(p.price) THEN Undercuts(100 * n - 1) => 100 * n - 1 <= p.price
                    ELSE ~ Undercuts(100 * n - 1) /\ p.price <= 100 * n - 1
  <1>. DEFINE p == CompetitivePrice(v, b)
              Undercuts(q) == b # Unknown /\ q + CustomerShipping < b
              floor == FloorPrice(v)
              u == Undercut(b)
  <1>1. /\ floor \in Nat /\ floor >= 99 /\ floor % 100 = 99
        /\ \A q \in Int : q >= floor => Profitable(v, q)
        /\ \A n \in Nat \ {0} : Profitable(v, 100 * n - 1) => floor <= 100 * n - 1
    BY FloorPriceIsLeast
  <1>2. /\ u \in Int
        /\ u >= 99 => u % 100 = 99 /\ Undercuts(u)
        /\ \A n \in Nat \ {0} : Undercuts(100 * n - 1) => 100 * n - 1 <= u
    BY UndercutIsGreatest
  <1>3. p.price = (IF u >= floor THEN u ELSE floor)
    BY DEF CompetitivePrice
  <1>4. p.undercut = "true" <=> u >= floor
    BY DEF CompetitivePrice
  <1>. HIDE DEF p, floor, u
  <1>5. CustomerShipping \in Nat
    BY PricingAssumption
  <1>6. CASE u >= floor
    <2>1. p.price = u /\ u >= 99 /\ u \in Nat
      BY <1>1, <1>2, <1>3, <1>6
    <2>. QED BY <1>1, <1>2, <1>4, <1>6, <2>1 DEF p
  <1>7. CASE ~ (u >= floor)
    <2>1. p.price = floor
      BY <1>3, <1>7
    <2>2. PICK m \in Nat \ {0} : floor = 100 * m - 1
      <3>1. floor = 100 * (floor \div 100) + 99
        BY <1>1
      <3>2. floor \div 100 + 1 \in Nat \ {0} /\ floor = 100 * (floor \div 100 + 1) - 1
        BY <1>1, <3>1
      <3>. QED BY <3>2
    <2>3. ~ Undercuts(floor)
      BY <1>1, <1>2, <1>7, <2>2
    <2>4. ASSUME NEW n \in Nat \ {0}, Profitable(v, 100 * n - 1)
          PROVE  ~ Undercuts(100 * n - 1) /\ p.price <= 100 * n - 1
      <3>1. floor <= 100 * n - 1
        BY <1>1, <2>4
      <3>2. ~ Undercuts(100 * n - 1)
        BY <1>1, <1>2, <1>7, <3>1
      <3>. QED BY <2>1, <3>1, <3>2
    <2>. QED BY <1>1, <1>4, <1>7, <2>1, <2>3, <2>4 DEF p
  <1>. QED BY <1>6, <1>7

-----------------------------------------------------------------------------
(* The selection of variants (reduce_variation_axes).                       *)

(* The axes of some variants are finitely many.                            *)
LEMMA AxesAreFinite ==
    ASSUME NEW V, \A v \in V : IsVariant(v), NEW vs \in Seq(V)
    PROVE  IsFiniteSet(AxesOf(vs)) /\ AxesOf(vs) \subseteq Nat
  <1>. DEFINE f == [i \in DOMAIN vs |-> DOMAIN vs[i].options]
              T == {f[i] : i \in DOMAIN vs}
  <1>1. DOMAIN vs = 1..Len(vs) /\ Len(vs) \in Nat /\ \A i \in DOMAIN vs : vs[i] \in V
    OBVIOUS
  <1>2. \A i \in DOMAIN vs : IsFiniteSet(f[i]) /\ f[i] \subseteq Nat
    BY <1>1 DEF IsVariant, Cents, Unknown
  <1>3. IsFiniteSet(DOMAIN vs)
    BY <1>1, FS_Interval
  <1>4. AxesOf(vs) = UNION T
    BY DEF AxesOf
  <1>. HIDE DEF f
  <1>5. IsFiniteSet(T)
    BY <1>3, FiniteImage
  <1>. QED BY <1>2, <1>4, <1>5, FS_UNION

(* If no more axes exist than are kept, all are.                           *)
LEMMA FewAxesAreKept ==
    ASSUME NEW V, \A v \in V : IsVariant(v), NEW vs \in Seq(V),
           NEW maxAxes \in Nat, Cardinality(AxesOf(vs)) <= maxAxes
    PROVE  KeptAxes(vs, maxAxes) = AxesOf(vs)
  <1>. DEFINE A == AxesOf(vs)
              Richness(axis) == Cardinality(ValuesOn(vs, axis))
              Ahead(axis) == {b \in A : \/ Richness(b) > Richness(axis)
                                        \/ Richness(b) = Richness(axis) /\ b < axis}
  <1>1. IsFiniteSet(A) /\ A \subseteq Nat /\ Cardinality(A) \in Nat
    BY AxesAreFinite, FS_CardinalityType
  <1>2. ASSUME NEW axis \in A
        PROVE  Cardinality(Ahead(axis)) < maxAxes
    <2>. DEFINE D == A \ {axis}
    <2>1. Cardinality(D) = Cardinality(A) - 1 /\ IsFiniteSet(D)
      BY <1>1, FS_RemoveElement
    <2>2. IsFiniteSet(ValuesOn(vs, axis)) /\ Richness(axis) \in Nat
      <3>. DEFINE W == With(vs, axis)
                  g == [i \in W |-> vs[i].options[axis]]
      <3>1. IsFiniteSet(W)
        <4>1. W \subseteq 1..Len(vs) /\ Len(vs) \in Nat
          BY DEF With
        <4>2. IsFiniteSet(1..Len(vs))
          BY <4>1, FS_Interval
        <4>. QED BY <4>1, <4>2, FS_Subset
      <3>2. IsFiniteSet({g[i] : i \in W})
        <4>. HIDE DEF g, W
        <4>. QED BY <3>1, FiniteImage
      <3>3. ValuesOn(vs, axis) = {g[i] : i \in W}
        BY DEF ValuesOn
      <3>. QED BY <3>2, <3>3, FS_CardinalityType
    <2>3. axis \in Nat
      BY <1>1
    <2>4. Ahead(axis) \subseteq D
      <3>1. ~ (Richness(axis) > Richness(axis)) /\ ~ (axis < axis)
        BY <2>2, <2>3
      <3>. QED BY <3>1
    <2>5. IsFiniteSet(Ahead(axis)) /\ Cardinality(Ahead(axis)) <= Cardinality(D)
      <3>. HIDE DEF D
      <3>. QED BY <2>1, <2>4, FS_Subset
    <2>6. Cardinality(Ahead(axis)) \in Nat /\ Cardinality(D) \in Nat
      BY <2>1, <2>5, FS_CardinalityType
    <2>. HIDE DEF D, Ahead, A
    <2>. QED BY <1>1, <2>1, <2>5, <2>6 DEF A
  <1>. QED BY <1>2 DEF KeptAxes

(* The variants that are left when further axes are collapsed, by their cost. *)
Usable(vs) == Filtered(vs, Available(vs))
Ranking(vs, maxAxes) == RankedByCost(Collapsed(Usable(vs), maxAxes))

(* Every element of s is one of t. *)
From(s, t) == \A n \in DOMAIN s : \E i \in DOMAIN t : s[n] = t[i]

(* Filtering keeps the available variants and nothing else. *)
LEMMA UsableVariants ==
    ASSUME NEW V, NEW vs \in Seq(V)
    PROVE  /\ Usable(vs) \in Seq(V) /\ From(Usable(vs), vs)
           /\ \A n \in DOMAIN Usable(vs) : Usable(vs)[n].available
           /\ \A i \in DOMAIN vs : vs[i].available => \E n \in DOMAIN Usable(vs) : Usable(vs)[n] = vs[i]
  <1>. DEFINE D == Available(vs)
              u == Filtered(vs, D)
  <1>1. D \in SUBSET DOMAIN vs
    BY DEF Available
  <1>. HIDE DEF D
  <1>2. /\ u \in Seq(V) /\ DOMAIN u = 1..Cardinality(D)
        /\ \E p : Keeps(u, vs, D, p)
    BY <1>1, FilteredSeq
  <1>. HIDE DEF u
  <1>3. PICK p : Keeps(u, vs, D, p)
    BY <1>2
  <1>4. \A n \in DOMAIN u : p[n] \in D /\ u[n] = vs[p[n]]
    BY <1>2, <1>3 DEF Keeps
  <1>5. \A i \in D : \E n \in DOMAIN u : u[n] = vs[i]
    BY <1>2, <1>3, <1>4 DEF Keeps
  <1>6. Usable(vs) = u
    BY DEF Usable, u, D
  <1>. QED BY <1>1, <1>2, <1>4, <1>5, <1>6 DEF D, Available, From

(* What is left has one value on every further axis, and every variant whose *)
(* options are among what is left.                                           *)
Further(vs, maxAxes) == AxesOf(vs) \ KeptAxes(vs, maxAxes)

(* Narrowing the further axes leaves variants that all have the preferred   *)
(* value there, and all of those.                                           *)
LEMMA CollapsedVariants ==
    ASSUME NEW V, NEW vs \in Seq(V), NEW maxAxes
    PROVE  LET c == Collapsed(vs, maxAxes)
           IN /\ c \in Seq(V) /\ From(c, vs)
              /\ \A n \in DOMAIN c : \A axis \in Further(vs, maxAxes) :
                    axis \in DOMAIN c[n].options
                    /\ c[n].options[axis] = Preferred(vs, axis)
              /\ \A i \in DOMAIN vs :
                    (\/ Further(vs, maxAxes) = {}
                     \/ \E n \in DOMAIN c : c[n].options = vs[i].options)
                    => \E n \in DOMAIN c : c[n] = vs[i]
  <1>. DEFINE F == Further(vs, maxAxes)
              Stays(i) == \A axis \in F : i \in Holding(vs, axis, Preferred(vs, axis))
              D == {i \in DOMAIN vs : Stays(i)}
              c == Filtered(vs, D)
  <1>1. D \in SUBSET DOMAIN vs
    OBVIOUS
  <1>a. \A i \in DOMAIN vs :
          i \in D <=> \A axis \in F : /\ axis \in DOMAIN vs[i].options
                                      /\ vs[i].options[axis] = Preferred(vs, axis)
    BY DEF Holding, With
  <1>6. Collapsed(vs, maxAxes) = c
    BY DEF Collapsed, Further
  <1>. HIDE DEF D, F
  <1>2. /\ c \in Seq(V) /\ DOMAIN c = 1..Cardinality(D)
        /\ \E p : Keeps(c, vs, D, p)
    BY <1>1, FilteredSeq
  <1>. HIDE DEF c
  <1>3. PICK p : Keeps(c, vs, D, p)
    BY <1>2
  <1>4. \A n \in DOMAIN c : p[n] \in D /\ c[n] = vs[p[n]]
    BY <1>2, <1>3 DEF Keeps
  <1>5. \A i \in D : \E n \in DOMAIN c : c[n] = vs[i]
    BY <1>2, <1>3, <1>4 DEF Keeps
  <1>7. From(c, vs)
    BY <1>1, <1>4 DEF From
  <1>8. \A n \in DOMAIN c : \A axis \in F : /\ axis \in DOMAIN c[n].options
                                            /\ c[n].options[axis] = Preferred(vs, axis)
    BY <1>1, <1>4, <1>a
  <1>9. ASSUME NEW i \in DOMAIN vs, F = {} \/ \E n \in DOMAIN c : c[n].options = vs[i].options
        PROVE  \E n \in DOMAIN c : c[n] = vs[i]
    <2>1. i \in D
      BY <1>9, <1>8, <1>a
    <2>. QED BY <2>1, <1>5
  <1>. QED BY <1>2, <1>6, <1>7, <1>8, <1>9 DEF F

(* Ranking by cost keeps every variant and puts none before a cheaper one. *)
LEMMA RankedVariants ==
    ASSUME NEW V, \A v \in V : IsVariant(v), NEW vs \in Seq(V)
    PROVE  LET r == RankedByCost(vs)
           IN /\ r \in Seq(V) /\ From(r, vs) /\ From(vs, r)
              /\ \A m, n \in DOMAIN r : m < n => r[m].cost <= r[n].cost
  <1>. DEFINE D == DOMAIN vs
              key == [i \in D |-> <<vs[i].cost, vs[i].id>>]
              r == SortedBy(vs, key)
  <1>1. PICK L \in Nat : L = 2
    OBVIOUS
  <1>2. key \in [D -> [1..L -> Int]]
    <2>1. \A i \in D : vs[i].cost \in Int /\ vs[i].id \in Int
      BY DEF IsVariant, Cents, Unknown
    <2>2. \A x, y \in Int : <<x, y>> \in [1..2 -> Int]
      OBVIOUS
    <2>. QED BY <1>1, <2>1, <2>2
  <1>3. RankedByCost(vs) = r
    BY DEF RankedByCost
  <1>4. \A i \in D : key[i][1] = vs[i].cost
    OBVIOUS
  <1>a. DOMAIN key = D
    OBVIOUS
  <1>5. \A i \in D : key[i] = <<vs[i].cost, vs[i].id>> /\ vs[i].cost \in Int /\ vs[i].id \in Int
    BY DEF IsVariant, Cents, Unknown
  <1>. HIDE DEF key
  <1>6. /\ r \in Seq(V) /\ DOMAIN r = 1..Cardinality(D)
        /\ \E p : Arranged(r, vs, key, p)
    BY <1>2, SortedSeq
  <1>. HIDE DEF r
  <1>7. PICK p : Arranged(r, vs, key, p)
    BY <1>6
  <1>8. \A n \in DOMAIN r : p[n] \in D /\ r[n] = vs[p[n]]
    BY <1>a, <1>6, <1>7 DEF Arranged
  <1>9. From(r, vs) /\ From(vs, r)
    BY <1>a, <1>6, <1>7, <1>8 DEF From, Arranged
  <1>10. ASSUME NEW m \in DOMAIN r, NEW n \in DOMAIN r, m < n
         PROVE  r[m].cost <= r[n].cost
    <2>1. \/ Before(key[p[m]], key[p[n]]) 
          \/ key[p[m]] = key[p[n]]
      BY <1>a, <1>6, <1>7, <1>10 DEF Arranged
    <2>2. ASSUME NEW i \in D, NEW j \in D, Before(key[i], key[j])
          PROVE  key[i][1] <= key[j][1]
      <3>1. DOMAIN key[i] = {1, 2} /\ key[i][1] \in Int /\ key[j][1] \in Int
        BY <1>5
      <3>2. PICK x \in DOMAIN key[i] :
                /\ key[i][x] < key[j][x]
                /\ \A y \in 1..(x - 1) : key[i][y] = key[j][y]
        BY <2>2 DEF Before
      <3>3. CASE x = 1
        BY <3>1, <3>2, <3>3
      <3>4. CASE x = 2
        <4>1. 1 \in 1..(x - 1)
          BY <3>4
        <4>. QED BY <3>1, <3>2, <4>1
      <3>. QED BY <3>1, <3>2, <3>3, <3>4
    <2>3. key[p[m]][1] <= key[p[n]][1]
      <3>1. p[m] \in D /\ p[n] \in D
        BY <1>8
      <3>. QED BY <2>1, <2>2, <3>1, <1>5
    <2>. QED BY <1>4, <1>8, <2>3
  <1>. QED BY <1>3, <1>6, <1>9, <1>10

\* All have the same value on some axis.
Uniform(r) == \E axis, x : \A n \in DOMAIN r :
                  axis \in DOMAIN r[n].options /\ r[n].options[axis] = x

(* The ranking of the variants that are left.                              *)
LEMMA RankingVariants ==
    ASSUME NEW V, \A v \in V : IsVariant(v), NEW vs \in Seq(V), NEW maxAxes \in Nat
    PROVE  LET r == Ranking(vs, maxAxes)
               u == Usable(vs)
           IN /\ u \in Seq(V) /\ r \in Seq(V) /\ From(r, vs)
              /\ \A n \in DOMAIN r : r[n].available
              /\ \A m, n \in DOMAIN r : m < n => r[m].cost <= r[n].cost
              /\ \A i \in DOMAIN vs :
                    vs[i].available /\ (\E n \in DOMAIN r : r[n].options = vs[i].options)
                    => \E n \in DOMAIN r : r[n] = vs[i]
              /\ \/ AxesOf(r) = AxesOf(u)
                 \/ Cardinality(AxesOf(u)) > maxAxes /\ Uniform(r)
  <1>. DEFINE u == Usable(vs)
              c == Collapsed(u, maxAxes)
              r == Ranking(vs, maxAxes)
  <1>1. /\ u \in Seq(V) /\ From(u, vs)
        /\ \A n \in DOMAIN u : u[n].available
        /\ \A i \in DOMAIN vs : vs[i].available => \E n \in DOMAIN u : u[n] = vs[i]
    BY UsableVariants
  <1>. HIDE DEF u
  <1>2. /\ c \in Seq(V) /\ From(c, u)
        /\ \A n \in DOMAIN c : \A axis \in Further(u, maxAxes) :
              axis \in DOMAIN c[n].options /\ c[n].options[axis] = Preferred(u, axis)
        /\ \A i \in DOMAIN u :
              (\/ Further(u, maxAxes) = {}
               \/ \E n \in DOMAIN c : c[n].options = u[i].options)
              => \E n \in DOMAIN c : c[n] = u[i]
    BY <1>1, CollapsedVariants
  <1>3. r = RankedByCost(c)
    BY DEF Ranking, u
  <1>. HIDE DEF c, r
  <1>4. /\ r \in Seq(V) /\ From(r, c) /\ From(c, r)
        /\ \A m, n \in DOMAIN r : m < n => r[m].cost <= r[n].cost
    BY <1>2, <1>3, RankedVariants
  <1>5. From(r, u) /\ From(r, vs)
    BY <1>1, <1>2, <1>4 DEF From
  <1>6. \A n \in DOMAIN r : r[n].available
    BY <1>1, <1>5 DEF From
  <1>7. ASSUME NEW i \in DOMAIN vs, vs[i].available, NEW m \in DOMAIN r, r[m].options = vs[i].options
        PROVE  \E n \in DOMAIN r : r[n] = vs[i]
    <2>1. PICK j \in DOMAIN u : u[j] = vs[i]
      BY <1>1, <1>7
    <2>2. PICK l \in DOMAIN c : c[l] = r[m]
      BY <1>4 DEF From
    <2>3. \E n \in DOMAIN c : c[n] = u[j]
      BY <1>2, <1>7, <2>1, <2>2
    <2>. QED BY <1>4, <2>1, <2>3 DEF From
  <1>8. CASE Further(u, maxAxes) = {}
    <2>1. From(u, c)
      BY <1>2, <1>8 DEF From
    <2>2. From(u, r)
      BY <1>4, <2>1 DEF From
    <2>3. AxesOf(r) = AxesOf(u)
      BY <1>5, <2>2 DEF From, AxesOf
    <2>. QED BY <1>1, <1>4, <1>5, <1>6, <1>7, <2>3 DEF u, r
  <1>9. CASE Further(u, maxAxes) # {}
    <2>1. PICK axis : axis \in Further(u, maxAxes)
      BY <1>9
    <2>2. \A n \in DOMAIN r : axis \in DOMAIN r[n].options /\ r[n].options[axis] = Preferred(u, axis)
      BY <1>2, <1>4, <2>1 DEF From
    <2>3. Cardinality(AxesOf(u)) > maxAxes
      <3>1. Cardinality(AxesOf(u)) \in Nat
        BY <1>1, AxesAreFinite, FS_CardinalityType
      <3>2. ~ (Cardinality(AxesOf(u)) <= maxAxes)
        BY <1>1, <1>9, FewAxesAreKept DEF Further
      <3>. QED BY <3>1, <3>2
    <2>4. Uniform(r)
      BY <2>2 DEF Uniform
    <2>. QED BY <1>1, <1>4, <1>5, <1>6, <1>7, <2>3, <2>4 DEF u, r
  <1>. QED BY <1>8, <1>9

(* The combinations of option values that exist.                           *)
LEMMA CombinationsExist ==
    ASSUME NEW V, \A v \in V : IsVariant(v), NEW r \in Seq(V)
    PROVE  /\ IsFiniteSet(Combinations(r)) /\ Combinations(r) \subseteq [AxesOf(r) -> Nat]
           /\ \A k \in Combinations(r) : \E i \in DOMAIN r : r[i].options = k
  <1>. DEFINE W == {j \in DOMAIN r : DOMAIN r[j].options = AxesOf(r)}
              f == [i \in W |-> r[i].options]
  <1>1. W \subseteq 1..Len(r) /\ Len(r) \in Nat
    OBVIOUS
  <1>2. IsFiniteSet(1..Len(r))
    BY <1>1, FS_Interval
  <1>3. IsFiniteSet(W)
    BY <1>1, <1>2, FS_Subset
  <1>4. Combinations(r) = {f[i] : i \in W}
    BY DEF Combinations
  <1>5. \A i \in W : f[i] \in [AxesOf(r) -> Nat] /\ f[i] = r[i].options /\ i \in DOMAIN r
    BY DEF IsVariant, Cents, Unknown
  <1>. HIDE DEF W, f
  <1>6. IsFiniteSet(Combinations(r))
    BY <1>3, <1>4, FiniteImage
  <1>. QED BY <1>4, <1>5, <1>6

(* No two values have the same place on their axis.                        *)
Present(r, axis) == {k[axis] : k \in Combinations(r)}

(* Two values of an axis never share a place: the places number them. *)
LEMMA PlacesDiffer ==
    ASSUME NEW V, \A v \in V : IsVariant(v), NEW r \in Seq(V), NEW axis \in AxesOf(r)
    PROVE  /\ IsFiniteSet(Present(r, axis))
           /\ DOMAIN Places(r)[axis] = Present(r, axis)
           /\ \A x \in Present(r, axis) : Places(r)[axis][x] \in 1..Cardinality(Present(r, axis))
           /\ \A x, y \in Present(r, axis) : Places(r)[axis][x] = Places(r)[axis][y] => x = y
  <1>. DEFINE K == Combinations(r)
              D == Present(r, axis)
              In(x) == Cardinality({k \in K : k[axis] = x})
              First(x) == Min(Holding(r, axis, x))
              Ahead(v) == {x \in D : \/ In(x) > In(v)
                                     \/ In(x) = In(v) /\ First(x) < First(v)}
              ahead == [v \in D |-> Ahead(v)]
  <1>1. /\ IsFiniteSet(K) /\ K \subseteq [AxesOf(r) -> Nat]
        /\ \A k \in K : \E i \in DOMAIN r : r[i].options = k
    BY CombinationsExist
  <1>2. IsFiniteSet(D)
    <2>. DEFINE f == [k \in K |-> k[axis]]
    <2>1. D = {f[k] : k \in K}
      BY DEF Present
    <2>. HIDE DEF f, K
    <2>. QED BY <1>1, <2>1, FiniteImage
  <1>3. ASSUME NEW x \in D
        PROVE  /\ In(x) \in Nat /\ First(x) \in Nat
               /\ First(x) \in Holding(r, axis, x)
    <2>1. IsFiniteSet({k \in K : k[axis] = x})
      BY <1>1, FS_Subset
    <2>2. PICK k \in K : k[axis] = x
      BY DEF Present
    <2>3. PICK i \in DOMAIN r : r[i].options = k
      BY <1>1
    <2>4. i \in Holding(r, axis, x)
      BY <1>1, <2>2, <2>3 DEF Holding, With
    <2>5. Holding(r, axis, x) \subseteq Nat
      BY DEF Holding, With
    <2>6. \E m \in Holding(r, axis, x) : \A n \in Holding(r, axis, x) : m <= n
      BY <2>4, <2>5, LeastNatural
    <2>7. First(x) \in Holding(r, axis, x)
      BY <2>6 DEF Min
    <2>. QED BY <2>1, <2>5, <2>7, FS_CardinalityType
  <1>4. \A x, y \in D : First(x) = First(y) => x = y
    BY <1>3 DEF Holding
  <1>. HIDE DEF In, First, D
  <1>5. /\ \A v \in D : ahead[v] \subseteq D /\ v \notin ahead[v]
        /\ \A v, w \in D : v # w => v \in ahead[w] \/ w \in ahead[v]
    BY <1>3, <1>4
  <1>6. ASSUME NEW v \in D, NEW w \in D, w \in ahead[v]
        PROVE  ahead[w] \subseteq ahead[v]
    BY <1>3, <1>6
  <1>7. /\ \A v \in D : Cardinality(ahead[v]) \in 0..(Cardinality(D) - 1)
        /\ \A v, w \in D : w \in ahead[v] => Cardinality(ahead[w]) < Cardinality(ahead[v])
    <2>. HIDE DEF ahead
    <2>. QED BY <1>2, <1>5, <1>6, LinearOrder
  <1>8. DOMAIN Places(r)[axis] = D /\ \A v \in D : Places(r)[axis][v] = 1 + Cardinality(ahead[v])
    <2>1. Places(r)[axis] = [x \in D |-> Place(r, axis, x)]
      BY DEF Places, Present, D
    <2>2. ASSUME NEW v \in D
          PROVE  Place(r, axis, v) = 1 + Cardinality(ahead[v])
      <3>1. D = {k[axis] : k \in K}
        BY DEF D, Present
      <3>2. Place(r, axis, v) = 1 + Cardinality(Ahead(v))
        BY <3>1 DEF Place, In, First
      <3>. QED BY <3>2
    <2>. QED BY <2>1, <2>2
  <1>9. Cardinality(D) \in Nat
    BY <1>2, FS_CardinalityType
  <1>. HIDE DEF ahead
  <1>10. \A v \in D : Places(r)[axis][v] \in 1..Cardinality(D)
    BY <1>7, <1>8, <1>9
  <1>11. ASSUME NEW x \in D, NEW y \in D, Places(r)[axis][x] = Places(r)[axis][y]
         PROVE  x = y
    <2>1. /\ Cardinality(ahead[x]) \in Int /\ Cardinality(ahead[y]) \in Int
          /\ Cardinality(ahead[x]) = Cardinality(ahead[y])
      BY <1>7, <1>8, <1>9, <1>11
    <2>2. ~ (Cardinality(ahead[x]) < Cardinality(ahead[y])) /\ ~ (Cardinality(ahead[y]) < Cardinality(ahead[x]))
      BY <2>1
    <2>. QED BY <1>5, <1>7, <2>2
  <1>. QED BY <1>2, <1>8, <1>10, <1>11 DEF D

(* A finite linear order has a first element.                              *)
LEMMA FirstInOrder ==
    ASSUME NEW D, IsFiniteSet(D), D # {}, NEW ahead,
           \A i \in D : ahead[i] \subseteq D /\ i \notin ahead[i],
           \A i, j \in D : i # j => i \in ahead[j] \/ j \in ahead[i],
           \A i, j \in D : j \in ahead[i] => ahead[j] \subseteq ahead[i]
    PROVE  \E i \in D : \A j \in D \ {i} : i \in ahead[j]
  <1>1. /\ \A i \in D : IsFiniteSet(ahead[i])
        /\ \A n \in 1..Cardinality(D) : \E i \in D : Cardinality(ahead[i]) = n - 1
    BY LinearOrder
  <1>2. Cardinality(D) \in Nat /\ Cardinality(D) # 0
    BY FS_CardinalityType, FS_EmptySet
  <1>3. PICK i \in D : Cardinality(ahead[i]) = 0
    <2>1. 1 \in 1..Cardinality(D)
      BY <1>2
    <2>. QED BY <1>1, <2>1
  <1>4. ahead[i] = {}
    BY <1>1, <1>3, FS_EmptySet
  <1>. QED BY <1>4

(* A finite nonempty set of numbers has a greatest one.                    *)
LEMMA FiniteMax ==
    ASSUME NEW S, IsFiniteSet(S), S # {}, S \subseteq Int
    PROVE  Max(S) \in S /\ \A x \in S : x <= Max(S)
  <1>. DEFINE ahead == [x \in S |-> {y \in S : y > x}]
  <1>1. /\ \A i \in S : ahead[i] \subseteq S /\ i \notin ahead[i]
        /\ \A i, j \in S : i # j => i \in ahead[j] \/ j \in ahead[i]
        /\ \A i, j \in S : j \in ahead[i] => ahead[j] \subseteq ahead[i]
    <2>1. \A i \in S : i \in Int
      OBVIOUS
    <2>2. \A i, j \in S : j \in ahead[i] <=> j > i
      OBVIOUS
    <2>3. \A i \in S : ahead[i] \subseteq S
      OBVIOUS
    <2>. HIDE DEF ahead
    <2>4. \A i \in S : i \notin ahead[i]
      BY <2>1, <2>2
    <2>5. \A i, j \in S : i # j => i \in ahead[j] \/ j \in ahead[i]
      BY <2>1, <2>2
    <2>6. ASSUME NEW i \in S, NEW j \in S, j \in ahead[i]
          PROVE  ahead[j] \subseteq ahead[i]
      <3>1. j > i /\ i \in Int /\ j \in Int
        BY <2>1, <2>2, <2>6
      <3>2. \A k \in S : k > j => k > i
        BY <2>1, <3>1
      <3>. QED BY <2>2, <2>3, <3>2
    <2>. QED BY <2>3, <2>4, <2>5, <2>6
  <1>2. PICK m \in S : \A j \in S \ {m} : m \in ahead[j]
    <2>. HIDE DEF ahead
    <2>. QED BY <1>1, FirstInOrder
  <1>3. \A x \in S : m >= x
    BY <1>2
  <1>. QED BY <1>3 DEF Max

(* The combinations that a prefix stands for, as places.                   *)
Box(A, l) == {k \in [A -> Nat \ {0}] : \A axis \in A : k[axis] <= l[axis]}

(* The size of a prefix is the number of points of its box. *)
LEMMA SizeIsBox ==
    ASSUME NEW A, IsFiniteSet(A), NEW l \in [A -> Nat \ {0}]
    PROVE  IsFiniteSet(Box(A, l)) /\ Size(l) = Cardinality(Box(A, l)) /\ Size(l) \in Nat
  <1>. DEFINE T == {1} \cup {l[axis] : axis \in A}
              longest == Max(T)
              B == {k \in [A -> 1..longest] : \A axis \in A : k[axis] <= l[axis]}
  <1>1. IsFiniteSet(T) /\ T \subseteq Int /\ T # {}
    <2>1. IsFiniteSet({l[axis] : axis \in A})
      BY FiniteImage
    <2>2. IsFiniteSet({1})
      BY FS_Singleton
    <2>3. IsFiniteSet(T)
      BY <2>1, <2>2, FS_Union
    <2>4. \A axis \in A : l[axis] \in Int
      OBVIOUS
    <2>. QED BY <2>3, <2>4
  <1>2. longest \in Nat /\ \A axis \in A : l[axis] <= longest
    <2>1. longest \in T /\ \A x \in T : x <= longest
      BY <1>1, FiniteMax
    <2>. QED BY <2>1
  <1>. HIDE DEF longest
  <1>3. B = Box(A, l)
    <2>1. ASSUME NEW k \in [A -> Nat \ {0}], \A axis \in A : k[axis] <= l[axis]
          PROVE  k \in [A -> 1..longest]
      <3>1. \A axis \in A : k[axis] \in 1..longest
        BY <1>2, <2>1
      <3>. QED BY <3>1
    <2>2. \A k \in B : k \in [A -> Nat \ {0}]
      BY <1>2
    <2>. QED BY <2>1, <2>2 DEF Box
  <1>4. IsFiniteSet([A -> 1..longest])
    <2>1. IsFiniteSet(1..longest)
      BY <1>2, FS_Interval
    <2>. QED BY <2>1, FiniteFunctions
  <1>5. IsFiniteSet(B)
    BY <1>4, FS_Subset
  <1>6. Size(l) = Cardinality(B)
    <2>1. DOMAIN l = A
      OBVIOUS
    <2>. QED BY <2>1 DEF Size, longest
  <1>. QED BY <1>3, <1>5, <1>6, FS_CardinalityType

(* Of any prefixes one is better than all others.                          *)
LEMMA BestPrefix ==
    ASSUME NEW A, IsFiniteSet(A), A \subseteq Nat,
           NEW P \in SUBSET [A -> Nat \ {0}], IsFiniteSet(P), P # {}
    PROVE  (CHOOSE l \in P : \A m \in P \ {l} : Better(l, m)) \in P
  <1>. DEFINE ahead == [l \in P |-> {m \in P : Better(m, l)}]
              Longer(l, m) == \E axis \in A : /\ l[axis] > m[axis]
                                              /\ \A b \in A : b < axis => l[b] = m[b]
  <1>1. \A l \in P : Size(l) \in Nat /\ Total(l) \in Nat
    <2>. TAKE l \in P
    <2>1. l \in [A -> Nat]
      OBVIOUS
    <2>. QED BY <2>1, SizeIsBox, TotalIsNatural
  <1>2. \A l, m \in P : Better(l, m) <=> \/ Size(l) > Size(m)
                                         \/ Size(l) = Size(m) /\ Total(l) > Total(m)
                                         \/ Size(l) = Size(m) /\ Total(l) = Total(m) /\ Longer(l, m)
    BY DEF Better
  <1>3. \A l \in P : ~ Longer(l, l)
    OBVIOUS
  <1>4. ASSUME NEW l \in P, NEW m \in P, l # m
        PROVE  Longer(l, m) \/ Longer(m, l)
    <2>. DEFINE D == {axis \in A : l[axis] # m[axis]}
    <2>a. l \in [A -> Nat \ {0}] /\ m \in [A -> Nat \ {0}]
      OBVIOUS
    <2>b. \E axis \in A : l[axis] # m[axis]
      <3>1. SUFFICES ASSUME \A axis \in A : l[axis] = m[axis]
                     PROVE  FALSE
        OBVIOUS
      <3>2. l = [axis \in A |-> l[axis]] /\ m = [axis \in A |-> m[axis]]
        BY <2>a
      <3>. QED BY <1>4, <3>1, <3>2, Zenon
    <2>1. D # {} /\ D \subseteq Nat
      BY <2>b
    <2>2. PICK axis \in D : \A b \in D : axis <= b
      BY <2>1, LeastNatural
    <2>3. \A b \in A : b < axis => l[b] = m[b]
      BY <2>1, <2>2
    <2>4. l[axis] > m[axis] \/ m[axis] > l[axis]
      BY <2>2
    <2>. QED BY <2>2, <2>3, <2>4
  <1>5. ASSUME NEW l \in P, NEW m \in P, NEW n \in P, Longer(l, m), Longer(m, n)
        PROVE  Longer(l, n)
    <2>1. PICK i \in A : l[i] > m[i] /\ \A b \in A : b < i => l[b] = m[b]
      BY <1>5
    <2>2. PICK j \in A : m[j] > n[j] /\ \A b \in A : b < j => m[b] = n[b]
      BY <1>5
    <2>3. i \in Nat /\ j \in Nat
      OBVIOUS
    <2>4. CASE i <= j
      <3>1. l[i] > n[i]
        BY <2>1, <2>2, <2>3, <2>4
      <3>2. \A b \in A : b < i => l[b] = n[b]
        BY <2>1, <2>2, <2>3, <2>4
      <3>. QED BY <3>1, <3>2
    <2>5. CASE j < i
      <3>1. l[j] > n[j]
        BY <2>1, <2>2, <2>3, <2>5
      <3>2. \A b \in A : b < j => l[b] = n[b]
        BY <2>1, <2>2, <2>3, <2>5
      <3>. QED BY <3>1, <3>2
    <2>. QED BY <2>3, <2>4, <2>5
  <1>. HIDE DEF Longer
  <1>6. /\ \A i \in P : ahead[i] \subseteq P /\ i \notin ahead[i]
        /\ \A i, j \in P : i # j => i \in ahead[j] \/ j \in ahead[i]
    BY <1>1, <1>2, <1>3, <1>4
  <1>7. ASSUME NEW i \in P, NEW j \in P, j \in ahead[i]
        PROVE  ahead[j] \subseteq ahead[i]
    <2>. SUFFICES ASSUME NEW k \in P, Better(k, j)
                  PROVE  Better(k, i)
      OBVIOUS
    <2>1. Better(j, i)
      BY <1>7
    <2>. QED BY <1>1, <1>2, <1>5, <2>1
  <1>8. PICK l \in P : \A m \in P \ {l} : l \in ahead[m]
    <2>. HIDE DEF ahead
    <2>. QED BY <1>6, <1>7, FirstInOrder
  <1>9. \A m \in P \ {l} : Better(l, m)
    BY <1>8
  <1>. QED BY <1>9

\* I has every combination of the values that its members have on the axes A.
IsMatrix(A, I) ==
    \A k \in [A -> Nat] : (\A axis \in A : \E m \in I : m[axis] = k[axis]) => k \in I

\* places numbers the values of the combinations K, different values differently.
IsPrefix(A, l) == l \in [A -> Nat \ {0}]
Numbers(A, K, places) ==
    /\ K \subseteq [A -> Nat] /\ DOMAIN places = A
    /\ \A axis \in A : \A k \in K : places[axis][k[axis]] \in Nat \ {0}
    /\ \A axis \in A : \A k, m \in K :
         places[axis][k[axis]] = places[axis][m[axis]] => k[axis] = m[axis]

(* The keys of a prefix are as many as its combinations of places, so each *)
(* combination of places is that of a key.                                 *)
LEMMA CompleteFillsBox ==
    ASSUME NEW A, IsFiniteSet(A), NEW K, IsFiniteSet(K),
           NEW places, Numbers(A, K, places),
           NEW l, IsPrefix(A, l), Complete(K, places, l)
    PROVE  LET I == Inside(K, places, l)
           IN /\ I \subseteq K /\ IsFiniteSet(I) /\ Cardinality(I) = Size(l)
              /\ IsMatrix(A, I)
  <1>. DEFINE I == Inside(K, places, l)
              g == [k \in I |-> [axis \in A |-> places[axis][k[axis]]]]
              B == Box(A, l)
  <1>. USE DEF Numbers, IsPrefix
  <1>1. /\ I \subseteq K
        /\ \A k \in K : k \in I <=> \A axis \in A : places[axis][k[axis]] <= l[axis]
    BY DEF Inside
  <1>2. IsFiniteSet(I)
    BY <1>1, FS_Subset
  <1>3. IsFiniteSet(B) /\ Cardinality(I) = Cardinality(B) /\ Cardinality(I) = Size(l)
    BY SizeIsBox DEF Complete
  <1>. HIDE DEF I
  <1>4. g \in Injection(I, B)
    <2>1. ASSUME NEW k \in I
          PROVE  g[k] \in B
      BY <1>1 DEF Box
    <2>2. ASSUME NEW k \in I, NEW m \in I, g[k] = g[m]
          PROVE  k = m
      <3>1. k \in [A -> Nat] /\ m \in [A -> Nat] /\ k \in K /\ m \in K
        BY <1>1
      <3>2. ASSUME NEW axis \in A
            PROVE  k[axis] = m[axis]
        <4>1. g[k][axis] = places[axis][k[axis]] /\ g[m][axis] = places[axis][m[axis]]
          OBVIOUS
        <4>2. places[axis][k[axis]] = places[axis][m[axis]]
          BY <2>2, <4>1
        <4>. QED BY <3>1, <4>2
      <3>. QED BY <3>1, <3>2
    <2>3. g \in [I -> B]
      BY <2>1
    <2>. HIDE DEF g, B
    <2>. QED BY <2>2, <2>3 DEF Injection, IsInjective
  <1>5. g \in Surjection(I, B)
    <2>. HIDE DEF g, B
    <2>. QED BY <1>3, <1>4, FS_Injection
  <1>6. ASSUME NEW k \in [A -> Nat], \A axis \in A : \E m \in I : m[axis] = k[axis]
        PROVE  k \in I
    <2>. DEFINE b == [axis \in A |-> places[axis][k[axis]]]
    <2>1. b \in B
      BY <1>1, <1>6 DEF Box
    <2>2. PICK m \in I : g[m] = b
      <3>. HIDE DEF b, B, g
      <3>. QED BY <1>5, <2>1 DEF Surjection
    <2>3. \A axis \in A : places[axis][m[axis]] = places[axis][k[axis]]
      <3>. TAKE axis \in A
      <3>1. g[m][axis] = places[axis][m[axis]] /\ b[axis] = places[axis][k[axis]]
        OBVIOUS
      <3>. HIDE DEF g, b
      <3>. QED BY <2>2, <3>1
    <2>4. \A axis \in A : m[axis] = k[axis]
      BY <1>1, <1>6, <2>3
    <2>5. m = k
      <3>1. m \in [A -> Nat]
        BY <1>1
      <3>. QED BY <2>4, <3>1
    <2>. QED BY <2>5
  <1>7. IsMatrix(A, I)
    BY <1>6 DEF IsMatrix
  <1>. QED BY <1>1, <1>2, <1>3, <1>7 DEF I

(* The keys that are kept: combinations that exist, no more than the        *)
(* maximum, and every combination of their values.                          *)
LEMMA BestKeysFill ==
    ASSUME NEW V, \A v \in V : IsVariant(v), NEW r \in Seq(V), NEW maximum \in Nat \ {0}
    PROVE  LET keys == BestKeys(Combinations(r), Places(r), maximum)
           IN /\ keys \subseteq Combinations(r) /\ IsFiniteSet(keys)
              /\ Cardinality(keys) <= maximum
              /\ keys # {} => IsMatrix(AxesOf(r), keys)
  <1>. DEFINE K == Combinations(r)
              A == AxesOf(r)
              P == Places(r)
              keys == BestKeys(K, P, maximum)
              Fits(prefix) == Size(prefix) <= maximum /\ Complete(K, P, prefix)
              fitting == {prefix \in Prefixes(P, maximum) : Fits(prefix)}
              best == CHOOSE l \in fitting : \A m \in fitting \ {l} : Better(l, m)
  <1>1. IsFiniteSet(A) /\ A \subseteq Nat
    BY AxesAreFinite
  <1>2. IsFiniteSet(K) /\ K \subseteq [A -> Nat]
    BY CombinationsExist
  <1>3. DOMAIN P = A
    BY DEF Places
  <1>4. ASSUME NEW axis \in A
        PROVE  /\ Cardinality(DOMAIN P[axis]) \in Nat
               /\ \A k \in K : P[axis][k[axis]] \in Nat \ {0}
               /\ \A k, m \in K : P[axis][k[axis]] = P[axis][m[axis]] => k[axis] = m[axis]
    <2>1. /\ IsFiniteSet(Present(r, axis))
          /\ DOMAIN P[axis] = Present(r, axis)
          /\ \A x \in Present(r, axis) : P[axis][x] \in 1..Cardinality(Present(r, axis))
          /\ \A x, y \in Present(r, axis) : P[axis][x] = P[axis][y] => x = y
      BY PlacesDiffer
    <2>2. Cardinality(Present(r, axis)) \in Nat
      BY <2>1, FS_CardinalityType
    <2>3. \A k \in K : k[axis] \in Present(r, axis)
      BY DEF Present
    <2>. HIDE DEF P, K
    <2>. QED BY <2>1, <2>2, <2>3
  <1>. HIDE DEF K, P, A
  <1>5. CASE K = {} \/ fitting = {}
    <2>1. keys = {}
      BY <1>5 DEF BestKeys
    <2>2. IsFiniteSet({}) /\ Cardinality({}) = 0
      BY FS_EmptySet
    <2>. QED BY <2>1, <2>2 DEF K, P
  <1>6. CASE K # {} /\ fitting # {}
    <2>1. keys = Inside(K, P, best)
      BY <1>6 DEF BestKeys
    <2>2. ASSUME NEW l \in Prefixes(P, maximum)
          PROVE  l \in [A -> 1..maximum]
      <3>1. DOMAIN l = A /\ l = [axis \in A |-> l[axis]]
        BY <1>3 DEF Prefixes
      <3>2. ASSUME NEW axis \in A
            PROVE  l[axis] \in 1..maximum
        <4>. DEFINE c == Cardinality(DOMAIN P[axis])
                    least == Min({c, maximum})
        <4>1. l[axis] \in 1..least
          BY <1>3 DEF Prefixes
        <4>2. c \in Nat /\ maximum \in Nat
          BY <1>4
        <4>3. least \in Nat /\ least <= maximum
          <5>. HIDE DEF c
          <5>1. c <= maximum \/ maximum <= c
            BY <4>2
          <5>2. \E m \in {c, maximum} : \A n \in {c, maximum} : m <= n
            BY <4>2, <5>1
          <5>. QED BY <4>2, <5>2 DEF Min
        <4>. HIDE DEF least
        <4>. QED BY <4>1, <4>2, <4>3
      <3>. QED BY <3>1, <3>2
    <2>3. fitting \subseteq [A -> 1..maximum]
      BY <2>2
    <2>4. IsFiniteSet(fitting) /\ fitting \in SUBSET [A -> Nat \ {0}]
      <3>1. IsFiniteSet(1..maximum)
        BY FS_Interval
      <3>2. IsFiniteSet([A -> 1..maximum])
        BY <1>1, <3>1, FiniteFunctions
      <3>3. [A -> 1..maximum] \subseteq [A -> Nat \ {0}]
        OBVIOUS
      <3>. HIDE DEF fitting
      <3>. QED BY <2>3, <3>2, <3>3, FS_Subset
    <2>5. best \in fitting
      <3>. HIDE DEF fitting
      <3>. QED BY <1>1, <1>6, <2>4, BestPrefix
    <2>6. best \in [A -> Nat \ {0}]
      <3>. HIDE DEF fitting, best
      <3>. QED BY <2>4, <2>5
    <2>7. Size(best) <= maximum /\ Complete(K, P, best)
      <3>. HIDE DEF best
      <3>. QED BY <2>5
    <2>. HIDE DEF best
    <2>8. /\ Inside(K, P, best) \subseteq K /\ IsFiniteSet(Inside(K, P, best))
          /\ Cardinality(Inside(K, P, best)) = Size(best)
          /\ IsMatrix(A, Inside(K, P, best))
      <3>1. IsPrefix(A, best)
        BY <2>6 DEF IsPrefix
      <3>2. Numbers(A, K, P)
        BY <1>2, <1>3, <1>4 DEF Numbers
      <3>. HIDE DEF keys, fitting
      <3>. QED BY <1>1, <1>2, <2>7, <3>1, <3>2, CompleteFillsBox
    <2>. HIDE DEF keys
    <2>9. /\ keys \subseteq K /\ IsFiniteSet(keys) /\ Cardinality(keys) <= maximum
          /\ IsMatrix(A, keys)
      BY <2>1, <2>7, <2>8
    <2>. QED BY <2>9 DEF keys, K, P, A
  <1>. QED BY <1>5, <1>6

\* The option values of some variants.
OptionsOf(s) == {s[i].options : i \in DOMAIN s}

(* The lesser of two numbers.                                              *)
LEMMA Lesser ==
    ASSUME NEW a \in Int, NEW b \in Int
    PROVE  Min({a, b}) \in {a, b} /\ Min({a, b}) <= a /\ Min({a, b}) <= b
  <1>1. \E m \in {a, b} : \A n \in {a, b} : m <= n
    OBVIOUS
  <1>2. Min({a, b}) \in {a, b} /\ \A n \in {a, b} : Min({a, b}) <= n
    BY <1>1 DEF Min
  <1>. QED BY <1>2

\* The first variant of a ranking for every key.
FirstWith(r, keys) ==
    LET Chosen(i) == /\ r[i].options \in keys
                     /\ \A j \in 1..(i - 1) : r[j].options # r[i].options
    IN Filtered(r, {i \in DOMAIN r : Chosen(i)})
IsFirstWith(s, r, keys) ==
    /\ Len(s) <= Cardinality(keys)
    /\ OptionsOf(s) = keys
    /\ \A m, n \in DOMAIN s : m # n => s[m].options # s[n].options
    /\ \A m \in DOMAIN s : \E i \in DOMAIN r :
         /\ s[m] = r[i]
         /\ \A j \in DOMAIN r : r[j].options = r[i].options => i <= j

(* What is chosen of a ranking: one variant for every key, the first.      *)
LEMMA ChosenVariants ==
    ASSUME NEW V, \A v \in V : IsVariant(v), NEW r \in Seq(V),
           NEW keys, IsFiniteSet(keys), keys \subseteq Combinations(r)
    PROVE  LET s == FirstWith(r, keys)
           IN s \in Seq(V) /\ From(s, r) /\ IsFirstWith(s, r, keys)
  <1>. DEFINE Chosen(i) == /\ r[i].options \in keys
                           /\ \A j \in 1..(i - 1) : r[j].options # r[i].options
              D == {i \in DOMAIN r : Chosen(i)}
              s == Filtered(r, D)
  <1>1. DOMAIN r = 1..Len(r) /\ Len(r) \in Nat
    OBVIOUS
  <1>2. D \in SUBSET DOMAIN r
    OBVIOUS
  <1>3. \A i \in DOMAIN r : i \in D <=> /\ r[i].options \in keys
                                        /\ \A j \in DOMAIN r : r[j].options = r[i].options => i <= j
    <2>. TAKE i \in DOMAIN r
    <2>1. i \in Nat /\ \A j \in DOMAIN r : j \in 1..(i - 1) <=> ~ (i <= j)
      BY <1>1
    <2>2. \A j \in 1..(i - 1) : j \in DOMAIN r
      BY <1>1
    <2>. QED BY <2>1, <2>2
  <1>. HIDE DEF D
  <1>4. /\ IsFiniteSet(D) /\ Cardinality(D) \in Nat
        /\ s \in Seq(V) /\ Len(s) = Cardinality(D)
        /\ DOMAIN s = 1..Cardinality(D)
        /\ \E p : Keeps(s, r, D, p)
    BY <1>2, FilteredSeq
  <1>. HIDE DEF s
  <1>5. PICK p : Keeps(s, r, D, p)
    BY <1>4
  <1>6. \A n \in DOMAIN s : p[n] \in D /\ s[n] = r[p[n]]
    BY <1>4, <1>5 DEF Keeps
  <1>7. \A i \in D : \E n \in DOMAIN s : p[n] = i
    BY <1>4, <1>5 DEF Keeps
  <1>8. From(s, r)
    BY <1>2, <1>6 DEF From
  <1>9. \A i \in D : i \in DOMAIN r /\ i \in Nat
    BY <1>1, <1>2
  <1>10. \A m, n \in DOMAIN s : m # n => p[m] # p[n]
    <2>. SUFFICES ASSUME NEW m \in DOMAIN s, NEW n \in DOMAIN s, m < n
                  PROVE  p[m] < p[n]
      BY <1>4, <1>6, <1>9
    <2>. QED BY <1>4, <1>5 DEF Keeps
  <1>11. \A i, j \in D : r[i].options = r[j].options => i = j
    BY <1>3, <1>9
  <1>12. \A m, n \in DOMAIN s : m # n => s[m].options # s[n].options
    BY <1>6, <1>10, <1>11
  <1>13. \A m \in DOMAIN s : \E i \in DOMAIN r :
            /\ s[m] = r[i]
            /\ \A j \in DOMAIN r : r[j].options = r[i].options => i <= j
    BY <1>3, <1>6, <1>9
  <1>14. OptionsOf(s) = keys
    <2>1. OptionsOf(s) \subseteq keys
      BY <1>3, <1>6, <1>9 DEF OptionsOf
    <2>2. ASSUME NEW k \in keys
          PROVE  k \in OptionsOf(s)
      <3>. DEFINE H == {i \in DOMAIN r : r[i].options = k}
      <3>1. H # {} /\ H \subseteq Nat
        BY <1>1, CombinationsExist
      <3>2. PICK i \in H : \A j \in H : i <= j
        BY <3>1, LeastNatural
      <3>3. i \in D
        BY <1>3, <3>2
      <3>4. PICK n \in DOMAIN s : p[n] = i
        BY <1>7, <3>3
      <3>. QED BY <1>6, <3>2, <3>4 DEF OptionsOf
    <2>. QED BY <2>1, <2>2
  <1>15. Len(s) <= Cardinality(keys)
    <2>. DEFINE f == [i \in D |-> r[i].options]
    <2>1. f \in Injection(D, keys)
      <3>1. f \in [D -> keys]
        BY <1>3, <1>9
      <3>2. \A i, j \in D : f[i] = f[j] => i = j
        BY <1>11
      <3>. HIDE DEF f
      <3>. QED BY <3>1, <3>2 DEF Injection, IsInjective
    <2>. HIDE DEF f
    <2>. QED BY <1>4, <2>1, FS_Injection
  <1>16. s \in Seq(V) /\ From(s, r) /\ IsFirstWith(s, r, keys)
    BY <1>4, <1>8, <1>12, <1>13, <1>14, <1>15 DEF IsFirstWith
  <1>17. s = FirstWith(r, keys)
    BY DEF s, D, FirstWith
  <1>. QED BY <1>16, <1>17

\* What reduce_variation_axes promises of the variants s that it selects of vs.
IsSelection(s, vs) ==
    /\ From(s, vs) /\ \A n \in DOMAIN s : s[n].available
    /\ \A n \in DOMAIN s : DOMAIN s[n].options = AxesOf(s)
    /\ IsMatrix(AxesOf(s), OptionsOf(s))
    /\ AxesOf(s) # {} =>
         /\ \A m, n \in DOMAIN s : m # n => s[m].options # s[n].options
         /\ \A n \in DOMAIN s, i \in DOMAIN vs :
              vs[i].available /\ vs[i].options = s[n].options => s[n].cost <= vs[i].cost

(* What reduce_variation_axes returns is within the maximum, taken from the *)
(* variants, and, unless empty, a complete matrix of the cheapest of them.  *)
LEMMA SelectionIsMatrix ==
    ASSUME NEW V, \A v \in V : IsVariant(v), NEW vs \in Seq(V),
           NEW maxAxes \in Nat, NEW maximum \in Nat \ {0}
    PROVE  LET s == ReduceVariationAxes(vs, maxAxes, maximum)
               r == Ranking(vs, maxAxes)
           IN /\ s \in Seq(V) /\ Len(s) <= maximum /\ From(s, vs) /\ From(s, r)
              /\ s # <<>> => IsSelection(s, vs) /\ AxesOf(s) = AxesOf(r)
  <1>. DEFINE s == ReduceVariationAxes(vs, maxAxes, maximum)
              r == Ranking(vs, maxAxes)
              keys == BestKeys(Combinations(r), Places(r), maximum)
              f == FirstWith(r, keys)
              least == Min({maximum, Len(r)})
              A == AxesOf(r)
  <1>1. /\ r \in Seq(V) /\ From(r, vs)
        /\ \A n \in DOMAIN r : r[n].available
        /\ \A m, n \in DOMAIN r : m < n => r[m].cost <= r[n].cost
        /\ \A i \in DOMAIN vs :
              vs[i].available /\ (\E n \in DOMAIN r : r[n].options = vs[i].options)
              => \E n \in DOMAIN r : r[n] = vs[i]
    BY RankingVariants
  <1>2. s = IF r = <<>> THEN <<>>
            ELSE IF A = {} THEN SubSeq(r, 1, least) ELSE f
    BY DEF ReduceVariationAxes, Ranking, Usable, FirstWith
  <1>. HIDE DEF r
  <1>3. Len(r) \in Nat /\ DOMAIN r = 1..Len(r) /\ \A i \in DOMAIN r : r[i] \in V
    BY <1>1
  <1>4. \A i \in DOMAIN r : /\ r[i].options \in [DOMAIN r[i].options -> Nat] /\ r[i].cost \in Int
                            /\ DOMAIN r[i].options \subseteq A
    BY <1>3 DEF IsVariant, Cents, Unknown, AxesOf
  <1>. HIDE DEF s, f
  <1>5. CASE r = <<>>
    <2>1. s = <<>>
      BY <1>2, <1>5
    <2>2. <<>> \in Seq(V) /\ Len(<<>>) = 0 /\ DOMAIN <<>> = {}
      OBVIOUS
    <2>. QED BY <2>1, <2>2 DEF From, s
  <1>6. CASE r # <<>> /\ A = {}
    <2>1. s = SubSeq(r, 1, least)
      BY <1>2, <1>6
    <2>2. least \in 1..Len(r) /\ least <= maximum
      <3>1. Len(r) # 0
        BY <1>1, <1>6
      <3>2. least \in {maximum, Len(r)} /\ least <= maximum /\ least <= Len(r)
        <4>1. \A a, b \in Int : Min({a, b}) \in {a, b} /\ Min({a, b}) <= a /\ Min({a, b}) <= b
          BY Lesser
        <4>2. maximum \in Int /\ Len(r) \in Int
          BY <1>3
        <4>. QED BY <4>1, <4>2
      <3>. QED BY <1>3, <3>1, <3>2
    <2>. HIDE DEF least
    <2>3. /\ s \in Seq(V) /\ Len(s) = least /\ DOMAIN s = 1..least
          /\ \A i \in 1..least : s[i] = r[i]
      <3>1. /\ SubSeq(r, 1, least) \in Seq(V)
            /\ Len(SubSeq(r, 1, least)) = IF 1 <= least THEN least - 1 + 1 ELSE 0
            /\ \A i \in 1..(least - 1 + 1) : SubSeq(r, 1, least)[i] = r[1 + i - 1]
        BY <1>1, <1>3, <2>2, SubSeqProperties
      <3>2. s \in Seq(V) /\ Len(s) = least
        BY <2>1, <2>2, <3>1
      <3>3. DOMAIN s = 1..least
        BY <3>2
      <3>4. ASSUME NEW i \in 1..least
            PROVE  s[i] = r[i]
        <4>1. i \in 1..(least - 1 + 1) /\ 1 + i - 1 = i
          BY <2>2
        <4>. QED BY <2>1, <3>1, <4>1
      <3>. QED BY <3>2, <3>3, <3>4
    <2>4. From(s, r) /\ From(s, vs) /\ \A n \in DOMAIN s : s[n].available
      BY <1>1, <1>3, <2>2, <2>3 DEF From
    <2>5. \A n \in DOMAIN s : DOMAIN s[n].options = {} /\ s[n].options \in [{} -> Nat]
      <3>. TAKE n \in DOMAIN s
      <3>1. n \in DOMAIN r /\ s[n] = r[n]
        BY <1>3, <2>2, <2>3
      <3>2. DOMAIN r[n].options = {}
        BY <1>4, <1>6, <3>1
      <3>. QED BY <1>4, <3>1, <3>2
    <2>6. AxesOf(s) = {}
      BY <2>5 DEF AxesOf
    <2>7. IsMatrix({}, OptionsOf(s))
      <3>. SUFFICES ASSUME NEW k \in [{} -> Nat]
                    PROVE  k \in OptionsOf(s)
        BY DEF IsMatrix
      <3>1. 1 \in DOMAIN s
        BY <2>2, <2>3
      <3>2. s[1].options = k
        BY <2>5, <3>1
      <3>. QED BY <3>1, <3>2 DEF OptionsOf
    <2>8. IsSelection(s, vs)
      BY <2>4, <2>5, <2>6, <2>7 DEF IsSelection
    <2>. QED BY <1>6, <2>2, <2>3, <2>4, <2>6, <2>8 DEF s, r
  <1>7. CASE r # <<>> /\ A # {}
    <2>1. s = f
      BY <1>2, <1>7
    <2>2. /\ keys \subseteq Combinations(r) /\ IsFiniteSet(keys) /\ Cardinality(keys) <= maximum
          /\ keys # {} => IsMatrix(A, keys)
      BY <1>1, BestKeysFill
    <2>. HIDE DEF keys
    <2>a. s \in Seq(V) /\ From(s, r) /\ IsFirstWith(s, r, keys)
      BY <1>1, <2>1, <2>2, ChosenVariants DEF f
    <2>3. /\ Len(s) <= Cardinality(keys) /\ OptionsOf(s) = keys
          /\ \A m, n \in DOMAIN s : m # n => s[m].options # s[n].options
          /\ \A m \in DOMAIN s : \E i \in DOMAIN r :
                /\ s[m] = r[i]
                /\ \A j \in DOMAIN r : r[j].options = r[i].options => i <= j
      BY <2>a DEF IsFirstWith
    <2>4. From(s, vs) /\ \A n \in DOMAIN s : s[n].available
      BY <1>1, <2>a DEF From
    <2>5. Len(s) <= maximum /\ Len(s) \in Nat
      BY <2>2, <2>3, <2>a, FS_CardinalityType
    <2>6. ASSUME s # <<>>
          PROVE  IsSelection(s, vs) /\ AxesOf(s) = A
      <3>1. 1 \in DOMAIN s
        BY <2>a, <2>6
      <3>2. \A n \in DOMAIN s : DOMAIN s[n].options = A
        BY <1>1, <2>2, <2>3, CombinationsExist DEF OptionsOf
      <3>3. AxesOf(s) = A
        BY <3>1, <3>2 DEF AxesOf
      <3>4. keys # {}
        <4>1. s[1].options \in OptionsOf(s)
          BY <3>1 DEF OptionsOf
        <4>. QED BY <2>3, <4>1
      <3>5. ASSUME NEW n \in DOMAIN s, NEW i \in DOMAIN vs,
                   vs[i].available, vs[i].options = s[n].options
            PROVE  s[n].cost <= vs[i].cost
        <4>1. PICK m \in DOMAIN r :
                /\ s[n] = r[m]
                /\ \A j \in DOMAIN r : r[j].options = r[m].options => m <= j
          BY <2>3
        <4>2. PICK j \in DOMAIN r : r[j] = vs[i]
          BY <1>1, <3>5, <4>1
        <4>3. m <= j
          BY <3>5, <4>1, <4>2
        <4>4. m < j \/ m = j
          BY <1>3, <4>3
        <4>. QED BY <1>1, <1>4, <4>1, <4>2, <4>4
      <3>. QED BY <2>2, <2>3, <2>4, <3>2, <3>3, <3>4, <3>5 DEF IsSelection
    <2>. QED BY <2>a, <2>4, <2>5, <2>6 DEF s, r
  <1>. QED BY <1>5, <1>6, <1>7

(* A table is a sequence of its elements.                                  *)
LEMMA TableSeq ==
    ASSUME NEW s, IsTable(s), NEW V, \A i \in DOMAIN s : s[i] \in V
    PROVE  /\ s \in Seq(V) /\ Len(s) \in Nat /\ DOMAIN s = 1..Len(s)
  <1>1. s \in Seq({s[i] : i \in DOMAIN s})
    BY DEF IsTable
  <1>2. Len(s) \in Nat /\ DOMAIN s = 1..Len(s) /\ s \in [1..Len(s) -> {s[i] : i \in DOMAIN s}]
    BY <1>1
  <1>3. s \in [1..Len(s) -> V]
    BY <1>2
  <1>. QED BY <1>2, <1>3, SeqDef

(* The variants that a listing offers are one complete matrix, on a number  *)
(* of axes and of combinations that Etsy and Printify accept.               *)
IsOffer(s, product) ==
    /\ IsSelection(s, product.variants)
    /\ Cardinality(AxesOf(s)) <= MaxAxes =>
         Len(s) <= Min({MaxEnabled, InventoryProductLimit(Cardinality(AxesOf(s)))})

(* Etsy's limit of the products of a listing, by the number of its axes     *)
(* (inventory_product_limit).                                               *)
LEMMA LimitType ==
    ASSUME NEW n \in 0..MaxAxes
    PROVE  /\ InventoryProductLimit(n) \in Nat \ {0}
           /\ n = 1 => InventoryProductLimit(n) = 70
           /\ n = 2 => InventoryProductLimit(n) = 4900
           /\ n = 3 => InventoryProductLimit(n) = 400
  <1>1. n \in {0, 1, 2, 3}
    BY PreparationAssumption
  <1>2. CASE n = 0
    BY <1>2 DEF InventoryProductLimit
  <1>3. CASE n = 1
    BY <1>3 DEF InventoryProductLimit
  <1>4. CASE n = 2
    BY <1>4 DEF InventoryProductLimit
  <1>5. CASE n = 3
    BY <1>5 DEF InventoryProductLimit
  <1>. QED BY <1>1, <1>2, <1>3, <1>4, <1>5

(* What _prepare_opportunity offers of a product is nothing or satisfies    *)
(* every condition of an offer.                                             *)
LEMMA SelectedIsOffer ==
    ASSUME NEW product, NEW V, \A v \in V : IsVariant(v), product.variants \in Seq(V)
    PROVE  LET s == Selected(product)
           IN /\ s \in Seq(V) /\ From(s, product.variants)
              /\ s # <<>> => IsOffer(s, product)
  <1>. DEFINE vs == product.variants
              u == Offered(product)
              c == Cardinality(AxesOf(u))
              most == Min({c, MaxAxes})
              limit == InventoryProductLimit(most)
              maximum == Min({MaxEnabled, limit})
              s == Selected(product)
              r == Ranking(u, MaxAxes)
  <1>1. MaxAxes \in {2, 3} /\ MaxEnabled \in Nat \ {0}
    BY PreparationAssumption, MatrixAssumption
  <1>2. /\ u \in Seq(V) /\ From(u, vs)
        /\ \A n \in DOMAIN u : u[n].available
        /\ \A i \in DOMAIN vs : vs[i].available => \E n \in DOMAIN u : u[n] = vs[i]
    <2>1. u = Usable(vs)
      BY DEF Offered, Usable
    <2>. HIDE DEF vs, u
    <2>2. vs \in Seq(V)
      BY DEF vs
    <2>. QED BY <2>1, <2>2, UsableVariants
  <1>3. s = ReduceVariationAxes(u, MaxAxes, maximum)
    BY DEF Selected
  <1>. HIDE DEF u, vs
  <1>4. IsFiniteSet(AxesOf(u)) /\ c \in Nat
    BY <1>2, AxesAreFinite, FS_CardinalityType
  <1>. HIDE DEF c
  <1>5. most \in 0..MaxAxes /\ most <= c /\ (most = c \/ most = MaxAxes)
    <2>1. \A a, b \in Int : Min({a, b}) \in {a, b} /\ Min({a, b}) <= a /\ Min({a, b}) <= b
      BY Lesser
    <2>2. c \in Int /\ MaxAxes \in Int
      BY <1>1, <1>4
    <2>3. most \in {c, MaxAxes} /\ most <= c /\ most <= MaxAxes
      BY <2>1, <2>2
    <2>. HIDE DEF most
    <2>. QED BY <1>1, <1>4, <2>3
  <1>. HIDE DEF most
  <1>6. limit \in Nat \ {0}
    BY <1>5, LimitType
  <1>7. maximum \in Nat \ {0} /\ maximum <= MaxEnabled /\ maximum <= limit
    <2>1. \A a, b \in Int : Min({a, b}) \in {a, b} /\ Min({a, b}) <= a /\ Min({a, b}) <= b
      BY Lesser
    <2>2. limit \in Int /\ MaxEnabled \in Int
      BY <1>1, <1>6
    <2>3. maximum \in {MaxEnabled, limit} /\ maximum <= MaxEnabled /\ maximum <= limit
      BY <2>1, <2>2
    <2>. HIDE DEF maximum, limit
    <2>. QED BY <1>1, <1>6, <2>3
  <1>. HIDE DEF limit, maximum, s
  <1>8. /\ s \in Seq(V) /\ Len(s) <= maximum /\ From(s, u) /\ From(s, r)
        /\ s # <<>> => IsSelection(s, u) /\ AxesOf(s) = AxesOf(r)
    <2>1. MaxAxes \in Nat
      BY <1>1
    <2>. QED BY <1>2, <1>3, <1>7, <2>1, SelectionIsMatrix
  <1>9. From(s, vs)
    BY <1>2, <1>8 DEF From
  <1>10. ASSUME s # <<>>
         PROVE  IsSelection(s, vs)
    <2>1. IsSelection(s, u)
      BY <1>8, <1>10
    <2>2. ASSUME NEW n \in DOMAIN s, NEW i \in DOMAIN vs, AxesOf(s) # {},
                 vs[i].available /\ vs[i].options = s[n].options
          PROVE  s[n].cost <= vs[i].cost
      <3>1. PICK j \in DOMAIN u : u[j] = vs[i]
        BY <1>2, <2>2
      <3>. QED BY <2>1, <2>2, <3>1 DEF IsSelection
    <2>. QED BY <1>9, <2>1, <2>2 DEF IsSelection
  <1>11. ASSUME s # <<>>, Cardinality(AxesOf(s)) <= MaxAxes
         PROVE  Len(s) <= Min({MaxEnabled, InventoryProductLimit(Cardinality(AxesOf(s)))})
    <2>. DEFINE d == Cardinality(AxesOf(s))
    <2>0. IsFiniteSet(AxesOf(s)) /\ d \in Nat
      BY <1>8, AxesAreFinite, FS_CardinalityType
    <2>1. d \in 0..MaxAxes
      BY <1>1, <1>11, <2>0
    <2>2. InventoryProductLimit(d) \in Nat \ {0}
      BY <2>1, LimitType
    <2>3. Len(s) \in Nat
      BY <1>8
    <2>4. Len(s) <= InventoryProductLimit(d)
      <3>1. AxesOf(Usable(u)) = AxesOf(u)
        <4>1. /\ From(Usable(u), u)
              /\ \A i \in DOMAIN u : u[i].available => \E n \in DOMAIN Usable(u) : Usable(u)[n] = u[i]
          BY <1>2, UsableVariants
        <4>2. From(u, Usable(u))
          BY <1>2, <4>1 DEF From
        <4>. QED BY <4>1, <4>2 DEF From, AxesOf
      <3>2. \/ AxesOf(r) = AxesOf(u)
            \/ c > MaxAxes /\ Uniform(r)
        <4>1. MaxAxes \in Nat
          BY <1>1
        <4>. QED BY <1>2, <3>1, <4>1, RankingVariants DEF c
      <3>3. CASE AxesOf(r) = AxesOf(u)
        <4>1. d = c
          BY <1>8, <1>11, <3>3 DEF c
        <4>2. most = d
          BY <1>1, <1>4, <1>5, <1>11, <4>1
        <4>. QED BY <1>6, <1>7, <1>8, <2>3, <4>2 DEF limit
      <3>4. CASE AxesOf(r) # AxesOf(u)
        <4>1. most = MaxAxes
          BY <1>1, <1>4, <1>5, <3>2, <3>4
        <4>2. PICK axis, x : \A n \in DOMAIN r :
                axis \in DOMAIN r[n].options /\ r[n].options[axis] = x
          BY <3>2, <3>4 DEF Uniform
        <4>3. \A n \in DOMAIN s : axis \in DOMAIN s[n].options /\ s[n].options[axis] = x
          BY <1>8, <4>2 DEF From
        <4>4. axis \in AxesOf(s)
          <5>1. 1 \in DOMAIN s
            BY <1>8, <1>11
          <5>. QED BY <4>3, <5>1 DEF AxesOf
        <4>5. d # 0
          BY <2>0, <4>4, FS_EmptySet
        <4>6. CASE d = 1
          <5>1. AxesOf(s) = {axis}
            <6>1. IsFiniteSet({axis}) /\ Cardinality({axis}) = 1
              BY FS_Singleton
            <6>2. {axis} \subseteq AxesOf(s)
              BY <4>4
            <6>. QED BY <2>0, <4>6, <6>1, <6>2, FS_Subset
          <5>2. \A m, n \in DOMAIN s : s[m].options = s[n].options
            <6>. SUFFICES ASSUME NEW m \in DOMAIN s, NEW n \in DOMAIN s
                          PROVE  s[m].options = s[n].options
              OBVIOUS
            <6>1. DOMAIN s[m].options = {axis} /\ DOMAIN s[n].options = {axis}
              BY <1>8, <1>11, <5>1 DEF IsSelection
            <6>2. /\ s[m].options \in [DOMAIN s[m].options -> Nat]
                  /\ s[n].options \in [DOMAIN s[n].options -> Nat]
              BY <1>8 DEF IsVariant
            <6>. QED BY <4>3, <6>1, <6>2
          <5>3. \A m, n \in DOMAIN s : m = n
            BY <1>8, <1>11, <5>1, <5>2 DEF IsSelection
          <5>4. Len(s) <= 1
            <6>1. DOMAIN s = 1..Len(s)
              BY <1>8
            <6>2. ASSUME Len(s) >= 2
                  PROVE  FALSE
              <7>1. 1 \in DOMAIN s /\ 2 \in DOMAIN s
                BY <2>3, <6>1, <6>2
              <7>. QED BY <5>3, <7>1
            <6>. QED BY <2>3, <6>2
          <5>. QED BY <2>1, <2>3, <4>6, <5>4, LimitType
        <4>7. CASE d # 1
          <5>1. d \in {2, 3} /\ d <= MaxAxes
            BY <1>1, <2>1, <4>5, <4>7
          <5>2. MaxAxes \in 0..MaxAxes
            BY <1>1
          <5>3. limit <= InventoryProductLimit(d)
            BY <1>1, <2>1, <4>1, <5>1, <5>2, LimitType DEF limit
          <5>. QED BY <1>6, <1>7, <1>8, <2>2, <2>3, <5>3
        <4>. QED BY <4>6, <4>7
      <3>. QED BY <3>3, <3>4
    <2>5. Len(s) <= MaxEnabled
      BY <1>1, <1>7, <1>8, <2>3
    <2>6. \A a, b \in Int : Min({a, b}) \in {a, b}
      BY Lesser
    <2>. HIDE DEF d
    <2>7. Min({MaxEnabled, InventoryProductLimit(d)}) \in {MaxEnabled, InventoryProductLimit(d)}
      <3>1. MaxEnabled \in Int /\ InventoryProductLimit(d) \in Int
        BY <1>1, <2>2
      <3>. QED BY <2>6, <3>1
    <2>8. Len(s) <= Min({MaxEnabled, InventoryProductLimit(d)})
      BY <2>4, <2>5, <2>7
    <2>. QED BY <2>8 DEF d
  <1>. QED BY <1>8, <1>9, <1>10, <1>11 DEF IsOffer, s, vs

-----------------------------------------------------------------------------
(* From products to opportunities (build_opportunities).                    *)

(* Rounding a quotient gives an integer.                                   *)
LEMMA RoundDivType ==
    ASSUME NEW a \in Int, NEW b \in Nat \ {0}
    PROVE  RoundDiv(a, b) \in Int
  <1>1. a \div b \in Int
    OBVIOUS
  <1>2. RoundDiv(a, b) = a \div b \/ RoundDiv(a, b) = a \div b + 1
    BY DEF RoundDiv
  <1>. QED BY <1>1, <1>2

(* The listings an opportunity keeps are the first MaxComparables of what   *)
(* was found.                                                               *)
LEMMA StrongestSeq ==
    ASSUME NEW V, \A l \in V : IsListing(l), NEW listings \in Seq(V)
    PROVE  /\ StrongestComparables(listings) \in Seq(V)
           /\ Len(listings) >= 3 => Len(StrongestComparables(listings)) >= 3
  <1>. DEFINE Key(l) == <<-l.explicit, -l.confidence, -l.reviews, l.market, l.id>>
              D == DOMAIN listings
              key == [i \in D |-> Key(listings[i])]
              ranked == SortedBy(listings, key)
              m == Min({Len(listings), MaxComparables})
  <1>1. D = 1..Len(listings) /\ Len(listings) \in Nat /\ \A i \in D : listings[i] \in V
    OBVIOUS
  <1>2. MaxComparables \in Nat /\ MaxComparables >= 3
    BY OpportunitiesAssumption
  <1>3. PICK L \in Nat : L = 5
    OBVIOUS
  <1>4. \A l \in V : Key(l) \in [1..L -> Int]
    <2>. TAKE l \in V
    <2>1. {l.explicit, l.confidence, l.reviews, l.market, l.id} \subseteq Nat
      BY DEF IsListing
    <2>. DEFINE p == -l.explicit
                q == -l.confidence
                r == -l.reviews
                market == l.market
                id == l.id
    <2>2. p \in Int /\ q \in Int /\ r \in Int /\ market \in Int /\ id \in Int
      BY <2>1
    <2>3. Key(l) = <<p, q, r, market, id>>
      OBVIOUS
    <2>. HIDE DEF p, q, r, market, id, Key
    <2>4. <<p, q, r, market, id>> \in [1..5 -> Int]
      BY <2>2
    <2>. QED BY <1>3, <2>3, <2>4
  <1>5. key \in [D -> [1..L -> Int]]
    <2>. HIDE DEF Key
    <2>. QED BY <1>1, <1>4
  <1>6. IsFiniteSet(D) /\ Cardinality(D) = Len(listings)
    <2>1. IsFiniteSet(1..Len(listings)) /\ Cardinality(1..Len(listings)) = Len(listings)
      BY <1>1, FS_Interval
    <2>. QED BY <1>1, <2>1
  <1>a. D \in SUBSET DOMAIN listings
    OBVIOUS
  <1>. HIDE DEF key, D
  <1>7. ranked \in Seq(V) /\ Len(ranked) = Len(listings)
    <2>. QED BY <1>5, <1>6, <1>a, SortedSeq
  <1>8. m \in {Len(listings), MaxComparables} /\ m <= Len(listings)
    <2>1. \A a, b \in Int : Min({a, b}) \in {a, b} /\ Min({a, b}) <= a
      BY Lesser
    <2>. QED BY <1>1, <1>2, <2>1
  <1>9. StrongestComparables(listings) = SubSeq(ranked, 1, m)
    BY DEF StrongestComparables, key, D
  <1>. HIDE DEF ranked, m
  <1>10. m \in 0..Len(ranked)
    BY <1>1, <1>2, <1>7, <1>8
  <1>11. SubSeq(ranked, 1, m) \in Seq(V) /\ Len(SubSeq(ranked, 1, m)) = m
    BY <1>7, <1>10, SubSeqProperties
  <1>12. Len(listings) >= 3 => m >= 3
    BY <1>1, <1>2, <1>8
  <1>. QED BY <1>9, <1>11, <1>12

(* The listings that show a delivered price, by that price.                *)
LEMMA KnownPrices ==
    ASSUME NEW V, \A l \in V : IsListing(l), NEW listings \in Seq(V)
    PROVE  LET shown == {i \in DOMAIN listings : listings[i].delivered # Unknown}
               known == SortedBy(listings, [i \in shown |-> <<listings[i].delivered>>])
           IN /\ Cardinality(shown) \in Nat
              /\ \A i \in 1..Cardinality(shown) : known[i].delivered \in Nat
  <1>. DEFINE shown == {i \in DOMAIN listings : listings[i].delivered # Unknown}
              key == [i \in shown |-> <<listings[i].delivered>>]
              known == SortedBy(listings, key)
  <1>1. \A i \in DOMAIN listings : listings[i].delivered \in Cents
    BY DEF IsListing
  <1>2. PICK L \in Nat : L = 1
    OBVIOUS
  <1>3. \A i \in shown : listings[i].delivered \in Nat /\ <<listings[i].delivered>> \in [1..L -> Int]
    <2>. TAKE i \in shown
    <2>1. listings[i].delivered \in Nat
      BY <1>1 DEF Cents
    <2>. QED BY <1>2, <2>1
  <1>4. key \in [shown -> [1..L -> Int]]
    BY <1>3
  <1>5. shown \in SUBSET DOMAIN listings
    OBVIOUS
  <1>. HIDE DEF shown, key
  <1>6. Cardinality(shown) \in Nat /\ \E p : Arranged(known, listings, key, p)
    BY <1>2, <1>4, <1>5, SortedSeq
  <1>7. PICK p : Arranged(known, listings, key, p)
    BY <1>6
  <1>8. DOMAIN key = shown
    BY <1>4
  <1>9. /\ p \in [1..Cardinality(shown) -> shown]
        /\ known = [n \in 1..Cardinality(shown) |-> listings[p[n]]]
    BY <1>7, <1>8 DEF Arranged
  <1>10. \A i \in 1..Cardinality(shown) : known[i].delivered \in Nat
    BY <1>3, <1>9
  <1>. QED BY <1>6, <1>10 DEF shown, key

(* The median is an amount of cents, or not known.                         *)
LEMMA MedianType ==
    ASSUME NEW V, \A l \in V : IsListing(l), NEW listings \in Seq(V)
    PROVE  ComparableMedian(listings) \in Int
  <1>. DEFINE shown == {i \in DOMAIN listings : listings[i].delivered # Unknown}
              known == SortedBy(listings, [i \in shown |-> <<listings[i].delivered>>])
              n == Cardinality(shown)
  <1>1. n \in Nat /\ \A i \in 1..n : known[i].delivered \in Nat
    BY KnownPrices
  <1>2. ComparableMedian(listings) =
          IF n < 3 THEN Unknown
          ELSE RoundDiv(known[(n + 1) \div 2].delivered + known[n \div 2 + 1].delivered, 2)
    BY DEF ComparableMedian
  <1>. HIDE DEF n, known
  <1>3. CASE n >= 3
    <2>1. (n + 1) \div 2 \in 1..n /\ n \div 2 + 1 \in 1..n
      BY <1>1, <1>3
    <2>. DEFINE x == known[(n + 1) \div 2].delivered + known[n \div 2 + 1].delivered
    <2>2. x \in Int
      BY <1>1, <2>1
    <2>3. ComparableMedian(listings) = RoundDiv(x, 2)
      BY <1>1, <1>2, <1>3
    <2>. HIDE DEF x
    <2>. QED BY <2>2, <2>3, RoundDivType
  <1>. QED BY <1>1, <1>2, <1>3 DEF Unknown

(* The projected margin is a number of per cents.                          *)
LEMMA MarginType ==
    ASSUME NEW V, \A l \in V : IsListing(l), NEW listings \in Seq(V),
           NEW product, \A i \in DOMAIN product.variants : IsVariant(product.variants[i])
    PROVE  ProjectedMargin(listings, product).percent \in Int
  <1>. DEFINE shown == {i \in DOMAIN listings : listings[i].delivered # Unknown}
              known == SortedBy(listings, [i \in shown |-> <<listings[i].delivered>>])
              n == Cardinality(shown)
              b == known[n \div 2 + 1].delivered
              known_costs == {i \in DOMAIN product.variants :
                                 /\ product.variants[i].available
                                 /\ product.variants[i].cost # Unknown
                                 /\ product.variants[i].shipping # Unknown}
              costs == {product.variants[i].cost + product.variants[i].shipping : i \in known_costs}
              left == b - Min(costs) - RoundDiv(95 * b, 1000) - 45
  <1>1. n \in Nat /\ \A i \in 1..n : known[i].delivered \in Nat
    BY KnownPrices
  <1>2. costs \subseteq Nat
    <2>1. \A i \in DOMAIN product.variants :
             {product.variants[i].cost, product.variants[i].shipping} \subseteq Cents
      BY DEF IsVariant
    <2>2. \A i \in known_costs : product.variants[i].cost + product.variants[i].shipping \in Nat
      BY <2>1 DEF Cents
    <2>. QED BY <2>2
  <1>3. ProjectedMargin(listings, product).percent =
          IF n < 3 \/ costs = {} \/ b = 0 THEN 0 ELSE RoundDiv(100 * left, b)
    <2>. DEFINE unknown == n < 3 \/ costs = {} \/ b = 0
                percent == RoundDiv(100 * left, b)
                target == 10 * left >= 4 * b
    <2>1. ProjectedMargin(listings, product) =
            IF unknown THEN [known |-> FALSE, percent |-> 0, target |-> FALSE]
            ELSE [known |-> TRUE, percent |-> percent, target |-> target]
      BY Zenon DEF ProjectedMargin
    <2>. HIDE DEF percent, target
    <2>2. ProjectedMargin(listings, product).percent = IF unknown THEN 0 ELSE percent
      <3>. HIDE DEF unknown
      <3>. QED BY <2>1
    <2>. QED BY <2>2, Zenon DEF unknown, percent
  <1>. HIDE DEF n, known, costs
  <1>4. ASSUME ~ (n < 3 \/ costs = {} \/ b = 0)
        PROVE  RoundDiv(100 * left, b) \in Int
    <2>1. n \div 2 + 1 \in 1..n
      BY <1>1, <1>4
    <2>2. b \in Nat \ {0}
      BY <1>1, <1>4, <2>1
    <2>. HIDE DEF b
    <2>3. Min(costs) \in Nat
      <3>1. \E m \in costs : \A k \in costs : m <= k
        BY <1>2, <1>4, LeastNatural
      <3>. QED BY <1>2, <3>1 DEF Min
    <2>4. RoundDiv(95 * b, 1000) \in Int
      <3>1. 95 * b \in Int /\ 1000 \in Nat \ {0}
        BY <2>2
      <3>. QED BY <3>1, RoundDivType
    <2>5. 100 * left \in Int
      BY <2>2, <2>3, <2>4
    <2>. HIDE DEF left
    <2>. QED BY <2>2, <2>5, RoundDivType
  <1>. HIDE DEF left, b
  <1>. QED BY <1>3, <1>4

(* The components of the ranking key are numbers.                          *)
LEMMA ScoresType ==
    ASSUME NEW V, \A l \in V : IsListing(l), NEW listings \in Seq(V), Len(listings) >= 3,
           NEW product, \A i \in DOMAIN product.variants : IsVariant(product.variants[i])
    PROVE  LET s == Scores(listings, product)
           IN s.evidence_confidence \in Int /\ s.projected_margin \in Int /\ WeightedScore(s) \in Int
  <1>. DEFINE N == Len(listings)
              D == 1..N
              s == Scores(listings, product)
              margin == ProjectedMargin(listings, product)
              delivered == Cardinality({i \in 1..N : listings[i].delivered # Unknown})
              feasible == IF margin.target THEN 90 ELSE AtLeastZero(margin.percent)
  <1>1. N \in Nat /\ N >= 3 /\ DOMAIN listings = D /\ \A i \in D : listings[i] \in V
    OBVIOUS
  <1>2. \A i \in D : {listings[i].explicit, listings[i].proxy, listings[i].confidence} \subseteq Nat
    BY <1>1 DEF IsListing
  <1>3. IsFiniteSet(D)
    BY <1>1, FS_Interval
  <1>4. margin.percent \in Int
    BY MarginType
  <1>5. delivered \in Nat
    <2>. DEFINE T == {i \in D : listings[i].delivered # Unknown}
    <2>1. T \subseteq D
      OBVIOUS
    <2>. HIDE DEF T, D
    <2>2. IsFiniteSet(T)
      BY <1>3, <2>1, FS_Subset
    <2>. QED BY <2>2, FS_CardinalityType DEF T, D
  <1>6. Explicit(listings) \in Nat
    <2>. DEFINE f == [i \in D |-> listings[i].explicit]
    <2>1. f \in [D -> Nat]
      BY <1>2
    <2>2. Explicit(listings) = Total(f)
      BY <1>1 DEF Explicit
    <2>. HIDE DEF f, D
    <2>. QED BY <1>3, <2>1, <2>2, TotalIsNatural
  <1>7. Proxy(listings) \in Nat
    <2>. DEFINE f == [i \in D |-> listings[i].proxy]
    <2>1. f \in [D -> Nat]
      BY <1>2
    <2>2. Proxy(listings) = Total(f)
      BY <1>1 DEF Proxy
    <2>. HIDE DEF f, D
    <2>. QED BY <1>3, <2>1, <2>2, TotalIsNatural
  <1>8. Total([i \in D |-> listings[i].confidence]) \in Nat
    <2>. DEFINE f == [i \in D |-> listings[i].confidence]
    <2>1. f \in [D -> Nat]
      BY <1>2
    <2>. HIDE DEF f, D
    <2>2. Total(f) \in Nat
      BY <1>3, <2>1, TotalIsNatural
    <2>. QED BY <2>2 DEF f, D
  <1>9. RoundDiv(Total([i \in D |-> listings[i].confidence]), N) \in Int
    <2>. DEFINE x == Total([i \in D |-> listings[i].confidence])
    <2>1. x \in Int /\ N \in Nat \ {0}
      BY <1>1, <1>8
    <2>. HIDE DEF x, N
    <2>2. RoundDiv(x, N) \in Int
      BY <2>1, RoundDivType
    <2>. QED BY <2>2 DEF x
  <1>10. \A x \in Int : Clamp(x) \in Int /\ AtLeastZero(x) \in Int
    BY DEF Clamp, AtLeastZero
  <1>11. feasible \in Int
    <2>1. AtLeastZero(margin.percent) \in Int
      <3>. HIDE DEF margin
      <3>. QED BY <1>4, <1>10
    <2>2. feasible = 90 \/ feasible = AtLeastZero(margin.percent)
      OBVIOUS
    <2>. HIDE DEF feasible, margin
    <2>. QED BY <2>1, <2>2
  <1>12. /\ s.evidence_confidence = RoundDiv(Total([i \in D |-> listings[i].confidence]), N)
         /\ s.demand = Clamp(55 + 15 * Explicit(listings) + 4 * Proxy(listings))
         /\ s.purchase_intent = Clamp(60 + 4 * N)
         /\ s.projected_margin = Clamp(margin.percent)
         /\ s.undercut_feasibility = Clamp(feasible + delivered)
         /\ s.competition_gap = (IF 75 - 3 * N < 25 THEN 25 ELSE 75 - 3 * N)
         /\ s.trend_velocity = Clamp(50 + 10 * Explicit(listings) + 3 * Proxy(listings))
         /\ s.longevity = 70
    BY DEF Scores
  <1>. HIDE DEF s, feasible, delivered, margin, D, N
  <1>13. s.evidence_confidence \in Int /\ s.projected_margin \in Int
    BY <1>4, <1>9, <1>10, <1>12
  <1>14. /\ 55 + 15 * Explicit(listings) + 4 * Proxy(listings) \in Int
         /\ 60 + 4 * N \in Int /\ 75 - 3 * N \in Int /\ feasible + delivered \in Int
         /\ 50 + 10 * Explicit(listings) + 3 * Proxy(listings) \in Int
    BY <1>1, <1>5, <1>6, <1>7, <1>11
  <1>15. s.demand \in Int /\ s.purchase_intent \in Int /\ s.undercut_feasibility \in Int
    BY <1>10, <1>12, <1>14
  <1>16. s.competition_gap \in Int /\ s.trend_velocity \in Int /\ s.longevity \in Int
    BY <1>10, <1>12, <1>14
  <1>17. WeightedScore(s) \in Int
    <2>1. 25 * s.demand \in Int /\ 10 * (s.undercut_feasibility + s.competition_gap) \in Int
      BY <1>15, <1>16
    <2>2. 15 * (s.evidence_confidence + s.purchase_intent + s.projected_margin) \in Int
      BY <1>13, <1>15
    <2>3. 5 * (s.trend_velocity + s.longevity) \in Int
      BY <1>16
    <2>. QED BY <2>1, <2>2, <2>3 DEF WeightedScore
  <1>. QED BY <1>13, <1>17 DEF s

(* An interval from 1 has as many elements as its end. *)
LEMMA Initial ==
    ASSUME NEW n \in Nat
    PROVE  IsFiniteSet(1..n) /\ Cardinality(1..n) = n
  BY FS_Interval

(* Sorting a whole sequence permutes it.                                   *)
Permutes(r, s, p) ==
    /\ p \in [DOMAIN s -> DOMAIN s] /\ r = [k \in DOMAIN s |-> s[p[k]]]
    /\ \A k, m \in DOMAIN s : p[k] = p[m] => k = m

(* A sequence sorted by all its elements is a permutation of it. *)
LEMMA SortedAll ==
    ASSUME NEW V, NEW s \in Seq(V), NEW D \in SUBSET DOMAIN s, D = DOMAIN s,
           NEW L \in Nat, NEW key \in [D -> [1..L -> Int]]
    PROVE  /\ SortedBy(s, key) \in Seq(V) /\ Len(SortedBy(s, key)) = Len(s)
           /\ \E p : Permutes(SortedBy(s, key), s, p)
  <1>. DEFINE N == Cardinality(D)
              r == SortedBy(s, key)
  <1>1. D = 1..Len(s) /\ Len(s) \in Nat
    OBVIOUS
  <1>2. N = Len(s)
    <2>1. \A n \in Nat : Cardinality(1..n) = n
      BY Initial
    <2>. QED BY <1>1, <2>1
  <1>3. DOMAIN key = D
    OBVIOUS
  <1>b. key \in [D -> [1..L -> Int]]
    OBVIOUS
  <1>. HIDE DEF r
  <1>4. r \in Seq(V) /\ Len(r) = N /\ \E p : Arranged(r, s, key, p)
    BY SortedSeq DEF r
  <1>5. PICK p : Arranged(r, s, key, p)
    BY <1>4
  <1>6. /\ p \in [D -> D] /\ r = [n \in D |-> s[p[n]]]
        /\ \A m, n \in D : m < n => \/ Before(key[p[m]], key[p[n]])
                                    \/ key[p[m]] = key[p[n]] /\ p[m] < p[n]
    BY <1>1, <1>2, <1>3, <1>5 DEF Arranged
  <1>7. \A i \in D : ~ Before(key[i], key[i])
    <2>1. \A i \in D : key[i] \in [1..L -> Int]
      BY <1>b
    <2>2. \A t \in [1..L -> Int] : ~ Before(t, t)
      BY DEF Before
    <2>. QED BY <2>1, <2>2
  <1>8. \A k, m \in D : k < m => p[k] # p[m]
    <2>. SUFFICES ASSUME NEW k \in D, NEW m \in D, k < m, p[k] = p[m]
                  PROVE  FALSE
      OBVIOUS
    <2>1. p[k] \in D /\ p[k] \in Nat
      BY <1>1, <1>6
    <2>2. ~ Before(key[p[k]], key[p[k]]) /\ ~ (p[k] < p[k])
      BY <1>7, <2>1
    <2>. QED BY <1>6, <2>2
  <1>9. \A k, m \in D : p[k] = p[m] => k = m
    <2>1. \A k, m \in D : k < m \/ m < k \/ k = m
      BY <1>1
    <2>. QED BY <1>8, <2>1
  <1>10. Permutes(r, s, p)
    BY <1>6, <1>9 DEF Permutes
  <1>. QED BY <1>2, <1>4, <1>10 DEF r

\* The usable evidence, the products that qualify, and the opportunities that
\* research can make of them.
Evidence == [p \in Products |-> Fresh(world.evidence[p])]
Qualified == {p \in Products : Qualifies(world.products[p], Evidence[p])}
Row(p, i) == Opportunity(world.products, Evidence, p, i)
Rows == {Row(p, i) : p \in Qualified, i \in Ranks}

\* The variants of a product and the listings seen of it.
VariantsOf(p) == {world.products[p].variants[i] : i \in DOMAIN world.products[p].variants}
ListingsOf(p) == {world.evidence[p][i] : i \in DOMAIN world.evidence[p]}

(* What is assumed of a world.                                             *)
LEMMA WorldFacts ==
    ASSUME world \in Worlds
    PROVE  /\ Products = 1..Len(world.products) /\ Len(world.products) \in 1..MaxProducts
           /\ \A p \in Products :
                /\ world.products[p].variants \in Seq(VariantsOf(p))
                /\ \A v \in VariantsOf(p) : IsVariant(v)
                /\ world.evidence[p] \in Seq(ListingsOf(p))
                /\ \A l \in ListingsOf(p) : IsListing(l)
  <1>1. /\ Len(world.products) \in 1..MaxProducts
        /\ \A p \in Products :
             /\ IsTable(world.products[p].variants) /\ IsTable(world.evidence[p])
             /\ \A i \in DOMAIN world.products[p].variants : IsVariant(world.products[p].variants[i])
             /\ \A i \in DOMAIN world.evidence[p] : IsListing(world.evidence[p][i])
    BY WorldsAssumption DEF Products
  <1>2. ASSUME NEW p \in Products
        PROVE  /\ world.products[p].variants \in Seq(VariantsOf(p))
               /\ world.evidence[p] \in Seq(ListingsOf(p))
    BY <1>1 DEF IsTable, VariantsOf, ListingsOf
  <1>3. ASSUME NEW p \in Products
        PROVE  (\A v \in VariantsOf(p) : IsVariant(v)) /\ (\A l \in ListingsOf(p) : IsListing(l))
    BY <1>1 DEF VariantsOf, ListingsOf
  <1>. QED BY <1>1, <1>2, <1>3 DEF Products

(* The id of an opportunity, and that no two of different indices have one. *)
LEMMA DigestFacts ==
    ASSUME world \in Worlds
    PROVE  /\ Ids \subseteq Nat \ {0}
           /\ \A p \in Products, i \in Ranks : Digest[<<p, i>>] \in Ids
           /\ \A p, q \in Products, i, j \in Ranks : Digest[<<p, i>>] = Digest[<<q, j>>] => p = q /\ i = j
  <1>1. \A p \in Products, i \in Ranks : <<p, i>> \in (1..MaxProducts) \X (1..NumOpportunities)
    <2>1. Products \subseteq 1..MaxProducts
      BY WorldFacts, OpportunitiesAssumption
    <2>. QED BY <2>1 DEF Ranks
  <1>2. DOMAIN Digest = (1..MaxProducts) \X (1..NumOpportunities)
    BY OpportunitiesAssumption
  <1>3. \A p \in Products, i \in Ranks : Digest[<<p, i>>] \in Nat \ {0}
    BY <1>1, OpportunitiesAssumption
  <1>4. \A p, q \in Products, i, j \in Ranks : Digest[<<p, i>>] = Digest[<<q, j>>] => p = q /\ i = j
    <2>. SUFFICES ASSUME NEW p \in Products, NEW q \in Products, NEW i \in Ranks, NEW j \in Ranks,
                         Digest[<<p, i>>] = Digest[<<q, j>>]
                  PROVE  p = q /\ i = j
      OBVIOUS
    <2>1. <<p, i>> = <<q, j>>
      BY <1>1, <1>2, OpportunitiesAssumption
    <2>. QED BY <2>1
  <1>5. \A p \in Products, i \in Ranks : Digest[<<p, i>>] \in Ids
    <2>. TAKE p \in Products, i \in Ranks
    <2>. DEFINE d == Digest[<<p, i>>]
    <2>1. \E q \in Products, j \in Ranks : d = Digest[<<q, j>>]
      OBVIOUS
    <2>. HIDE DEF d
    <2>2. d \in Ids
      BY <2>1 DEF Ids
    <2>. QED BY <2>2 DEF d
  <1>6. Ids \subseteq Nat \ {0}
    <2>. SUFFICES ASSUME NEW d \in Ids PROVE d \in Nat \ {0}
      OBVIOUS
    <2>1. PICK p \in Products, i \in Ranks : d = Digest[<<p, i>>]
      BY DEF Ids
    <2>. QED BY <1>3, <2>1
  <1>. QED BY <1>4, <1>5, <1>6

(* Of the listings found, those that are fresh.                            *)
LEMMA EvidenceFacts ==
    ASSUME world \in Worlds, NEW p \in Products
    PROVE  Evidence[p] \in Seq(ListingsOf(p)) /\ \A l \in ListingsOf(p) : IsListing(l)
  <1>. DEFINE s == world.evidence[p]
              D == {i \in DOMAIN s : EvidenceIsFresh(s[i])}
              V == ListingsOf(p)
  <1>1. s \in Seq(V) /\ \A l \in V : IsListing(l)
    BY WorldFacts
  <1>2. D \in SUBSET DOMAIN s
    OBVIOUS
  <1>3. Evidence[p] = Filtered(s, D)
    BY DEF Evidence, Fresh
  <1>. HIDE DEF D, s, V
  <1>4. Filtered(s, D) \in Seq(V)
    BY <1>1, <1>2, FilteredSeq
  <1>. QED BY <1>1, <1>3, <1>4 DEF V

\* The parts of an opportunity that later steps use.
IsRow(o) ==
    /\ o.product \in Products /\ o.id \in Ids
    /\ ComparableMedian(o.listings) \in Int
    /\ o.weighted \in Int /\ o.scores.evidence_confidence \in Int /\ o.scores.projected_margin \in Int

(* The row of a product and an index names the product and has the id that  *)
(* the two are hashed to.                                                   *)
LEMMA RowFacts ==
    ASSUME world \in Worlds, NEW p \in Qualified, NEW i \in Ranks
    PROVE  Row(p, i).id = Digest[<<p, i>>] /\ Row(p, i).product = p /\ IsRow(Row(p, i))
  <1>. DEFINE o == Row(p, i)
              V == ListingsOf(p)
              listings == StrongestComparables(Evidence[p])
              s == Scores(listings, world.products[p])
  <1>1. p \in Products
    BY DEF Qualified
  <1>2. Evidence[p] \in Seq(V) /\ \A l \in V : IsListing(l)
    BY <1>1, EvidenceFacts
  <1>3. Len(Evidence[p]) >= 3
    BY DEF Qualified, Qualifies, EvidenceGate
  <1>4. listings \in Seq(V) /\ Len(listings) >= 3
    <2>. HIDE DEF V
    <2>. QED BY <1>2, <1>3, StrongestSeq
  <1>5. /\ o.id = Digest[<<p, i>>] /\ o.product = p /\ o.listings = listings
        /\ o.scores = s /\ o.weighted = WeightedScore(s)
    BY DEF Row, Opportunity
  <1>6. \A n \in DOMAIN world.products[p].variants : IsVariant(world.products[p].variants[n])
    BY <1>1, WorldFacts DEF VariantsOf
  <1>. HIDE DEF listings, V, o
  <1>7. ComparableMedian(listings) \in Int
    BY <1>2, <1>4, MedianType
  <1>8. s.evidence_confidence \in Int /\ s.projected_margin \in Int /\ WeightedScore(s) \in Int
    BY <1>2, <1>4, <1>6, ScoresType
  <1>9. o.id \in Ids
    BY <1>1, <1>5, DigestFacts
  <1>. QED BY <1>1, <1>5, <1>7, <1>8, <1>9 DEF IsRow, o

(* Research stores none or NumOpportunities opportunities, of different ids. *)
IsTableOfRows(r) ==
    /\ r \in Seq(Rows) /\ Len(r) \in {0, NumOpportunities} /\ DOMAIN r = 1..Len(r)
    /\ \A m, n \in DOMAIN r : r[m].id = r[n].id => m = n

(* What research stores is a table of well-formed rows with ids of their    *)
(* own.                                                                     *)
LEMMA ResearchedRows ==
    ASSUME world \in Worlds, NEW found \in Seq(Products)
    PROVE  IsTableOfRows(Researched(found))
  <1>. DEFINE evidence == [p \in Products |-> Fresh(world.evidence[p])]
              places == {i \in DOMAIN found : Qualifies(world.products[found[i]], evidence[found[i]])}
              seeds == Filtered(found, places)
              n == Cardinality(places)
              N == NumOpportunities
              cycle == [i \in 1..N |->
                          Opportunity(world.products, evidence, seeds[1 + ((i - 1) % n)], i)]
              key == [i \in 1..N |-> RankingKey(cycle[i])]
              r == Researched(found)
  <1>0. N \in Nat \ {0}
    BY OpportunitiesAssumption
  <1>1. r = IF n = 0 THEN <<>> ELSE SortedBy(cycle, key)
    BY DEF Researched, BuildOpportunities
  <1>2. evidence = Evidence
    BY DEF Evidence
  <1>3. places \in SUBSET DOMAIN found /\ \A i \in places : found[i] \in Qualified
    BY <1>2 DEF Qualified
  <1>. HIDE DEF places
  <1>4. n \in Nat /\ \E p : Keeps(seeds, found, places, p)
    BY <1>3, FilteredSeq
  <1>5. \A i \in 1..n : seeds[i] \in Qualified
    <2>1. PICK p : Keeps(seeds, found, places, p)
      BY <1>4
    <2>2. p \in [1..n -> places] /\ seeds = [k \in 1..n |-> found[p[k]]]
      BY <2>1 DEF Keeps
    <2>. HIDE DEF n, seeds
    <2>. QED BY <1>3, <2>2
  <1>. HIDE DEF n, seeds, r
  <1>6. CASE n = 0
    <2>1. r = <<>>
      BY <1>1, <1>6
    <2>. QED BY <2>1 DEF IsTableOfRows, r
  <1>7. CASE n # 0
    <2>1. \A i \in 1..N : 1 + ((i - 1) % n) \in 1..n
      BY <1>0, <1>4, <1>7
    <2>2. \A i \in 1..N : \E q \in Qualified : cycle[i] = Row(q, i)
      <3>. TAKE i \in 1..N
      <3>1. seeds[1 + ((i - 1) % n)] \in Qualified
        BY <1>5, <2>1
      <3>2. cycle[i] = Row(seeds[1 + ((i - 1) % n)], i)
        BY <1>2 DEF Row
      <3>. QED BY <3>1, <3>2
    <2>3. DOMAIN cycle = 1..N
      OBVIOUS
    <2>a. cycle = [i \in 1..N |-> cycle[i]]
      OBVIOUS
    <2>. HIDE DEF cycle
    <2>4. \A i \in 1..N : cycle[i] \in Rows /\ IsRow(cycle[i])
      <3>. TAKE i \in 1..N
      <3>1. PICK q \in Qualified : cycle[i] = Row(q, i)
        BY <2>2
      <3>2. i \in Ranks
        BY DEF Ranks
      <3>3. IsRow(Row(q, i))
        BY <3>2, RowFacts
      <3>. QED BY <3>1, <3>2, <3>3 DEF Rows
    <2>5. \A i, j \in 1..N : cycle[i].id = cycle[j].id => i = j
      <3>. SUFFICES ASSUME NEW i \in 1..N, NEW j \in 1..N, cycle[i].id = cycle[j].id
                    PROVE  i = j
        OBVIOUS
      <3>1. PICK p \in Qualified : cycle[i] = Row(p, i)
        BY <2>2
      <3>2. PICK q \in Qualified : cycle[j] = Row(q, j)
        BY <2>2
      <3>3. i \in Ranks /\ j \in Ranks
        BY DEF Ranks
      <3>4. Digest[<<p, i>>] = Digest[<<q, j>>]
        BY <3>1, <3>2, <3>3, RowFacts
      <3>. QED BY <3>3, <3>4, DigestFacts DEF Qualified
    <2>6. cycle \in Seq(Rows)
      BY <1>0, <2>a, <2>4, SeqDef
    <2>7. PICK L \in Nat : L = 4
      OBVIOUS
    <2>8. \A i \in 1..N : RankingKey(cycle[i]) \in [1..L -> Int]
      <3>. TAKE i \in 1..N
      <3>1. /\ cycle[i].weighted \in Int /\ cycle[i].scores.evidence_confidence \in Int
            /\ cycle[i].scores.projected_margin \in Int /\ cycle[i].id \in Ids
        BY <2>4 DEF IsRow
      <3>2. cycle[i].id \in Int
        BY <3>1, DigestFacts
      <3>. DEFINE a == -cycle[i].weighted
                  b == -cycle[i].scores.evidence_confidence
                  c == -cycle[i].scores.projected_margin
                  d == cycle[i].id
      <3>3. a \in Int /\ b \in Int /\ c \in Int /\ d \in Int
        BY <3>1, <3>2
      <3>4. RankingKey(cycle[i]) = <<a, b, c, d>>
        BY DEF RankingKey
      <3>. HIDE DEF a, b, c, d
      <3>. QED BY <2>7, <3>3, <3>4
    <2>. DEFINE sorted == SortedBy(cycle, key)
    <2>9. 1..N \in SUBSET DOMAIN cycle /\ key \in [1..N -> [1..L -> Int]]
      BY <2>3, <2>8
    <2>10. Len(cycle) = N
      BY <1>0, <2>3, <2>6
    <2>. HIDE DEF key
    <2>11. sorted \in Seq(Rows) /\ Len(sorted) = N /\ \E p : Permutes(sorted, cycle, p)
      <3>. DEFINE D == 1..N
      <3>1. D \in SUBSET DOMAIN cycle /\ D = DOMAIN cycle /\ key \in [D -> [1..L -> Int]]
        BY <2>3, <2>9
      <3>. HIDE DEF D, N
      <3>2. sorted \in Seq(Rows) /\ Len(sorted) = Len(cycle) /\ \E p : Permutes(sorted, cycle, p)
        BY <2>6, <2>7, <3>1, SortedAll
      <3>. QED BY <2>10, <3>2
    <2>12. PICK p : Permutes(sorted, cycle, p)
      BY <2>11
    <2>. HIDE DEF sorted
    <2>13. /\ p \in [1..N -> 1..N] /\ sorted = [k \in 1..N |-> cycle[p[k]]]
           /\ \A k, m \in 1..N : p[k] = p[m] => k = m
      BY <2>3, <2>12 DEF Permutes
    <2>14. \A k, m \in 1..N : sorted[k].id = sorted[m].id => k = m
      BY <2>5, <2>13
    <2>15. r = sorted /\ DOMAIN sorted = 1..N
      BY <1>1, <1>7, <2>13 DEF sorted
    <2>. QED BY <2>11, <2>14, <2>15 DEF IsTableOfRows, r
  <1>. QED BY <1>6, <1>7

-----------------------------------------------------------------------------
(* Types.  Inv says what every record can hold; each of its parts is        *)
(* kept by every step, given the others.                                    *)

(* What an attempt, the run record and a package can be.                   *)

Sheets == [References -> Pictures \cup {None}]
Arts == UNION {[S -> Nat] : S \in SUBSET AllSurfaces}
Offers == {<<>>} \cup {Selected(world.products[p]) : p \in Products}
PricesFor(o, offer) ==
    [i \in DOMAIN offer |-> CompetitivePrice(offer[i], ComparableMedian(o.listings))]

Executions ==
    [pc : PCs, stage : Stages, rank : Ranks \cup {None}, queue : Seq(Products),
     found : Seq(Products), count : 0..NumOpportunities,
     opportunity : Rows \cup {NoOpportunity}, ip : Reports, refs : Sheets,
     missing : SUBSET References, analysis : Ids \cup {None}, offer : Offers, art : Arts,
     reviewed : BOOLEAN, reason : Reasons, result : Results]

Packages ==
    [opportunity : Rows, ip : Reports, analysis : Ids \cup {None}, art : Arts,
     reviewed : BOOLEAN, variants : Offers,
     prices : {PricesFor(o, offer) : o \in Rows, offer \in Offers}]

Reasonings == UNION {[S -> Reasons] : S \in SUBSET Ranks}

Runs ==
    [status : Statuses, opportunities : Seq(Rows), eligible : SUBSET Ranks,
     reason : Reasonings, selected : Ids \cup {None}, ip : Reports,
     screened : Ids \cup {None}, analysis : Ids \cup {None}, analysed : Ids \cup {None},
     package : Packages \cup {NoPackage}, approved : BOOLEAN]

Folders == [sheet : Sheets, refs : Sheets, art : [AllSurfaces -> Nat]]

Workflows == [stage : Stages, rank : Ranks, count : 0..NumOpportunities, tries : 0..MaxTries,
              current : Attempts \cup {NoAttempt}]

(* Everything that depends on the world only, which does not change.       *)
LEMMA Fixed ==
    ASSUME world' = world
    PROVE  /\ Products' = Products /\ Ids' = Ids /\ AllSurfaces' = AllSurfaces /\ Calls' = Calls
           /\ Reports' = Reports /\ Rows' = Rows /\ Offers' = Offers /\ Arts' = Arts
           /\ Executions' = Executions /\ Packages' = Packages /\ Runs' = Runs
           /\ Folders' = Folders
           /\ \A o : ProductOf(o)' = ProductOf(o)
           /\ \A r : IsTableOfRows(r)' <=> IsTableOfRows(r)
  <1>1. Products' = Products
    BY DEF Products
  <1>2. Ids' = Ids
    BY <1>1 DEF Ids
  <1>3. AllSurfaces' = AllSurfaces
    BY <1>1 DEF AllSurfaces
  <1>4. Calls' = Calls
    BY <1>3 DEF Calls
  <1>5. Reports' = Reports
    BY <1>2 DEF Reports
  <1>6. Evidence' = Evidence
    BY <1>1 DEF Evidence
  <1>7. Rows' = Rows
    BY <1>1, <1>6 DEF Rows, Row, Qualified
  <1>8. Offers' = Offers
    BY <1>1 DEF Offers
  <1>9. Arts' = Arts
    BY <1>3 DEF Arts
  <1>10. Executions' = Executions
    BY <1>1, <1>2, <1>5, <1>7, <1>8, <1>9 DEF Executions
  <1>11. Packages' = Packages
    BY <1>2, <1>5, <1>7, <1>8, <1>9 DEF Packages
  <1>12. Runs' = Runs
    BY <1>2, <1>5, <1>7, <1>11 DEF Runs
  <1>13. Folders' = Folders
    BY <1>3 DEF Folders
  <1>14. \A o : ProductOf(o)' = ProductOf(o)
    BY DEF ProductOf
  <1>15. \A r : IsTableOfRows(r)' <=> IsTableOfRows(r)
    BY <1>7 DEF IsTableOfRows
  <1>. QED BY <1>1, <1>2, <1>3, <1>4, <1>5, <1>7, <1>8, <1>9, <1>10, <1>11, <1>12, <1>13,
              <1>14, <1>15

(* What later steps use of opportunities.                                  *)
LEMMA RowsFacts ==
    ASSUME world \in Worlds
    PROVE  /\ \A o \in Rows : IsRow(o)
           /\ None \notin Ids /\ NoOpportunity \notin Rows
           /\ NoPackage \notin Packages
  <1>1. \A o \in Rows : IsRow(o)
    <2>. TAKE o \in Rows
    <2>1. PICK p \in Qualified, i \in Ranks : o = Row(p, i)
      BY DEF Rows
    <2>. QED BY <2>1, RowFacts
  <1>2. None \notin Ids
    BY DigestFacts DEF None
  <1>3. NoOpportunity \notin Rows
    <2>1. NoOpportunity.id = None
      BY DEF NoOpportunity
    <2>. QED BY <1>1, <1>2, <2>1 DEF IsRow
  <1>4. NoPackage \notin Packages
    <2>1. NoPackage.opportunity = NoOpportunity
      BY DEF NoPackage
    <2>. QED BY <1>3, <2>1 DEF Packages
  <1>. QED BY <1>1, <1>2, <1>3, <1>4

(* The surfaces of an offer are some of the world's, which are numbers above 0. *)
LEMMA OfferSurfaces ==
    ASSUME world \in Worlds
    PROVE  /\ AllSurfaces \subseteq Nat \ {0}
           /\ \A offer \in Offers : Surfaces(offer) \subseteq AllSurfaces
  <1>1. AllSurfaces \subseteq Nat \ {0}
    <2>. SUFFICES ASSUME NEW s \in AllSurfaces PROVE s \in Nat \ {0}
      OBVIOUS
    <2>1. PICK p \in Products : s \in Surfaces(world.products[p].variants)
      BY DEF AllSurfaces
    <2>2. PICK i \in DOMAIN world.products[p].variants : s \in world.products[p].variants[i].surfaces
      BY <2>1 DEF Surfaces
    <2>3. IsVariant(world.products[p].variants[i])
      BY WorldFacts DEF VariantsOf
    <2>. QED BY <2>2, <2>3 DEF IsVariant
  <1>2. ASSUME NEW offer \in Offers, NEW s \in Surfaces(offer)
        PROVE  s \in AllSurfaces
    <2>1. PICK i \in DOMAIN offer : s \in offer[i].surfaces
      BY DEF Surfaces
    <2>2. CASE offer = <<>>
      BY <2>1, <2>2
    <2>3. CASE offer # <<>>
      <3>1. PICK p \in Products : offer = Selected(world.products[p])
        BY <2>3 DEF Offers
      <3>. DEFINE product == world.products[p]
                  V == VariantsOf(p)
      <3>2. product.variants \in Seq(V) /\ \A v \in V : IsVariant(v)
        BY WorldFacts
      <3>. HIDE DEF V, product
      <3>3. From(Selected(product), product.variants)
        BY <3>2, SelectedIsOffer
      <3>4. PICK n \in DOMAIN product.variants : offer[i] = product.variants[n]
        BY <2>1, <3>1, <3>3 DEF From, product
      <3>5. s \in Surfaces(product.variants)
        BY <2>1, <3>4 DEF Surfaces
      <3>. QED BY <3>5 DEF AllSurfaces, product
    <2>. QED BY <2>2, <2>3
  <1>. QED BY <1>1, <1>2

-----------------------------------------------------------------------------
(* How far an attempt has come.                                            *)

Selecting == {"refresh", "screen", "saveScreen", "offer", "reject"}
Offering == {"references", "saveSheet", "saveReference", "analyse", "saveAnalysis", "generate"}
Drawing == {"draw", "saveArt", "review", "price", "commit"}
Loaded == {"select"} \cup Selecting \cup Offering \cup Drawing

Sellable(o, offer) ==
    /\ CostsKnown(ProductOf(o)) /\ offer = Selected(ProductOf(o)) /\ offer # <<>>
    /\ Cardinality(AxesOf(offer)) <= MaxAxes
    /\ \A i \in DOMAIN offer : offer[i].supported
Payable(o, offer) ==
    /\ \A i \in DOMAIN offer : offer[i].shipping # Unknown
    /\ \A i \in DOMAIN offer : PricesFor(o, offer)[i].kept

\* Surfaces are drawn in ascending order.
InOrder(drawn, surfaces) == \A s \in drawn : \A t \in surfaces \ drawn : s < t

Progress(x) ==
    /\ x.pc = "begin" => x.stage \in {"research", "resume"}
    /\ x.pc \in {"candidates", "rank"} => x.stage = "research"
    /\ x.pc \in Loaded \cup {"load"} => x.stage = "attempt" /\ x.rank \in Ranks
    /\ x.pc = "done" <=> x.result # "none"
    /\ x.pc \in Loaded => x.opportunity \in Rows
    /\ x.pc \in Offering \cup Drawing => Sellable(x.opportunity, x.offer)
    /\ x.pc \in (Offering \cup Selecting) \ {"reject"} => x.art = <<>>
    /\ x.pc \in {"load", "select"} => x.art = <<>>
    /\ x.pc \in Drawing => DOMAIN x.art \subseteq Surfaces(x.offer)
    /\ x.pc \in {"draw", "saveArt"} => InOrder(DOMAIN x.art, Surfaces(x.offer))
    /\ x.pc = "saveArt" => \E m \in DOMAIN x.art : \A s \in DOMAIN x.art : s <= m
    /\ x.pc \in {"review", "price", "commit"} => DOMAIN x.art = Surfaces(x.offer)
    /\ x.pc = "commit" => Payable(x.opportunity, x.offer)

Working(x) == x \in Executions /\ Progress(x)

WorldInv ==
    /\ world \in Worlds /\ trouble \in 0..world.trouble
    /\ active \subseteq Products /\ pictures \in Pictures
    /\ bought \in [Ids -> [Calls -> Nat]]

RunInv ==
    /\ run \in Runs /\ IsTableOfRows(run.opportunities)
    /\ run.eligible \subseteq DOMAIN run.opportunities
    /\ run.reason \in [DOMAIN run.opportunities -> Reasons]

AttInv == att \in [Attempts -> Executions] /\ \A a \in Attempts : Working(att[a])

StoreInv ==
    /\ store \in [Ids -> Folders]
    /\ kept \subseteq Ids \X Calls

WfInv ==
    /\ wf \in Workflows
    /\ wf.stage \in {"research", "resume"} => wf.rank = 1
    /\ wf.rank > 1 => wf.rank <= wf.count /\ wf.rank <= MaxRanks
    /\ wf.current = NoAttempt => wf.tries < MaxTries
    /\ wf.current # NoAttempt =>
         /\ att[wf.current].pc # "idle" /\ att[wf.current].stage = wf.stage
         /\ wf.stage \in {"research", "resume", "attempt"}
         /\ wf.stage = "attempt" => att[wf.current].rank = wf.rank

\* An attempt takes a step, the others none.
Moves(a) == att' = [att EXCEPT ![a] = att'[a]]

(* What an attempt can be does not depend on the step. *)
LEMMA WorkingStays ==
    ASSUME world' = world
    PROVE  \A x : Working(x)' <=> Working(x)
  <1>1. \A o, offer : Sellable(o, offer)' <=> Sellable(o, offer)
    BY DEF Sellable, ProductOf
  <1>2. \A o, offer : Payable(o, offer)' <=> Payable(o, offer)
    BY DEF Payable, PricesFor
  <1>3. \A x : Progress(x)' <=> Progress(x)
    BY <1>1, <1>2, Fixed DEF Progress
  <1>. QED BY <1>3, Fixed DEF Working

(* A step of one attempt keeps the others what they are. *)
LEMMA OneMoves ==
    ASSUME AttInv, world' = world, NEW a \in Attempts, Moves(a), Working(att'[a])
    PROVE  AttInv'
  <1>1. att'[a] \in Executions
    BY DEF Working
  <1>2. att' \in [Attempts -> Executions]
    BY <1>1 DEF Moves, AttInv
  <1>3. \A b \in Attempts : b # a => att'[b] = att[b]
    BY DEF Moves, AttInv
  <1>4. \A b \in Attempts : Working(att'[b])
    BY <1>3 DEF AttInv
  <1>. QED BY <1>2, <1>4, WorkingStays, Fixed DEF AttInv

(* A step of no attempt keeps them all. *)
LEMMA NoneMoves ==
    ASSUME AttInv, world' = world, att' = att
    PROVE  AttInv'
  BY WorkingStays, Fixed DEF AttInv

(* An attempt that is written.                                             *)
LEMMA Written ==
    ASSUME AttInv, NEW a \in Attempts, NEW x, Is(a, x)
    PROVE  att'[a] = x /\ Moves(a)
  BY DEF AttInv, Is, Moves

ResearchPCs == {"begin", "candidates", "rank"}

(* An execution that has not started is one an attempt can be. *)
LEMMA IdleWorks ==
    ASSUME world \in Worlds
    PROVE  Working(Idle)
  <1>1. <<>> \in Arts
    <2>1. {} \in SUBSET AllSurfaces
      OBVIOUS
    <2>2. <<>> \in [{} -> Nat]
      OBVIOUS
    <2>. QED BY <2>1, <2>2 DEF Arts
  <1>2. <<>> \in Offers /\ NoReport \in Reports /\ NoReferences \in Sheets
    BY DEF Offers, NoReport, Reports, NoReferences, Sheets
  <1>3. NumOpportunities \in Nat
    BY OpportunitiesAssumption
  <1>4. Idle \in Executions
    BY <1>1, <1>2, <1>3 DEF Idle, Executions, PCs, Stages, Reasons, Results
  <1>. QED BY <1>4 DEF Working, Progress, Idle, Loaded, Selecting, Offering, Drawing

(* Done and rejecting attempts.                                            *)
LEMMA Ends ==
    ASSUME NEW x, Working(x)
    PROVE  /\ \A result \in Results \ {"none"} : Working(Done(x, result))
           /\ \A reason \in Reasons : x.pc \in Loaded => Working(Rejecting(x, reason))
  <1>1. ASSUME NEW result \in Results \ {"none"}
        PROVE  Working(Done(x, result))
    <2>. DEFINE y == Done(x, result)
    <2>1. y = [x EXCEPT !.pc = "done", !.result = result]
      BY DEF Done
    <2>. HIDE DEF y
    <2>2. y \in Executions
      BY <2>1 DEF Working, Executions, PCs
    <2>3. y.pc = "done" /\ y.result # "none"
      BY <2>1 DEF Working, Executions
    <2>4. Progress(y)
      BY <2>3 DEF Progress, Loaded, Selecting, Offering, Drawing
    <2>. QED BY <2>2, <2>4 DEF Working, y
  <1>2. ASSUME NEW reason \in Reasons, x.pc \in Loaded
        PROVE  Working(Rejecting(x, reason))
    <2>. DEFINE y == Rejecting(x, reason)
    <2>1. y = [x EXCEPT !.pc = "reject", !.reason = reason]
      BY DEF Rejecting
    <2>. HIDE DEF y
    <2>2. y \in Executions
      BY <2>1 DEF Working, Executions, PCs
    <2>3. y.pc = "reject" /\ y.stage = x.stage /\ y.rank = x.rank
          /\ y.result = x.result /\ y.opportunity = x.opportunity
      BY <2>1 DEF Working, Executions
    <2>4. x.stage = "attempt" /\ x.rank \in Ranks /\ x.opportunity \in Rows /\ x.result = "none"
      BY <1>2 DEF Working, Progress, Loaded, Selecting, Offering, Drawing
    <2>5. Progress(y)
      BY <2>3, <2>4 DEF Progress, Loaded, Selecting, Offering, Drawing
    <2>. QED BY <2>2, <2>5 DEF Working, y
  <1>. QED BY <1>1, <1>2

Inv == WorldInv /\ RunInv /\ AttInv /\ StoreInv /\ WfInv

(* The steps of research.                                                  *)
LEMMA ResearchWorks ==
    ASSUME Inv, NEW a \in Attempts, Research(a)
    PROVE  AttInv' /\ Moves(a) /\ att'[a].stage = att[a].stage /\ att'[a].pc # "idle"
           /\ att'[a].rank = att[a].rank
  <1>. DEFINE x == att[a]
              y == att'[a]
  <1>1. x \in Executions /\ Progress(x) /\ Working(x)
    BY DEF Inv, AttInv, Working
  <1>2. world' = world
    BY DEF Research, BeginResearch, Candidate, Gather, StoreOpportunities, ResumeResearch
  <1>3. /\ Working(y) /\ Moves(a) /\ y.stage = x.stage /\ y.pc # "idle" /\ y.rank = x.rank
    <2>1. CASE BeginResearch(a)
      <3>. DEFINE q == Filtered([p \in Products |-> p], active)
      <3>1. q \in Seq(Products)
        <4>1. Products = 1..Len(world.products) /\ Len(world.products) \in Nat
          BY WorldFacts, OpportunitiesAssumption DEF Inv, WorldInv
        <4>. DEFINE s == [p \in Products |-> p]
        <4>2. s \in Seq(Products)
          BY <4>1, SeqDef
        <4>3. active \in SUBSET DOMAIN s
          BY DEF Inv, WorldInv
        <4>. HIDE DEF s
        <4>4. Filtered(s, active) \in Seq(Products)
          BY <4>2, <4>3, FilteredSeq
        <4>. QED BY <4>4 DEF s
      <3>. HIDE DEF q
      <3>2. y = [x EXCEPT !.pc = "candidates", !.queue = q] /\ Moves(a)
        BY <2>1, Written DEF BeginResearch, q, Inv
      <3>3. x.pc = "begin" /\ x.stage = "research"
        BY <2>1 DEF BeginResearch, At
      <3>. HIDE DEF x, y
      <3>4. y \in Executions /\ y.pc = "candidates" /\ y.stage = x.stage /\ y.result = x.result /\ y.rank = x.rank
        BY <1>1, <3>1, <3>2 DEF Executions, PCs
      <3>5. Progress(y)
        BY <1>1, <3>3, <3>4 DEF Progress, Loaded, Selecting, Offering, Drawing
      <3>. QED BY <3>2, <3>4, <3>5 DEF Working, x, y
    <2>2. CASE Candidate(a)
      <3>. DEFINE p == Head(x.queue)
                  rest == Tail(x.queue)
      <3>1. x.queue \in Seq(Products) /\ x.queue # <<>> /\ x.found \in Seq(Products) /\ x.pc = "candidates"
        BY <1>1, <2>2 DEF Candidate, Executions, At
      <3>2. p \in Products /\ rest \in Seq(Products) /\ Append(x.found, p) \in Seq(Products)
        <4>. HIDE DEF x
        <4>. QED BY <3>1
      <3>. HIDE DEF p, rest
      <3>3. /\ Moves(a)
            /\ \/ y = [x EXCEPT !.queue = rest, !.found = Append(@, p)]
               \/ y = [x EXCEPT !.queue = rest]
        BY <2>2, Written DEF Candidate, p, rest, Inv
      <3>. HIDE DEF x, y
      <3>4. y \in Executions /\ y.pc = "candidates" /\ y.stage = x.stage /\ y.result = x.result /\ y.rank = x.rank
        <4>1. x \in Executions /\ Append(x.found, p) \in Seq(Products)
          BY <1>1, <3>2
        <4>2. CASE y = [x EXCEPT !.queue = rest]
          BY <3>1, <3>2, <4>1, <4>2 DEF Executions
        <4>3. CASE y = [x EXCEPT !.queue = rest, !.found = Append(@, p)]
          <5>. DEFINE longer == Append(x.found, p)
          <5>1. longer \in Seq(Products) /\ y = [x EXCEPT !.queue = rest, !.found = longer]
            BY <4>1, <4>3
          <5>. HIDE DEF longer
          <5>. QED BY <3>1, <3>2, <4>1, <5>1 DEF Executions
        <4>. QED BY <3>3, <4>2, <4>3
      <3>5. Progress(y)
        BY <1>1, <3>1, <3>4 DEF Progress, Loaded, Selecting, Offering, Drawing
      <3>. QED BY <3>3, <3>4, <3>5 DEF Working, x, y
    <2>3. CASE Gather(a)
      <3>1. Moves(a) /\ (y = [x EXCEPT !.pc = "rank"] \/ y = Done(x, "error")) /\ x.pc = "candidates"
        BY <2>3, Written DEF Gather, Inv, At
      <3>. HIDE DEF x, y
      <3>2. CASE y = [x EXCEPT !.pc = "rank"]
        <4>1. y \in Executions /\ y.pc = "rank" /\ y.stage = x.stage /\ y.result = x.result /\ y.rank = x.rank
          BY <1>1, <3>2 DEF Executions, PCs
        <4>2. Progress(y)
          BY <1>1, <3>1, <4>1 DEF Progress, Loaded, Selecting, Offering, Drawing
        <4>. QED BY <3>1, <4>1, <4>2 DEF Working, x, y
      <3>3. CASE y = Done(x, "error")
        <4>1. Working(y)
          BY <1>1, <3>3, Ends DEF Results
        <4>2. y.stage = x.stage /\ y.pc = "done" /\ y.rank = x.rank
          BY <1>1, <3>3 DEF Done, Executions
        <4>. QED BY <3>1, <4>1, <4>2 DEF x, y
      <3>. QED BY <3>1, <3>2, <3>3
    <2>4. CASE StoreOpportunities(a) \/ ResumeResearch(a)
      <3>1. \E n \in 0..NumOpportunities :
               /\ Moves(a)
               /\ y = Done(x, "error") \/ y = [Done(x, "ready") EXCEPT !.count = n]
        <4>1. CASE StoreOpportunities(a)
          <5>. DEFINE found == Researched(x.found)
          <5>1. Len(found) \in 0..NumOpportunities
            <6>1. IsTableOfRows(found)
              <7>1. x.found \in Seq(Products)
                BY <1>1 DEF Executions
              <7>. HIDE DEF x
              <7>. QED BY <7>1, ResearchedRows DEF Inv, WorldInv
            <6>. HIDE DEF found
            <6>. QED BY <6>1, OpportunitiesAssumption DEF IsTableOfRows
          <5>. HIDE DEF found
          <5>2. \/ Is(a, Done(x, "error"))
                \/ Is(a, [Done(x, "ready") EXCEPT !.count = Len(found)])
            BY <4>1 DEF StoreOpportunities, found
          <5>3. AttInv
            BY DEF Inv
          <5>. QED BY <5>1, <5>2, <5>3, Written
        <4>2. CASE ResumeResearch(a)
          <5>1. Len(run.opportunities) \in 0..NumOpportunities
            BY OpportunitiesAssumption DEF Inv, RunInv, IsTableOfRows
          <5>2. \/ Is(a, Done(x, "error"))
                \/ Is(a, [Done(x, "ready") EXCEPT !.count = Len(run.opportunities)])
            BY <4>2 DEF ResumeResearch
          <5>3. AttInv
            BY DEF Inv
          <5>. QED BY <5>1, <5>2, <5>3, Written
        <4>. QED BY <2>4, <4>1, <4>2
      <3>2. PICK n \in 0..NumOpportunities :
               /\ Moves(a)
               /\ y = Done(x, "error") \/ y = [Done(x, "ready") EXCEPT !.count = n]
        BY <3>1
      <3>. HIDE DEF x, y
      <3>3. Working(Done(x, "error")) /\ Working(Done(x, "ready"))
        BY <1>1, Ends DEF Results
      <3>4. CASE y = Done(x, "error")
        BY <1>1, <3>2, <3>3, <3>4 DEF Done, Executions, x, y
      <3>5. CASE y = [Done(x, "ready") EXCEPT !.count = n]
        <4>1. Done(x, "ready") \in Executions /\ Progress(Done(x, "ready"))
          BY <3>3 DEF Working
        <4>2. y \in Executions /\ y.pc = "done" /\ y.result = "ready" /\ y.stage = x.stage /\ y.rank = x.rank
          BY <1>1, <3>5, <4>1 DEF Executions, Done
        <4>3. Progress(y)
          BY <4>2 DEF Progress, Loaded, Selecting, Offering, Drawing
        <4>. QED BY <3>2, <4>2, <4>3 DEF Working, x, y
      <3>. QED BY <3>2, <3>4, <3>5
    <2>. QED BY <2>1, <2>2, <2>3, <2>4 DEF Research
  <1>4. AttInv
    BY DEF Inv
  <1>. QED BY <1>2, <1>3, <1>4, OneMoves

\* y is at another step than x, with the same opportunity, offer and artwork.
Alike(x, y) ==
    /\ y \in Executions
    /\ y.stage = x.stage /\ y.rank = x.rank /\ y.result = x.result
    /\ y.opportunity = x.opportunity /\ y.offer = x.offer /\ y.art = x.art

\* The steps between which nothing is added to an offer or its artwork.
Passes ==
    {<<"select", "refresh">>, <<"refresh", "screen">>, <<"refresh", "offer">>,
     <<"screen", "offer">>, <<"screen", "saveScreen">>, <<"saveScreen", "offer">>,
     <<"references", "saveSheet">>, <<"saveSheet", "saveReference">>,
     <<"saveReference", "saveReference">>, <<"saveReference", "analyse">>,
     <<"analyse", "generate">>, <<"analyse", "saveAnalysis">>, <<"saveAnalysis", "generate">>,
     <<"generate", "draw">>, <<"saveArt", "draw">>, <<"review", "price">>}

(* An attempt that goes on without changing its data stays what an attempt  *)
(* can be.                                                                  *)
LEMMA Passing ==
    ASSUME NEW x, Working(x), NEW y, Alike(x, y), <<x.pc, y.pc>> \in Passes
    PROVE  Working(y)
  <1>1. CASE <<x.pc, y.pc>> = <<"generate", "draw">>
    <2>1. x.pc = "generate" /\ y.pc = "draw"
      BY <1>1
    <2>2. x.art = <<>> /\ DOMAIN y.art = {}
      BY <2>1 DEF Alike, Working, Progress, Loaded, Selecting, Offering, Drawing
    <2>3. InOrder(DOMAIN y.art, Surfaces(y.offer))
      BY <2>2 DEF InOrder
    <2>. QED BY <2>1, <2>2, <2>3
         DEF Alike, Working, Progress, Loaded, Selecting, Offering, Drawing
  <1>2. CASE <<x.pc, y.pc>> # <<"generate", "draw">>
    BY <1>2 DEF Passes, Alike, Working, Progress, Loaded, Selecting, Offering, Drawing
  <1>. QED BY <1>1, <1>2

(* The id of an attempt's opportunity. *)
LEMMA LoadedId ==
    ASSUME Inv, NEW a \in Attempts, att[a].pc \in Loaded
    PROVE  Id(a) \in Ids /\ att[a].opportunity \in Rows /\ att[a].opportunity.product \in Products
  <1>1. att[a].opportunity \in Rows
    BY DEF Inv, AttInv, Working, Progress
  <1>2. IsRow(att[a].opportunity)
    BY <1>1, RowsFacts DEF Inv, WorldInv
  <1>. QED BY <1>1, <1>2 DEF IsRow, Id

Passed(a) == \/ Select(a) \/ Refresh(a) \/ Screen(a) \/ SaveScreen(a)
             \/ FetchReferences(a) \/ SaveSheet(a) \/ SaveReference(a)
             \/ Analyse(a) \/ SaveAnalysis(a) \/ Generate(a) \/ SaveArt(a) \/ Review(a)

(* Most steps of a preparation reject the opportunity or go on with it.    *)
LEMMA PassedSteps ==
    ASSUME Inv, NEW a \in Attempts, Passed(a)
    PROVE  /\ Moves(a) /\ world' = world /\ att[a].pc \in Loaded
           /\ \/ \E reason \in Reasons : att'[a] = Rejecting(att[a], reason)
              \/ Alike(att[a], att'[a]) /\ <<att[a].pc, att'[a].pc>> \in Passes
  <1>. DEFINE x == att[a]
              y == att'[a]
              Rejects == \E reason \in Reasons : y = Rejecting(x, reason)
              Goes == Alike(x, y) /\ <<x.pc, y.pc>> \in Passes
  <1>1. x \in Executions /\ AttInv
    BY DEF Inv, AttInv, Working
  <1>2. CASE Select(a)
    <2>1. Moves(a) /\ y = [x EXCEPT !.pc = "refresh"] /\ x.pc = "select"
      BY <1>1, <1>2, Written DEF Select, Goto, At
    <2>2. Goes
      <3>. HIDE DEF x, y
      <3>. QED BY <1>1, <2>1 DEF Executions, PCs, Alike, Passes
    <2>. QED BY <1>2, <2>1, <2>2 DEF Select, Loaded
  <1>3. CASE Refresh(a)
    <2>1. /\ Moves(a) /\ x.pc = "refresh"
          /\ \/ y = Rejecting(x, "references") \/ y = Rejecting(x, "unavailable")
             \/ y = [x EXCEPT !.pc = IF world.ip THEN "screen" ELSE "offer"]
      BY <1>1, <1>3, Written DEF Refresh, Reject, At
    <2>2. Rejects \/ Goes
      <3>1. CASE y = Rejecting(x, "references")
        BY <3>1 DEF Reasons
      <3>2. CASE y = Rejecting(x, "unavailable")
        BY <3>2 DEF Reasons
      <3>3. CASE y = [x EXCEPT !.pc = IF world.ip THEN "screen" ELSE "offer"]
        <4>. HIDE DEF x, y
        <4>. QED BY <1>1, <2>1, <3>3 DEF Executions, PCs, Alike, Passes
      <3>. QED BY <2>1, <3>1, <3>2, <3>3
    <2>. QED BY <1>3, <2>1, <2>2 DEF Refresh, Loaded, Selecting
  <1>4. CASE Screen(a)
    <2>0. x.pc = "screen"
      BY <1>4 DEF Screen, At
    <2>1. \E report \in Reports :
            \/ Is(a, Judge(x, report))
            \/ Is(a, [x EXCEPT !.pc = "saveScreen", !.ip = report])
      <3>1. run.ip \in Reports
        BY DEF Inv, RunInv, Runs
      <3>2. Id(a) \in Ids
        BY <2>0, LoadedId DEF Loaded, Selecting
      <3>3. \A pass \in BOOLEAN : [of |-> Id(a), pass |-> pass] \in Reports
        BY <3>2 DEF Reports
      <3>. HIDE DEF x
      <3>. QED BY <1>4, <3>1, <3>3 DEF Screen, x
    <2>2. PICK report \in Reports :
            \/ Is(a, Judge(x, report))
            \/ Is(a, [x EXCEPT !.pc = "saveScreen", !.ip = report])
      BY <2>1
    <2>3. /\ Moves(a)
          /\ \/ y = Rejecting(x, "ip") \/ y = [x EXCEPT !.ip = report, !.pc = "offer"]
             \/ y = [x EXCEPT !.pc = "saveScreen", !.ip = report]
      BY <1>1, <2>2, Written DEF Judge
    <2>4. Rejects \/ Goes
      <3>1. CASE y = Rejecting(x, "ip")
        BY <3>1 DEF Reasons
      <3>2. CASE y = [x EXCEPT !.ip = report, !.pc = "offer"]
        <4>. HIDE DEF x, y
        <4>. QED BY <1>1, <2>0, <3>2 DEF Executions, PCs, Alike, Passes
      <3>3. CASE y = [x EXCEPT !.pc = "saveScreen", !.ip = report]
        <4>. HIDE DEF x, y
        <4>. QED BY <1>1, <2>0, <3>3 DEF Executions, PCs, Alike, Passes
      <3>. QED BY <2>3, <3>1, <3>2, <3>3
    <2>. QED BY <1>4, <2>0, <2>3, <2>4 DEF Screen, Loaded, Selecting
  <1>5. CASE SaveScreen(a)
    <2>0. x.pc = "saveScreen" /\ x.ip \in Reports
      BY <1>1, <1>5 DEF SaveScreen, At, Executions
    <2>1. /\ Moves(a)
          /\ y = Rejecting(x, "ip") \/ y = [x EXCEPT !.ip = x.ip, !.pc = "offer"]
      BY <1>1, <1>5, Written DEF SaveScreen, Judge
    <2>2. Rejects \/ Goes
      <3>1. CASE y = Rejecting(x, "ip")
        BY <3>1 DEF Reasons
      <3>2. CASE y = [x EXCEPT !.ip = x.ip, !.pc = "offer"]
        <4>. HIDE DEF x, y
        <4>. QED BY <1>1, <2>0, <3>2 DEF Executions, PCs, Alike, Passes
      <3>. QED BY <2>1, <3>1, <3>2
    <2>. QED BY <1>5, <2>0, <2>1, <2>2 DEF SaveScreen, Loaded, Selecting
  <1>6. CASE FetchReferences(a)
    <2>0. x.pc = "references"
      BY <1>6 DEF FetchReferences, At
    <2>. DEFINE saved == store[Id(a)].refs
                missing == {i \in References : saved[i] = None}
                refs == [i \in References |-> IF i \in missing THEN pictures ELSE saved[i]]
    <2>1. missing \in SUBSET References /\ refs \in Sheets
      <3>1. Id(a) \in Ids
        BY <2>0, LoadedId DEF Loaded, Offering
      <3>2. saved \in Sheets
        BY <3>1 DEF Inv, StoreInv, Folders
      <3>3. pictures \in Pictures
        BY DEF Inv, WorldInv
      <3>. HIDE DEF saved
      <3>. QED BY <3>2, <3>3 DEF Sheets
    <2>2. /\ Moves(a) /\ y = [x EXCEPT !.pc = "saveSheet", !.missing = missing, !.refs = refs]
      BY <1>1, <1>6, Written DEF FetchReferences
    <2>3. Goes
      <3>. HIDE DEF x, y, missing, refs
      <3>. QED BY <1>1, <2>0, <2>1, <2>2 DEF Executions, PCs, Alike, Passes
    <2>. QED BY <1>6, <2>0, <2>2, <2>3 DEF FetchReferences, Loaded, Offering
  <1>7. CASE SaveSheet(a)
    <2>1. /\ Moves(a) /\ x.pc = "saveSheet"
          /\ y = Rejecting(x, "replayed") \/ y = [x EXCEPT !.pc = "saveReference"]
      BY <1>1, <1>7, Written DEF SaveSheet, Reject, Goto, At
    <2>2. Rejects \/ Goes
      <3>1. CASE y = Rejecting(x, "replayed")
        BY <3>1 DEF Reasons
      <3>2. CASE y = [x EXCEPT !.pc = "saveReference"]
        <4>. HIDE DEF x, y
        <4>. QED BY <1>1, <2>1, <3>2 DEF Executions, PCs, Alike, Passes
      <3>. QED BY <2>1, <3>1, <3>2
    <2>. QED BY <1>7, <2>1, <2>2 DEF SaveSheet, Loaded, Offering
  <1>8. CASE SaveReference(a)
    <2>1. /\ Moves(a) /\ x.pc = "saveReference"
          /\ \/ y = Rejecting(x, "replayed") \/ y = [x EXCEPT !.pc = "analyse"]
             \/ \E i : y = [x EXCEPT !.missing = @ \ {i}]
      BY <1>1, <1>8, Written DEF SaveReference, Reject, Goto, At
    <2>2. Rejects \/ Goes
      <3>1. CASE y = Rejecting(x, "replayed")
        BY <3>1 DEF Reasons
      <3>2. CASE y = [x EXCEPT !.pc = "analyse"]
        <4>. HIDE DEF x, y
        <4>. QED BY <1>1, <2>1, <3>2 DEF Executions, PCs, Alike, Passes
      <3>3. ASSUME NEW i, y = [x EXCEPT !.missing = @ \ {i}]
            PROVE  Goes
        <4>1. x.missing \ {i} \in SUBSET References
          BY <1>1 DEF Executions
        <4>. HIDE DEF x, y
        <4>. QED BY <1>1, <2>1, <3>3, <4>1 DEF Executions, PCs, Alike, Passes
      <3>. QED BY <2>1, <3>1, <3>2, <3>3
    <2>. QED BY <1>8, <2>1, <2>2 DEF SaveReference, Loaded, Offering
  <1>9. CASE Analyse(a)
    <2>0. x.pc = "analyse"
      BY <1>9 DEF Analyse, At
    <2>1. Id(a) \in Ids \cup {None} /\ run.analysis \in Ids \cup {None}
      BY <2>0, LoadedId DEF Loaded, Offering, Inv, RunInv, Runs
    <2>2. /\ Moves(a)
          /\ \/ y = [x EXCEPT !.pc = "generate", !.analysis = run.analysis]
             \/ y = [x EXCEPT !.pc = "saveAnalysis", !.analysis = Id(a)]
      BY <1>1, <1>9, Written DEF Analyse
    <2>3. Rejects \/ Goes
      <3>1. CASE y = [x EXCEPT !.pc = "generate", !.analysis = run.analysis]
        <4>. HIDE DEF x, y
        <4>. QED BY <1>1, <2>0, <2>1, <3>1 DEF Executions, PCs, Alike, Passes
      <3>2. CASE y = [x EXCEPT !.pc = "saveAnalysis", !.analysis = Id(a)]
        <4>. HIDE DEF x, y
        <4>. QED BY <1>1, <2>0, <2>1, <3>2 DEF Executions, PCs, Alike, Passes
      <3>. QED BY <2>2, <3>1, <3>2
    <2>. QED BY <1>9, <2>0, <2>2, <2>3 DEF Analyse, Loaded, Offering
  <1>10. CASE SaveAnalysis(a)
    <2>1. Moves(a) /\ y = [x EXCEPT !.pc = "generate"] /\ x.pc = "saveAnalysis"
      BY <1>1, <1>10, Written DEF SaveAnalysis, Goto, At
    <2>2. Goes
      <3>. HIDE DEF x, y
      <3>. QED BY <1>1, <2>1 DEF Executions, PCs, Alike, Passes
    <2>. QED BY <1>10, <2>1, <2>2 DEF SaveAnalysis, Loaded, Offering
  <1>11. CASE Generate(a)
    <2>1. /\ Moves(a) /\ x.pc = "generate"
          /\ y = Rejecting(x, "surfaces") \/ y = [x EXCEPT !.pc = "draw"]
      BY <1>1, <1>11, Written DEF Generate, Reject, Goto, At
    <2>2. Rejects \/ Goes
      <3>1. CASE y = Rejecting(x, "surfaces")
        BY <3>1 DEF Reasons
      <3>2. CASE y = [x EXCEPT !.pc = "draw"]
        <4>. HIDE DEF x, y
        <4>. QED BY <1>1, <2>1, <3>2 DEF Executions, PCs, Alike, Passes
      <3>. QED BY <2>1, <3>1, <3>2
    <2>. QED BY <1>11, <2>1, <2>2 DEF Generate, Loaded, Offering
  <1>12. CASE SaveArt(a)
    <2>1. /\ Moves(a) /\ x.pc = "saveArt"
          /\ y = Rejecting(x, "replayed") \/ y = [x EXCEPT !.pc = "draw"]
      BY <1>1, <1>12, Written DEF SaveArt, Reject, Goto, At
    <2>2. Rejects \/ Goes
      <3>1. CASE y = Rejecting(x, "replayed")
        BY <3>1 DEF Reasons
      <3>2. CASE y = [x EXCEPT !.pc = "draw"]
        <4>. HIDE DEF x, y
        <4>. QED BY <1>1, <2>1, <3>2 DEF Executions, PCs, Alike, Passes
      <3>. QED BY <2>1, <3>1, <3>2
    <2>. QED BY <1>12, <2>1, <2>2 DEF SaveArt, Loaded, Drawing
  <1>13. CASE Review(a)
    <2>1. /\ Moves(a) /\ x.pc = "review"
          /\ y = Rejecting(x, "originality") \/ y = [x EXCEPT !.pc = "price", !.reviewed = TRUE]
      BY <1>1, <1>13, Written DEF Review, Reject, At
    <2>2. Rejects \/ Goes
      <3>1. CASE y = Rejecting(x, "originality")
        BY <3>1 DEF Reasons
      <3>2. CASE y = [x EXCEPT !.pc = "price", !.reviewed = TRUE]
        <4>. HIDE DEF x, y
        <4>. QED BY <1>1, <2>1, <3>2 DEF Executions, PCs, Alike, Passes
      <3>. QED BY <2>1, <3>1, <3>2
    <2>. QED BY <1>13, <2>1, <2>2 DEF Review, Loaded, Drawing
  <1>. QED BY <1>2, <1>3, <1>4, <1>5, <1>6, <1>7, <1>8, <1>9, <1>10, <1>11, <1>12, <1>13 DEF Passed

(* The next surface is the least one left.                                 *)
LEMMA NextSurface ==
    ASSUME NEW S \in SUBSET Nat, NEW D \in SUBSET S, S \ D # {}, InOrder(D, S)
    PROVE  LET s == Min(S \ D)
           IN s \in S \ D /\ (\A t \in D : t < s) /\ InOrder(D \cup {s}, S)
  <1>. DEFINE left == S \ D
              s == Min(left)
  <1>1. left \subseteq Nat /\ left # {}
    OBVIOUS
  <1>2. \E m \in left : \A n \in left : m <= n
    <2>. HIDE DEF left
    <2>. QED BY <1>1, LeastNatural
  <1>3. s \in left /\ \A n \in left : s <= n
    <2>. HIDE DEF left
    <2>. QED BY <1>2 DEF Min
  <1>. HIDE DEF s
  <1>4. \A t \in D : t < s
    BY <1>3 DEF InOrder
  <1>5. ASSUME NEW u \in D \cup {s}, NEW t \in S \ (D \cup {s})
        PROVE  u < t
    <2>1. CASE u \in D
      BY <2>1 DEF InOrder
    <2>2. CASE u = s
      <3>1. s <= t /\ s # t /\ s \in Nat /\ t \in Nat
        BY <1>1, <1>3
      <3>. QED BY <2>2, <3>1
    <2>. QED BY <2>1, <2>2
  <1>6. InOrder(D \cup {s}, S)
    BY <1>5 DEF InOrder
  <1>. QED BY <1>3, <1>4, <1>6 DEF s

(* A function with one more value.                                         *)
Extended(art, s, image) == [t \in DOMAIN art \cup {s} |-> IF t = s THEN image ELSE art[t]]

(* A drawn surface extends the artwork. *)
LEMMA ExtendedArt ==
    ASSUME NEW art \in Arts, NEW s \in AllSurfaces, NEW image \in Nat
    PROVE  Extended(art, s, image) \in Arts
  <1>1. PICK S \in SUBSET AllSurfaces : art \in [S -> Nat]
    BY DEF Arts
  <1>2. Extended(art, s, image) \in [S \cup {s} -> Nat]
    BY <1>1 DEF Extended
  <1>. QED BY <1>2 DEF Arts

\* What Draw does to an attempt, by what it finds.
Drew(x, y, s, image, pc) ==
    y = [x EXCEPT !.art = Extended(x.art, s, image), !.pc = pc]

(* What Draw does: it is through, reuses the stored artwork of the next     *)
(* surface, or pays for one that passes or fails the print checks.          *)
LEMMA DrawSteps ==
    ASSUME Inv, NEW a \in Attempts, Draw(a)
    PROVE  LET x == att[a]
               y == att'[a]
               left == Surfaces(x.offer) \ DOMAIN x.art
               s == Min(left)
           IN /\ Moves(a) /\ world' = world /\ x.pc = "draw"
              /\ left # {} => s \in left /\ s \in AllSurfaces
              /\ \/ left = {} /\ y = [x EXCEPT !.pc = IF world.originality THEN "review" ELSE "price"]
                    /\ bought' = bought
                 \/ /\ left # {} /\ store[Id(a)].art[s] # None /\ bought' = bought
                    /\ Drew(x, y, s, store[Id(a)].art[s], "draw")
                 \/ /\ left # {} /\ store[Id(a)].art[s] = None /\ Buy(a, s)
                    /\ Drew(x, y, s, bought[Id(a)][s] + 1, "saveArt")
                 \/ /\ left # {} /\ store[Id(a)].art[s] = None /\ Buy(a, s)
                    /\ y = Rejecting(x, "prepress")
  <1>. DEFINE x == att[a]
              y == att'[a]
              left == Surfaces(x.offer) \ DOMAIN x.art
              s == Min(left)
  <1>1. AttInv /\ x \in Executions /\ Progress(x) /\ x.pc = "draw"
    BY DEF Inv, AttInv, Working, Draw, At
  <1>2. x.pc \in Loaded /\ x.offer \in Offers
    BY <1>1 DEF Loaded, Drawing, Executions
  <1>3. left # {} => s \in left /\ s \in AllSurfaces
    <2>1. /\ Surfaces(x.offer) \in SUBSET Nat /\ Surfaces(x.offer) \subseteq AllSurfaces
      BY <1>2, OfferSurfaces DEF Inv, WorldInv
    <2>2. DOMAIN x.art \in SUBSET Surfaces(x.offer) /\ InOrder(DOMAIN x.art, Surfaces(x.offer))
      BY <1>1 DEF Progress, Drawing
    <2>. DEFINE S == Surfaces(x.offer)
                D == DOMAIN x.art
    <2>3. S \in SUBSET Nat /\ D \in SUBSET S /\ InOrder(D, S)
      BY <2>1, <2>2
    <2>. HIDE DEF S, D
    <2>4. S \ D # {} => Min(S \ D) \in S \ D
      BY <2>3, NextSurface
    <2>. QED BY <2>1, <2>4 DEF S, D
  <1>4. world' = world
    BY DEF Draw
  <1>5. \A image : [x EXCEPT !.art = [t \in DOMAIN @ \cup {s} |-> IF t = s THEN image ELSE @[t]]]
                    = [x EXCEPT !.art = Extended(x.art, s, image)]
    <2>. HIDE DEF s, x
    <2>. QED BY DEF Extended
  <1>6. \A image : [[x EXCEPT !.art = Extended(x.art, s, image)] EXCEPT !.pc = "saveArt"]
                    = [x EXCEPT !.art = Extended(x.art, s, image), !.pc = "saveArt"]
    OBVIOUS
  <1>7. \A image : [x EXCEPT !.art = Extended(x.art, s, image)]
                    = [x EXCEPT !.art = Extended(x.art, s, image), !.pc = "draw"]
    <2>. HIDE DEF s, x
    <2>. QED BY <1>1 DEF Executions
  <1>8. CASE left = {}
    <2>1. Goto(a, IF world.originality THEN "review" ELSE "price") /\ bought' = bought
      BY <1>8 DEF Draw
    <2>2. Moves(a) /\ y = [x EXCEPT !.pc = IF world.originality THEN "review" ELSE "price"]
      BY <1>1, <2>1, Written DEF Goto
    <2>. QED BY <1>1, <1>4, <1>8, <2>1, <2>2
  <1>9. CASE left # {} /\ store[Id(a)].art[s] # None
    <2>1. bought' = bought
      BY <1>9 DEF Draw
    <2>2. Is(a, [x EXCEPT !.art = [t \in DOMAIN @ \cup {s} |->
                                     IF t = s THEN store[Id(a)].art[s] ELSE @[t]]])
      BY <1>9 DEF Draw
    <2>3. Is(a, [x EXCEPT !.art = Extended(x.art, s, store[Id(a)].art[s])])
      <3>. HIDE DEF x, s
      <3>. QED BY <1>5, <2>2
    <2>4. Is(a, [x EXCEPT !.art = Extended(x.art, s, store[Id(a)].art[s]), !.pc = "draw"])
      <3>. HIDE DEF x, s
      <3>. QED BY <1>7, <2>3
    <2>5. Moves(a) /\ Drew(x, y, s, store[Id(a)].art[s], "draw")
      <3>. HIDE DEF s
      <3>. QED BY <1>1, <2>4, Written DEF Drew
    <2>. QED BY <1>1, <1>3, <1>4, <1>9, <2>1, <2>5
  <1>10. CASE left # {} /\ store[Id(a)].art[s] = None
    <2>1. Buy(a, s)
      BY <1>10 DEF Draw
    <2>2. \/ Is(a, [[x EXCEPT !.art = [t \in DOMAIN @ \cup {s} |->
                                     IF t = s THEN bought[Id(a)][s] + 1 ELSE @[t]]]
                       EXCEPT !.pc = "saveArt"])
          \/ Reject(a, "prepress")
      BY <1>10 DEF Draw
    <2>3. \/ Is(a, [x EXCEPT !.art = Extended(x.art, s, bought[Id(a)][s] + 1), !.pc = "saveArt"])
          \/ Is(a, Rejecting(x, "prepress"))
      <3>1. CASE Reject(a, "prepress")
        BY <3>1 DEF Reject
      <3>2. CASE ~ Reject(a, "prepress")
        <4>. HIDE DEF x, s
        <4>. QED BY <1>5, <1>6, <2>2, <3>2
      <3>. QED BY <3>1, <3>2
    <2>4. Moves(a) /\ (Drew(x, y, s, bought[Id(a)][s] + 1, "saveArt") \/ y = Rejecting(x, "prepress"))
      <3>. HIDE DEF s
      <3>. QED BY <1>1, <2>3, Written DEF Drew
    <2>. QED BY <1>1, <1>3, <1>4, <1>10, <2>1, <2>4
  <1>. QED BY <1>8, <1>9, <1>10

(* What Load does: the opportunity was rejected, is already packaged, or is *)
(* to be prepared.                                                          *)
LEMMA LoadSteps ==
    ASSUME Inv, NEW a \in Attempts, Load(a)
    PROVE  LET x == att[a]
               y == att'[a]
               o == run.opportunities[x.rank]
           IN /\ Moves(a) /\ world' = world /\ run' = run /\ x.pc = "load"
              /\ \/ x.rank \notin run.eligible /\ y = Done(x, "rejected")
                 \/ x.rank \in run.eligible /\ y = Done(x, "ready")
                    /\ run.package # NoPackage /\ run.status = "publishing"
                 \/ /\ x.rank \in run.eligible /\ o \in Rows
                    /\ ~ (run.selected = o.id /\ run.package # NoPackage /\ run.status = "publishing")
                    /\ y = [x EXCEPT !.pc = "select", !.opportunity = o]
  <1>. DEFINE x == att[a]
              y == att'[a]
              o == run.opportunities[x.rank]
  <1>1. AttInv /\ world' = world /\ run' = run /\ x.pc = "load"
    BY DEF Inv, Load, At
  <1>2. x.rank \in run.eligible => o \in Rows
    <2>1. \A n \in run.eligible : n \in DOMAIN run.opportunities
      BY DEF Inv, RunInv
    <2>2. \A n \in DOMAIN run.opportunities : run.opportunities[n] \in Rows
      BY DEF Inv, RunInv, IsTableOfRows
    <2>. QED BY <2>1, <2>2
  <1>3. CASE x.rank \notin run.eligible
    <2>1. Is(a, Done(x, "rejected"))
      BY <1>3 DEF Load
    <2>. QED BY <1>1, <1>3, <2>1, Written
  <1>4. CASE /\ x.rank \in run.eligible
             /\ run.selected = o.id /\ run.package # NoPackage /\ run.status = "publishing"
    <2>1. Is(a, Done(x, "ready"))
      BY <1>4 DEF Load
    <2>. QED BY <1>1, <1>4, <2>1, Written
  <1>5. CASE /\ x.rank \in run.eligible
             /\ ~ (run.selected = o.id /\ run.package # NoPackage /\ run.status = "publishing")
    <2>1. Is(a, [x EXCEPT !.pc = "select", !.opportunity = o])
      BY <1>5 DEF Load
    <2>. QED BY <1>1, <1>2, <1>5, <2>1, Written
  <1>. QED BY <1>3, <1>4, <1>5

(* What Offer does: it rejects, or goes on with variants that can be sold. *)
LEMMA OfferSteps ==
    ASSUME Inv, NEW a \in Attempts, Offer(a)
    PROVE  LET x == att[a]
               y == att'[a]
               selected == Selected(ProductOf(x.opportunity))
           IN /\ Moves(a) /\ world' = world /\ run' = run /\ x.pc = "offer"
              /\ \/ \E reason \in Reasons : y = Rejecting(x, reason)
                 \/ /\ Sellable(x.opportunity, selected)
                    /\ y = [x EXCEPT !.pc = "references", !.offer = selected]
  <1>. DEFINE x == att[a]
              y == att'[a]
              product == ProductOf(x.opportunity)
              selected == Selected(product)
  <1>1. AttInv /\ world' = world /\ run' = run /\ x.pc = "offer"
    BY DEF Inv, Offer, At
  <1>2. {"costs", "offering", "unsupported"} \subseteq Reasons
    BY DEF Reasons
  <1>3. CASE ~ CostsKnown(product)
    <2>1. Is(a, Rejecting(x, "costs"))
      BY <1>3 DEF Offer
    <2>. QED BY <1>1, <1>2, <2>1, Written
  <1>4. CASE CostsKnown(product) /\ (selected = <<>> \/ Cardinality(AxesOf(selected)) > MaxAxes)
    <2>1. Is(a, Rejecting(x, "offering"))
      BY <1>4 DEF Offer
    <2>. QED BY <1>1, <1>2, <2>1, Written
  <1>5. CASE CostsKnown(product) /\ ~ (selected = <<>> \/ Cardinality(AxesOf(selected)) > MaxAxes)
    <2>1. CASE \E i \in DOMAIN selected : ~selected[i].supported
      <3>1. Is(a, Rejecting(x, "unsupported"))
        BY <1>5, <2>1 DEF Offer
      <3>. QED BY <1>1, <1>2, <3>1, Written
    <2>2. CASE ~ \E i \in DOMAIN selected : ~selected[i].supported
      <3>1. Is(a, [x EXCEPT !.pc = "references", !.offer = selected])
        BY <1>5, <2>2 DEF Offer
      <3>2. Sellable(x.opportunity, selected)
        <4>1. Cardinality(AxesOf(selected)) <= MaxAxes
          <5>1. x.opportunity.product \in Products
            BY <1>1, LoadedId DEF Loaded, Selecting
          <5>. DEFINE p == x.opportunity.product
                      V == VariantsOf(p)
          <5>2. product = world.products[p]
            BY DEF ProductOf
          <5>3. product.variants \in Seq(V) /\ \A v \in V : IsVariant(v)
            BY <5>1, <5>2, WorldFacts DEF Inv, WorldInv
          <5>. HIDE DEF V, product
          <5>4. Selected(product) \in Seq(V)
            BY <5>3, SelectedIsOffer
          <5>5. IsFiniteSet(AxesOf(selected))
            <6>. HIDE DEF selected
            <6>. QED BY <5>3, <5>4, AxesAreFinite DEF selected
          <5>6. Cardinality(AxesOf(selected)) \in Nat /\ MaxAxes \in Nat
            BY <5>5, FS_CardinalityType, PreparationAssumption
          <5>. HIDE DEF selected
          <5>. QED BY <1>5, <5>6
        <4>. QED BY <1>5, <2>2, <4>1 DEF Sellable
      <3>. QED BY <1>1, <3>1, <3>2, Written
    <2>. QED BY <2>1, <2>2
  <1>. QED BY <1>3, <1>4, <1>5

(* What Price does: it rejects, or goes on with variants all of which are   *)
(* paid for.                                                                *)
LEMMA PriceSteps ==
    ASSUME Inv, NEW a \in Attempts, Price(a)
    PROVE  LET x == att[a]
               y == att'[a]
           IN /\ Moves(a) /\ world' = world /\ run' = run /\ x.pc = "price"
              /\ \/ \E reason \in Reasons : y = Rejecting(x, reason)
                 \/ Payable(x.opportunity, x.offer) /\ y = [x EXCEPT !.pc = "commit"]
  <1>. DEFINE x == att[a]
              y == att'[a]
              offer == x.offer
              prices == Prices(a)
  <1>1. AttInv /\ world' = world /\ run' = run /\ x.pc = "price"
    BY DEF Inv, Price, At
  <1>2. {"shipping", "margin", "listing"} \subseteq Reasons
    BY DEF Reasons
  <1>3. prices = PricesFor(x.opportunity, offer) /\ DOMAIN prices = DOMAIN offer
    BY DEF Prices, PricesFor
  <1>. HIDE DEF prices
  <1>4. CASE Reject(a, "listing")
    <2>1. Is(a, Rejecting(x, "listing"))
      BY <1>4 DEF Reject
    <2>. QED BY <1>1, <1>2, <2>1, Written
  <1>5. CASE ~ Reject(a, "listing")
    <2>1. Is(a, IF \E i \in DOMAIN offer : offer[i].shipping = Unknown
                THEN Rejecting(att[a], "shipping")
                ELSE IF \E i \in DOMAIN prices : ~prices[i].kept
                     THEN Rejecting(att[a], "margin")
                ELSE [att[a] EXCEPT !.pc = "commit"])
      BY <1>5 DEF Price, prices
    <2>2. CASE \E i \in DOMAIN offer : offer[i].shipping = Unknown
      <3>1. Is(a, Rejecting(x, "shipping"))
        BY <2>1, <2>2
      <3>. QED BY <1>1, <1>2, <3>1, Written
    <2>3. CASE /\ ~ \E i \in DOMAIN offer : offer[i].shipping = Unknown
               /\ \E i \in DOMAIN prices : ~prices[i].kept
      <3>1. Is(a, Rejecting(x, "margin"))
        BY <2>1, <2>3
      <3>. QED BY <1>1, <1>2, <3>1, Written
    <2>4. CASE /\ ~ \E i \in DOMAIN offer : offer[i].shipping = Unknown
               /\ ~ \E i \in DOMAIN prices : ~prices[i].kept
      <3>1. Is(a, [x EXCEPT !.pc = "commit"])
        BY <2>1, <2>4
      <3>2. Payable(x.opportunity, offer)
        BY <1>3, <2>4 DEF Payable
      <3>. QED BY <1>1, <3>1, <3>2, Written
    <2>. QED BY <2>2, <2>3, <2>4
  <1>. QED BY <1>4, <1>5

(* What Commit does to its attempt. *)
LEMMA CommitSteps ==
    ASSUME Inv, NEW a \in Attempts, Commit(a)
    PROVE  /\ Moves(a) /\ world' = world /\ att[a].pc = "commit"
           /\ att'[a] = Done(att[a], "ready")
  BY Written DEF Commit, Inv, At

(* What RejectOpportunity does to its attempt. *)
LEMMA RejectSteps ==
    ASSUME Inv, NEW a \in Attempts, RejectOpportunity(a)
    PROVE  /\ Moves(a) /\ world' = world /\ att[a].pc = "reject"
           /\ att'[a] = Done(att[a], "rejected")
  BY Written DEF RejectOpportunity, Inv, At

(* A service fails only under an attempt that has loaded its opportunity. *)
LEMMA FailureSteps ==
    ASSUME Inv, NEW a \in Attempts, ServiceFails(a)
    PROVE  /\ Moves(a) /\ world' = world /\ run' = run /\ att[a].pc \in Loaded
           /\ att'[a] = Rejecting(att[a], "provider")
  <1>1. att[a].pc \in Loaded
    BY DEF ServiceFails, Calling, At, Loaded, Selecting, Offering, Drawing
  <1>. QED BY <1>1, Written DEF ServiceFails, Reject, Inv

(* What an interruption does to its attempt. *)
LEMMA InterruptedSteps ==
    ASSUME Inv, NEW a \in Attempts, Interrupted(a)
    PROVE  /\ Moves(a) /\ world' = world /\ run' = run /\ att[a].pc # "idle"
           /\ att'[a] = Done(att[a], "error")
  BY Written DEF Interrupted, Inv, At

\* An attempt takes a step that keeps its stage and rank.
Performs(a) ==
    /\ Moves(a) /\ world' = world /\ Working(att'[a])
    /\ att[a].pc # "idle" /\ att'[a].pc # "idle"
    /\ att'[a].stage = att[a].stage /\ att'[a].rank = att[a].rank

(* What a preparation does to the attempt that takes a step.               *)
LEMMA PrepareWorks ==
    ASSUME Inv, NEW a \in Attempts, Prepare(a) \/ ServiceFails(a) \/ Interrupted(a)
    PROVE  Performs(a)
  <1>. DEFINE x == att[a]
              y == att'[a]
  <1>1. x \in Executions /\ Progress(x) /\ Working(x) /\ AttInv
    BY DEF Inv, AttInv, Working
  <1>2. ASSUME NEW result \in Results \ {"none"}, y = Done(x, result),
               Moves(a), world' = world, x.pc # "idle"
        PROVE  Performs(a)
    <2>1. Working(y)
      BY <1>1, <1>2, Ends
    <2>2. y.pc # "idle" /\ y.stage = x.stage /\ y.rank = x.rank
      <3>. HIDE DEF x, y
      <3>. QED BY <1>1, <1>2 DEF Done, Executions
    <2>. QED BY <1>2, <2>1, <2>2 DEF Performs
  <1>3. ASSUME NEW reason \in Reasons, y = Rejecting(x, reason),
               Moves(a), world' = world, x.pc \in Loaded
        PROVE  Performs(a)
    <2>1. Working(y)
      BY <1>1, <1>3, Ends
    <2>2. y.pc # "idle" /\ y.stage = x.stage /\ y.rank = x.rank
      <3>. HIDE DEF x, y
      <3>. QED BY <1>1, <1>3 DEF Rejecting, Executions
    <2>3. x.pc # "idle"
      BY <1>3 DEF Loaded, Selecting, Offering, Drawing
    <2>. QED BY <1>3, <2>1, <2>2, <2>3 DEF Performs
  <1>4. CASE Passed(a)
    <2>1. /\ Moves(a) /\ world' = world /\ x.pc \in Loaded
          /\ \/ \E reason \in Reasons : y = Rejecting(x, reason)
             \/ Alike(x, y) /\ <<x.pc, y.pc>> \in Passes
      BY <1>4, PassedSteps
    <2>2. x.pc # "idle"
      BY <2>1 DEF Loaded, Selecting, Offering, Drawing
    <2>3. CASE Alike(x, y) /\ <<x.pc, y.pc>> \in Passes
      <3>1. Working(y)
        BY <1>1, <2>3, Passing
      <3>2. y.pc # "idle"
        BY <2>3 DEF Passes
      <3>. QED BY <2>1, <2>2, <2>3, <3>1, <3>2 DEF Alike, Performs
    <2>. QED BY <1>3, <2>1, <2>2, <2>3
  <1>5. CASE Load(a)
    <2>1. /\ Moves(a) /\ world' = world /\ x.pc = "load"
          /\ \/ y = Done(x, "rejected") \/ y = Done(x, "ready")
             \/ \E o \in Rows : y = [x EXCEPT !.pc = "select", !.opportunity = o]
      BY <1>5, LoadSteps
    <2>2. CASE y = Done(x, "rejected") \/ y = Done(x, "ready")
      BY <1>2, <2>1, <2>2 DEF Results
    <2>3. ASSUME NEW o \in Rows, y = [x EXCEPT !.pc = "select", !.opportunity = o]
          PROVE  Performs(a)
      <3>1. x.art = <<>> \/ x.art # <<>>
        OBVIOUS
      <3>. HIDE DEF x, y
      <3>2. y \in Executions /\ y.pc = "select" /\ y.opportunity = o
            /\ y.stage = x.stage /\ y.rank = x.rank /\ y.result = x.result /\ y.art = x.art
        BY <1>1, <2>3 DEF Executions, PCs
      <3>3. Progress(y)
        BY <1>1, <2>1, <3>2 DEF Progress, Loaded, Selecting, Offering, Drawing
      <3>. QED BY <2>1, <3>2, <3>3 DEF Working, Performs, x, y
    <2>. QED BY <2>1, <2>2, <2>3
  <1>6. CASE Offer(a)
    <2>. DEFINE selected == Selected(ProductOf(x.opportunity))
    <2>1. /\ Moves(a) /\ world' = world /\ x.pc = "offer"
          /\ \/ \E reason \in Reasons : y = Rejecting(x, reason)
             \/ /\ Sellable(x.opportunity, selected)
                /\ y = [x EXCEPT !.pc = "references", !.offer = selected]
      BY <1>6, OfferSteps
    <2>2. x.pc \in Loaded
      BY <2>1 DEF Loaded, Selecting
    <2>3. CASE /\ Sellable(x.opportunity, selected)
               /\ y = [x EXCEPT !.pc = "references", !.offer = selected]
      <3>1. selected \in Offers
        <4>1. x.opportunity.product \in Products
          BY <2>2, LoadedId
        <4>. QED BY <4>1 DEF Offers, ProductOf
      <3>. HIDE DEF x, y, selected
      <3>2. y \in Executions /\ y.pc = "references" /\ y.opportunity = x.opportunity
            /\ y.offer = selected
            /\ y.stage = x.stage /\ y.rank = x.rank /\ y.result = x.result /\ y.art = x.art
        BY <1>1, <2>3, <3>1 DEF Executions, PCs
      <3>3. Progress(y)
        BY <1>1, <2>1, <2>3, <3>2 DEF Progress, Loaded, Selecting, Offering, Drawing
      <3>. QED BY <2>1, <3>2, <3>3 DEF Working, Performs, x, y
    <2>. QED BY <1>3, <2>1, <2>2, <2>3
  <1>7. CASE Price(a)
    <2>1. /\ Moves(a) /\ world' = world /\ x.pc = "price"
          /\ \/ \E reason \in Reasons : y = Rejecting(x, reason)
             \/ Payable(x.opportunity, x.offer) /\ y = [x EXCEPT !.pc = "commit"]
      BY <1>7, PriceSteps
    <2>2. x.pc \in Loaded
      BY <2>1 DEF Loaded, Drawing
    <2>3. CASE Payable(x.opportunity, x.offer) /\ y = [x EXCEPT !.pc = "commit"]
      <3>. HIDE DEF x, y
      <3>2. y \in Executions /\ y.pc = "commit" /\ y.opportunity = x.opportunity
            /\ y.offer = x.offer
            /\ y.stage = x.stage /\ y.rank = x.rank /\ y.result = x.result /\ y.art = x.art
        BY <1>1, <2>3 DEF Executions, PCs
      <3>3. Progress(y)
        BY <1>1, <2>1, <2>3, <3>2 DEF Progress, Loaded, Selecting, Offering, Drawing
      <3>. QED BY <2>1, <3>2, <3>3 DEF Working, Performs, x, y
    <2>. QED BY <1>3, <2>1, <2>2, <2>3
  <1>8. CASE Draw(a)
    <2>. DEFINE left == Surfaces(x.offer) \ DOMAIN x.art
                s == Min(left)
    <2>1. /\ Moves(a) /\ world' = world /\ x.pc = "draw"
          /\ left # {} => s \in left /\ s \in AllSurfaces
          /\ \/ left = {} /\ y = [x EXCEPT !.pc = IF world.originality THEN "review" ELSE "price"]
             \/ left # {} /\ Drew(x, y, s, store[Id(a)].art[s], "draw")
             \/ left # {} /\ Drew(x, y, s, bought[Id(a)][s] + 1, "saveArt")
             \/ y = Rejecting(x, "prepress")
      BY <1>8, DrawSteps
    <2>2. x.pc \in Loaded /\ x.offer \in Offers /\ x.art \in Arts
      BY <1>1, <2>1 DEF Loaded, Drawing, Executions
    <2>3. CASE left = {} /\ y = [x EXCEPT !.pc = IF world.originality THEN "review" ELSE "price"]
      <3>1. DOMAIN x.art = Surfaces(x.offer)
        BY <1>1, <2>1, <2>3 DEF Progress, Drawing
      <3>. HIDE DEF x, y
      <3>2. y \in Executions /\ y.pc \in {"review", "price"} /\ y.opportunity = x.opportunity
            /\ y.offer = x.offer
            /\ y.stage = x.stage /\ y.rank = x.rank /\ y.result = x.result /\ y.art = x.art
        BY <1>1, <2>3 DEF Executions, PCs
      <3>3. Progress(y)
        BY <1>1, <2>1, <3>1, <3>2 DEF Progress, Loaded, Selecting, Offering, Drawing
      <3>. QED BY <2>1, <3>2, <3>3 DEF Working, Performs, x, y
    <2>4. ASSUME left # {}, NEW image \in Nat, NEW pc \in {"draw", "saveArt"},
                 Drew(x, y, s, image, pc)
          PROVE  Performs(a)
      <3>. DEFINE S == Surfaces(x.offer)
                  D == DOMAIN x.art
                  art == Extended(x.art, s, image)
      <3>1. art \in Arts /\ DOMAIN art = D \cup {s} /\ s \in left
        <4>1. s \in AllSurfaces /\ s \in left
          BY <2>1, <2>4
        <4>. HIDE DEF s, x
        <4>. QED BY <2>2, <4>1, ExtendedArt DEF Extended
      <3>2. /\ InOrder(D \cup {s}, S) /\ D \cup {s} \subseteq S
            /\ \E m \in D \cup {s} : \A t \in D \cup {s} : t <= m
        <4>1. S \in SUBSET Nat /\ S \subseteq AllSurfaces
          BY <2>2, OfferSurfaces DEF Inv, WorldInv
        <4>2. D \in SUBSET S /\ InOrder(D, S)
          BY <1>1, <2>1 DEF Progress, Drawing
        <4>3. s = Min(S \ D) /\ S \ D # {}
          BY <2>4
        <4>. HIDE DEF S, D, s
        <4>4. S \in SUBSET Nat /\ D \in SUBSET S /\ S \ D # {} /\ InOrder(D, S)
          BY <4>1, <4>2, <4>3
        <4>5. /\ Min(S \ D) \in S \ D /\ InOrder(D \cup {Min(S \ D)}, S)
              /\ \A t \in D : t < Min(S \ D)
          BY <4>4, NextSurface
        <4>6. s \in Nat /\ \A t \in D : t \in Nat /\ t < s
          BY <4>1, <4>2, <4>3, <4>5
        <4>7. \A t \in D \cup {s} : t <= s
          BY <4>6
        <4>. QED BY <4>2, <4>3, <4>5, <4>7
      <3>. HIDE DEF x, y, art, s, S, D
      <3>3. y = [x EXCEPT !.art = art, !.pc = pc]
        BY <2>4 DEF Drew, art
      <3>4. y \in Executions /\ y.pc = pc /\ y.opportunity = x.opportunity
            /\ y.offer = x.offer
            /\ y.stage = x.stage /\ y.rank = x.rank /\ y.result = x.result /\ y.art = art
        BY <1>1, <3>1, <3>3 DEF Executions, PCs
      <3>5. /\ DOMAIN y.art \subseteq Surfaces(y.offer) /\ InOrder(DOMAIN y.art, Surfaces(y.offer))
            /\ \E m \in DOMAIN y.art : \A t \in DOMAIN y.art : t <= m
        BY <3>1, <3>2, <3>4 DEF S
      <3>6. Progress(y)
        BY <1>1, <2>1, <3>4, <3>5 DEF Progress, Loaded, Selecting, Offering, Drawing
      <3>. QED BY <2>1, <3>4, <3>6 DEF Working, Performs, x, y
    <2>5. left # {} => store[Id(a)].art[s] \in Nat /\ bought[Id(a)][s] + 1 \in Nat
      <3>. HAVE left # {}
      <3>1. Id(a) \in Ids /\ s \in AllSurfaces
        BY <2>1, <2>2, LoadedId
      <3>. HIDE DEF s
      <3>2. store[Id(a)].art \in [AllSurfaces -> Nat]
        BY <3>1 DEF Inv, StoreInv, Folders
      <3>3. bought[Id(a)] \in [Calls -> Nat] /\ s \in Calls
        BY <3>1 DEF Inv, WorldInv, Calls
      <3>. QED BY <3>1, <3>2, <3>3
    <2>6. "prepress" \in Reasons
      BY DEF Reasons
    <2>. QED BY <1>3, <2>1, <2>2, <2>3, <2>4, <2>5, <2>6
  <1>9. CASE Commit(a)
    BY <1>2, <1>9, CommitSteps DEF Results
  <1>10. CASE RejectOpportunity(a)
    BY <1>2, <1>10, RejectSteps DEF Results
  <1>11. CASE ServiceFails(a)
    <2>1. "provider" \in Reasons
      BY DEF Reasons
    <2>. QED BY <1>3, <1>11, <2>1, FailureSteps DEF Loaded, Selecting, Offering, Drawing
  <1>12. CASE Interrupted(a)
    BY <1>2, <1>12, InterruptedSteps DEF Results
  <1>. QED BY <1>4, <1>5, <1>6, <1>7, <1>8, <1>9, <1>10, <1>11, <1>12 DEF Prepare, Passed

(* What the workflow does to an attempt that it starts or gives up.        *)
LEMMA WorkflowWorks ==
    ASSUME Inv, NEW a \in Attempts, Start(a) \/ Answer(a) \/ Retry(a) \/ Expire(a) \/ Leave(a)
    PROVE  AttInv' /\ world' = world
  <1>. DEFINE x == att[a]
              y == att'[a]
  <1>1. AttInv /\ world \in Worlds /\ world' = world
    BY DEF Inv, WorldInv, Start, Answer, Retry, Expire, Leave
  <1>2. Working(Idle)
    BY <1>1, IdleWorks
  <1>3. CASE Answer(a) \/ Retry(a) \/ Leave(a)
    <2>1. Is(a, Idle)
      BY <1>3 DEF Answer, Retry, Leave
    <2>2. Moves(a) /\ y = Idle
      BY <1>1, <2>1, Written
    <2>. QED BY <1>1, <1>2, <2>2, OneMoves
  <1>4. CASE Expire(a)
    <2>1. Is(a, Idle) \/ att' = att
      BY <1>4 DEF Expire
    <2>2. CASE Is(a, Idle)
      <3>1. Moves(a) /\ y = Idle
        BY <1>1, <2>2, Written
      <3>. QED BY <1>1, <1>2, <3>1, OneMoves
    <2>. QED BY <1>1, <2>1, <2>2, NoneMoves
  <1>5. CASE Start(a)
    <2>1. Is(a, [Idle EXCEPT !.pc = IF wf.stage = "attempt" THEN "load" ELSE "begin",
                             !.stage = wf.stage,
                             !.rank = IF wf.stage = "attempt" THEN wf.rank ELSE None])
      BY <1>5 DEF Start
    <2>2. /\ Moves(a)
          /\ y = [Idle EXCEPT !.pc = IF wf.stage = "attempt" THEN "load" ELSE "begin",
                              !.stage = wf.stage,
                              !.rank = IF wf.stage = "attempt" THEN wf.rank ELSE None]
      BY <1>1, <2>1, Written
    <2>3. wf.stage \in {"research", "resume", "attempt"} /\ wf.rank \in Ranks
      BY <1>5 DEF Start, Inv, WfInv, Workflows
    <2>. DEFINE i == Idle
    <2>4. i \in Executions /\ i.result = "none" /\ i.art = <<>>
      BY <1>2 DEF Working, Idle
    <2>5. y = [i EXCEPT !.pc = IF wf.stage = "attempt" THEN "load" ELSE "begin",
                        !.stage = wf.stage,
                        !.rank = IF wf.stage = "attempt" THEN wf.rank ELSE None]
      BY <2>2
    <2>. HIDE DEF i, y
    <2>6. CASE wf.stage = "attempt"
      <3>1. y = [i EXCEPT !.pc = "load", !.stage = "attempt", !.rank = wf.rank]
        BY <2>5, <2>6
      <3>2. y \in Executions /\ y.pc = "load" /\ y.stage = "attempt" /\ y.rank = wf.rank
            /\ y.result = "none" /\ y.art = <<>>
        BY <2>3, <2>4, <3>1 DEF Executions, PCs, Stages
      <3>3. Progress(y)
        BY <2>3, <3>2 DEF Progress, Loaded, Selecting, Offering, Drawing
      <3>. QED BY <1>1, <2>2, <3>2, <3>3, OneMoves DEF Working, y
    <2>7. CASE wf.stage # "attempt"
      <3>1. y = [i EXCEPT !.pc = "begin", !.stage = wf.stage, !.rank = None]
        BY <2>5, <2>7
      <3>2. y \in Executions /\ y.pc = "begin" /\ y.stage = wf.stage /\ y.result = "none"
        BY <2>3, <2>4, <2>7, <3>1 DEF Executions, PCs, Stages
      <3>3. Progress(y)
        BY <2>3, <2>7, <3>2 DEF Progress, Loaded, Selecting, Offering, Drawing
      <3>. QED BY <1>1, <2>2, <3>2, <3>3, OneMoves DEF Working, y
    <2>. QED BY <2>6, <2>7
  <1>. QED BY <1>3, <1>4, <1>5

(* The world, what may go wrong, the pictures and the catalog table.       *)
LEMMA WorldSteps ==
    ASSUME [Next]_vars
    PROVE  /\ world' = world
           /\ trouble' = trouble \/ Trouble
           /\ pictures' = pictures \/ pictures' = 2
  <1>1. CASE UNCHANGED vars
    BY <1>1 DEF vars
  <1>2. ASSUME NEW a \in Attempts, Research(a)
        PROVE  world' = world /\ (trouble' = trouble \/ Trouble) /\ pictures' = pictures
    BY <1>2 DEF Research, BeginResearch, Candidate, Gather, StoreOpportunities, ResumeResearch
  <1>3. ASSUME NEW a \in Attempts, Prepare(a)
        PROVE  world' = world /\ (trouble' = trouble \/ Trouble) /\ pictures' = pictures
    <2>1. CASE Load(a) \/ Select(a) \/ Refresh(a) \/ Screen(a) \/ SaveScreen(a) \/ Offer(a)
      BY <2>1 DEF Load, Select, Refresh, Screen, SaveScreen, Offer
    <2>2. CASE FetchReferences(a) \/ SaveSheet(a) \/ SaveReference(a) \/ Analyse(a)
               \/ SaveAnalysis(a) \/ Generate(a)
      BY <2>2 DEF FetchReferences, SaveSheet, SaveReference, Analyse, SaveAnalysis, Generate
    <2>3. CASE Draw(a) \/ SaveArt(a) \/ Review(a) \/ Price(a) \/ Commit(a) \/ RejectOpportunity(a)
      BY <2>3 DEF Draw, SaveArt, Review, Price, Commit, RejectOpportunity
    <2>. QED BY <1>3, <2>1, <2>2, <2>3 DEF Prepare
  <1>4. ASSUME NEW a \in Attempts,
               ServiceFails(a) \/ Start(a) \/ Answer(a) \/ Retry(a) \/ Expire(a)
               \/ Interrupted(a) \/ Leave(a)
        PROVE  world' = world /\ (trouble' = trouble \/ Trouble) /\ pictures' = pictures
    BY <1>4 DEF ServiceFails, Start, Answer, Retry, Expire, Interrupted, Leave
  <1>5. CASE Publish \/ FinishExhausted \/ Resume \/ Repaint
    BY <1>5 DEF Publish, FinishExhausted, Resume, Repaint
  <1>. QED BY <1>1, <1>2, <1>3, <1>4, <1>5 DEF Next

(* One product at a time becomes active or inactive. *)
LEMMA ActiveSteps ==
    ASSUME Inv, [Next]_vars
    PROVE  active' = active \/ \E p \in Products : active' \in {active \cup {p}, active \ {p}}
  <1>. DEFINE Goal == active' = active \/ \E p \in Products : active' \in {active \cup {p}, active \ {p}}
  <1>1. ASSUME NEW a \in Attempts, Candidate(a) PROVE Goal
    <2>1. att[a].queue \in Seq(Products) /\ att[a].queue # <<>>
      BY <1>1 DEF Inv, AttInv, Working, Executions, Candidate
    <2>2. Head(att[a].queue) \in Products
      BY <2>1
    <2>. QED BY <1>1, <2>2 DEF Candidate
  <1>2. ASSUME NEW a \in Attempts, Refresh(a) PROVE Goal
    <2>1. att[a].opportunity.product \in Products
      BY <1>2, LoadedId DEF Refresh, At, Loaded, Selecting
    <2>. QED BY <1>2, <2>1 DEF Refresh
  <1>3. ASSUME NEW a \in Attempts, Research(a) \/ Prepare(a), ~ Candidate(a), ~ Refresh(a)
        PROVE  active' = active
    <2>1. CASE Research(a)
      BY <1>3, <2>1 DEF Research, BeginResearch, Gather, StoreOpportunities, ResumeResearch
    <2>2. CASE Load(a) \/ Select(a) \/ Screen(a) \/ SaveScreen(a) \/ Offer(a)
      BY <2>2 DEF Load, Select, Screen, SaveScreen, Offer
    <2>3. CASE FetchReferences(a) \/ SaveSheet(a) \/ SaveReference(a) \/ Analyse(a)
               \/ SaveAnalysis(a) \/ Generate(a)
      BY <2>3 DEF FetchReferences, SaveSheet, SaveReference, Analyse, SaveAnalysis, Generate
    <2>4. CASE Draw(a) \/ SaveArt(a) \/ Review(a) \/ Price(a) \/ Commit(a) \/ RejectOpportunity(a)
      BY <2>4 DEF Draw, SaveArt, Review, Price, Commit, RejectOpportunity
    <2>. QED BY <1>3, <2>1, <2>2, <2>3, <2>4 DEF Prepare
  <1>4. ASSUME NEW a \in Attempts,
               ServiceFails(a) \/ Start(a) \/ Answer(a) \/ Retry(a) \/ Expire(a)
               \/ Interrupted(a) \/ Leave(a)
        PROVE  active' = active
    BY <1>4 DEF ServiceFails, Start, Answer, Retry, Expire, Interrupted, Leave
  <1>5. CASE Publish \/ FinishExhausted \/ Resume \/ Repaint \/ UNCHANGED vars
    BY <1>5 DEF Publish, FinishExhausted, Resume, Repaint, vars
  <1>. QED BY <1>1, <1>2, <1>3, <1>4, <1>5 DEF Next

(* What is paid for.                                                       *)
LEMMA BoughtSteps ==
    ASSUME Inv, [Next]_vars
    PROVE  \/ bought' = bought
           \/ \E a \in Attempts :
                \/ Screen(a) /\ Buy(a, Screening)
                   /\ ~ Reusable(run.ip.of, run.screened, Id(a))
                \/ Analyse(a) /\ Buy(a, Analysis)
                   /\ ~ Reusable(run.analysis, run.analysed, Id(a))
                \/ \E s \in AllSurfaces : Draw(a) /\ Buy(a, s) /\ store[Id(a)].art[s] = None
  <1>1. ASSUME NEW a \in Attempts, Screen(a) PROVE
               \/ bought' = bought
               \/ Buy(a, Screening) /\ ~ Reusable(run.ip.of, run.screened, Id(a))
    BY <1>1 DEF Screen
  <1>2. ASSUME NEW a \in Attempts, Analyse(a) PROVE
               \/ bought' = bought
               \/ Buy(a, Analysis) /\ ~ Reusable(run.analysis, run.analysed, Id(a))
    BY <1>2 DEF Analyse
  <1>3. ASSUME NEW a \in Attempts, Draw(a) PROVE
               \/ bought' = bought
               \/ \E s \in AllSurfaces : Buy(a, s) /\ store[Id(a)].art[s] = None
    BY <1>3, DrawSteps
  <1>4. ASSUME NEW a \in Attempts, Research(a) \/ Prepare(a),
               ~ Screen(a), ~ Analyse(a), ~ Draw(a)
        PROVE  bought' = bought
    <2>1. CASE Research(a)
      BY <2>1 DEF Research, BeginResearch, Candidate, Gather, StoreOpportunities, ResumeResearch
    <2>2. CASE Load(a) \/ Select(a) \/ Refresh(a) \/ SaveScreen(a) \/ Offer(a)
      BY <2>2 DEF Load, Select, Refresh, SaveScreen, Offer
    <2>3. CASE FetchReferences(a) \/ SaveSheet(a) \/ SaveReference(a)
               \/ SaveAnalysis(a) \/ Generate(a)
      BY <2>3 DEF FetchReferences, SaveSheet, SaveReference, SaveAnalysis, Generate
    <2>4. CASE SaveArt(a) \/ Review(a) \/ Price(a) \/ Commit(a) \/ RejectOpportunity(a)
      BY <2>4 DEF SaveArt, Review, Price, Commit, RejectOpportunity
    <2>. QED BY <1>4, <2>1, <2>2, <2>3, <2>4 DEF Prepare
  <1>5. ASSUME NEW a \in Attempts,
               ServiceFails(a) \/ Start(a) \/ Answer(a) \/ Retry(a) \/ Expire(a)
               \/ Interrupted(a) \/ Leave(a)
        PROVE  bought' = bought
    BY <1>5 DEF ServiceFails, Start, Answer, Retry, Expire, Interrupted, Leave
  <1>6. CASE Publish \/ FinishExhausted \/ Resume \/ Repaint \/ UNCHANGED vars
    BY <1>6 DEF Publish, FinishExhausted, Resume, Repaint, vars
  <1>. QED BY <1>1, <1>2, <1>3, <1>4, <1>5, <1>6 DEF Next

(* Every step keeps the invariant of the world and its budget of trouble. *)
LEMMA WorldKept ==
    ASSUME Inv, [Next]_vars
    PROVE  WorldInv'
  <1>1. /\ world' = world
        /\ trouble' = trouble \/ Trouble
        /\ pictures' = pictures \/ pictures' = 2
    BY WorldSteps
  <1>2. WorldInv /\ Products' = Products /\ Ids' = Ids /\ Calls' = Calls
    BY <1>1, Fixed DEF Inv
  <1>3. trouble' \in 0..world.trouble
    <2>1. trouble \in 0..world.trouble /\ world.trouble \in Nat
      BY <1>2, WorldsAssumption DEF WorldInv
    <2>. QED BY <1>1, <2>1 DEF Trouble
  <1>4. active' \subseteq Products
    BY <1>2, ActiveSteps DEF WorldInv
  <1>5. pictures' \in Pictures
    BY <1>1, <1>2 DEF WorldInv, Pictures
  <1>6. bought' \in [Ids -> [Calls -> Nat]]
    <2>1. bought \in [Ids -> [Calls -> Nat]]
      BY <1>2 DEF WorldInv
    <2>2. bought' = bought \/ \E a \in Attempts, c \in Calls : Buy(a, c)
      <3>1. Screening \in Calls /\ Analysis \in Calls /\ AllSurfaces \subseteq Calls
        BY DEF Calls
      <3>. QED BY <3>1, BoughtSteps
    <2>3. ASSUME NEW a \in Attempts, NEW c \in Calls, Buy(a, c)
          PROVE  bought' \in [Ids -> [Calls -> Nat]]
      <3>. DEFINE i == Id(a)
      <3>1. bought' = [bought EXCEPT ![i][c] = @ + 1]
        BY <2>3 DEF Buy
      <3>. HIDE DEF i
      <3>2. CASE i \in Ids
        <4>. DEFINE row == [bought[i] EXCEPT ![c] = @ + 1]
        <4>1. row \in [Calls -> Nat]
          BY <2>1, <3>2
        <4>2. bought' = [bought EXCEPT ![i] = row]
          BY <3>1
        <4>. HIDE DEF row
        <4>. QED BY <2>1, <4>1, <4>2
      <3>3. CASE i \notin Ids
        BY <2>1, <3>1, <3>3
      <3>. QED BY <3>2, <3>3
    <2>. QED BY <2>1, <2>2, <2>3
  <1>. QED BY <1>1, <1>2, <1>3, <1>4, <1>5, <1>6 DEF WorldInv

(* The artwork that is saved is that of the last surface.                  *)
LEMMA SavedSurface ==
    ASSUME Inv, NEW a \in Attempts, att[a].pc = "saveArt"
    PROVE  LET s == Max(DOMAIN att[a].art)
           IN /\ s \in DOMAIN att[a].art /\ s \in AllSurfaces
              /\ \A t \in DOMAIN att[a].art : t <= s
  <1>. DEFINE D == DOMAIN att[a].art
  <1>1. /\ att[a] \in Executions /\ Progress(att[a])
    BY DEF Inv, AttInv, Working
  <1>2. /\ D \subseteq Surfaces(att[a].offer) /\ att[a].offer \in Offers
        /\ \E m \in D : \A t \in D : t <= m
    BY <1>1 DEF Progress, Drawing, Executions
  <1>3. D \subseteq AllSurfaces /\ D \subseteq Nat
    BY <1>2, OfferSurfaces DEF Inv, WorldInv
  <1>. HIDE DEF D
  <1>4. \E m \in D : \A t \in D : m >= t
    BY <1>2, <1>3
  <1>5. Max(D) \in D /\ \A t \in D : Max(D) >= t
    BY <1>4 DEF Max
  <1>6. \A t \in D : t <= Max(D)
    BY <1>3, <1>5
  <1>. QED BY <1>3, <1>5, <1>6 DEF D

(* The next reference to save is one of the references. *)
LEMMA SavedReference ==
    ASSUME Inv, NEW a \in Attempts, att[a].missing # {}
    PROVE  Min(att[a].missing) \in References
  <1>. DEFINE M == att[a].missing
  <1>1. M \subseteq Nat /\ M # {} /\ M \subseteq References
    BY DEF Inv, AttInv, Working, Executions, References
  <1>. HIDE DEF M
  <1>2. Min(M) \in M
    BY <1>1, LeastNatural DEF Min
  <1>. QED BY <1>1, <1>2 DEF M

(* What is stored.                                                         *)
Files(a) ==
    \/ SaveSheet(a) /\ store' = [store EXCEPT ![Id(a)].sheet = att[a].refs]
    \/ SaveReference(a) /\ \E i \in References :
          store' = [store EXCEPT ![Id(a)].refs[i] = att[a].refs[i]]
    \/ SaveArt(a) /\ \E s \in AllSurfaces :
          /\ s = Max(DOMAIN att[a].art)
          /\ store[Id(a)].art[s] \in {None, att[a].art[s]}
          /\ store' = [store EXCEPT ![Id(a)].art[s] = att[a].art[s]]

(* The store changes only by an attempt that files something. *)
LEMMA StoreSteps ==
    ASSUME Inv, [Next]_vars
    PROVE  store' = store \/ \E a \in Attempts : Files(a)
  <1>1. ASSUME NEW a \in Attempts, SaveSheet(a)
        PROVE  store' = store \/ Files(a)
    BY <1>1 DEF SaveSheet, Files
  <1>2. ASSUME NEW a \in Attempts, SaveReference(a)
        PROVE  store' = store \/ Files(a)
    <2>. DEFINE i == Min(att[a].missing)
    <2>1. att[a].missing # {} => i \in References
      BY SavedReference
    <2>. HIDE DEF i
    <2>2. \/ store' = store
          \/ att[a].missing # {} /\ store' = [store EXCEPT ![Id(a)].refs[i] = att[a].refs[i]]
      BY <1>2 DEF SaveReference, i
    <2>. QED BY <1>2, <2>1, <2>2 DEF Files
  <1>3. ASSUME NEW a \in Attempts, SaveArt(a)
        PROVE  store' = store \/ Files(a)
    <2>. DEFINE s == Max(DOMAIN att[a].art)
    <2>1. s \in AllSurfaces
      BY <1>3, SavedSurface DEF SaveArt, At
    <2>2. \/ store' = store
          \/ /\ store[Id(a)].art[s] \in {None, att[a].art[s]}
             /\ store' = [store EXCEPT ![Id(a)].art[s] = att[a].art[s]]
      BY <1>3 DEF SaveArt, Differs
    <2>. QED BY <1>3, <2>1, <2>2 DEF Files
  <1>4. ASSUME NEW a \in Attempts, Research(a) \/ Prepare(a),
               ~ SaveSheet(a), ~ SaveReference(a), ~ SaveArt(a)
        PROVE  store' = store
    <2>1. CASE Research(a)
      BY <2>1 DEF Research, BeginResearch, Candidate, Gather, StoreOpportunities, ResumeResearch
    <2>2. CASE Load(a) \/ Select(a) \/ Refresh(a) \/ Screen(a) \/ SaveScreen(a) \/ Offer(a)
      BY <2>2 DEF Load, Select, Refresh, Screen, SaveScreen, Offer
    <2>3. CASE FetchReferences(a) \/ Analyse(a) \/ SaveAnalysis(a) \/ Generate(a) \/ Draw(a)
      BY <2>3 DEF FetchReferences, Analyse, SaveAnalysis, Generate, Draw
    <2>4. CASE Review(a) \/ Price(a) \/ Commit(a) \/ RejectOpportunity(a)
      BY <2>4 DEF Review, Price, Commit, RejectOpportunity
    <2>. QED BY <1>4, <2>1, <2>2, <2>3, <2>4 DEF Prepare
  <1>5. ASSUME NEW a \in Attempts,
               ServiceFails(a) \/ Start(a) \/ Answer(a) \/ Retry(a) \/ Expire(a)
               \/ Interrupted(a) \/ Leave(a)
        PROVE  store' = store
    BY <1>5 DEF ServiceFails, Start, Answer, Retry, Expire, Interrupted, Leave
  <1>6. CASE Publish \/ FinishExhausted \/ Resume \/ Repaint \/ UNCHANGED vars
    BY <1>6 DEF Publish, FinishExhausted, Resume, Repaint, vars
  <1>. QED BY <1>1, <1>2, <1>3, <1>4, <1>5, <1>6 DEF Next

(* What is recorded as stored.                                             *)
Records(a) ==
    \/ SaveScreen(a) /\ Keep(a, Screening)
    \/ SaveAnalysis(a) /\ Keep(a, Analysis)
    \/ SaveArt(a) /\ \E s \in AllSurfaces :
          /\ s = Max(DOMAIN att[a].art) /\ Keep(a, s)
          /\ store' = [store EXCEPT ![Id(a)].art[s] = att[a].art[s]]

(* What counts as stored grows only by an attempt that records it. *)
LEMMA KeptSteps ==
    ASSUME Inv, [Next]_vars
    PROVE  kept' = kept \/ \E a \in Attempts : Records(a)
  <1>1. ASSUME NEW a \in Attempts, SaveScreen(a) \/ SaveAnalysis(a)
        PROVE  Records(a)
    BY <1>1 DEF SaveScreen, SaveAnalysis, Records
  <1>2. ASSUME NEW a \in Attempts, SaveArt(a)
        PROVE  kept' = kept \/ Records(a)
    <2>. DEFINE s == Max(DOMAIN att[a].art)
    <2>1. s \in AllSurfaces
      BY <1>2, SavedSurface DEF SaveArt, At
    <2>2. \/ kept' = kept
          \/ /\ Keep(a, s)
             /\ store' = [store EXCEPT ![Id(a)].art[s] = att[a].art[s]]
      BY <1>2 DEF SaveArt
    <2>. QED BY <1>2, <2>1, <2>2 DEF Records
  <1>3. ASSUME NEW a \in Attempts, Research(a) \/ Prepare(a),
               ~ SaveScreen(a), ~ SaveAnalysis(a), ~ SaveArt(a)
        PROVE  kept' = kept
    <2>1. CASE Research(a)
      BY <2>1 DEF Research, BeginResearch, Candidate, Gather, StoreOpportunities, ResumeResearch
    <2>2. CASE Load(a) \/ Select(a) \/ Refresh(a) \/ Screen(a) \/ Offer(a)
      BY <2>2 DEF Load, Select, Refresh, Screen, Offer
    <2>3. CASE FetchReferences(a) \/ SaveSheet(a) \/ SaveReference(a) \/ Analyse(a) \/ Generate(a)
      BY <2>3 DEF FetchReferences, SaveSheet, SaveReference, Analyse, Generate
    <2>4. CASE Draw(a) \/ Review(a) \/ Price(a) \/ Commit(a) \/ RejectOpportunity(a)
      BY <2>4 DEF Draw, Review, Price, Commit, RejectOpportunity
    <2>. QED BY <1>3, <2>1, <2>2, <2>3, <2>4 DEF Prepare
  <1>4. ASSUME NEW a \in Attempts,
               ServiceFails(a) \/ Start(a) \/ Answer(a) \/ Retry(a) \/ Expire(a)
               \/ Interrupted(a) \/ Leave(a)
        PROVE  kept' = kept
    BY <1>4 DEF ServiceFails, Start, Answer, Retry, Expire, Interrupted, Leave
  <1>5. CASE Publish \/ FinishExhausted \/ Resume \/ Repaint \/ UNCHANGED vars
    BY <1>5 DEF Publish, FinishExhausted, Resume, Repaint, vars
  <1>. QED BY <1>1, <1>2, <1>3, <1>4, <1>5 DEF Next

(* Every step keeps the invariant of the store and the calls. *)
LEMMA StoreKept ==
    ASSUME Inv, [Next]_vars
    PROVE  StoreInv'
  <1>1. /\ Ids' = Ids /\ Folders' = Folders /\ Calls' = Calls
    BY WorldSteps, Fixed
  <1>2. store \in [Ids -> Folders] /\ kept \subseteq Ids \X Calls
    BY DEF Inv, StoreInv
  <1>3. store' \in [Ids -> Folders]
    <2>1. ASSUME NEW a \in Attempts, Files(a)
          PROVE  store' \in [Ids -> Folders]
      <3>1. att[a].pc \in {"saveSheet", "saveReference", "saveArt"} /\ att[a] \in Executions
        BY <2>1 DEF Files, SaveSheet, SaveReference, SaveArt, At, Inv, AttInv, Working
      <3>2. Id(a) \in Ids
        BY <3>1, LoadedId DEF Loaded, Offering, Drawing
      <3>. DEFINE o == Id(a)
                  x == att[a]
      <3>3. store[o] \in Folders /\ x.refs \in Sheets /\ x.art \in Arts
        BY <1>2, <3>1, <3>2 DEF Executions
      <3>4. PICK folder \in Folders : store' = [store EXCEPT ![o] = folder]
        <4>1. CASE SaveSheet(a) /\ store' = [store EXCEPT ![o].sheet = x.refs]
          <5>. DEFINE f == [store[o] EXCEPT !.sheet = x.refs]
          <5>. HIDE DEF o, x
          <5>1. f \in Folders
            BY <3>3 DEF Folders
          <5>2. store' = [store EXCEPT ![o] = f]
            BY <4>1
          <5>. QED BY <5>1, <5>2
        <4>2. ASSUME NEW i \in References, store' = [store EXCEPT ![o].refs[i] = x.refs[i]]
              PROVE  \E folder \in Folders : store' = [store EXCEPT ![o] = folder]
          <5>. DEFINE r == [store[o].refs EXCEPT ![i] = x.refs[i]]
                      f == [store[o] EXCEPT !.refs = r]
          <5>. HIDE DEF o, x
          <5>1. r \in Sheets
            BY <3>3 DEF Folders, Sheets
          <5>2. store' = [store EXCEPT ![o] = f]
            BY <4>2
          <5>3. f \in Folders
            <6>. HIDE DEF r
            <6>. QED BY <3>3, <5>1 DEF Folders
          <5>. QED BY <5>2, <5>3
        <4>3. ASSUME NEW s \in DOMAIN x.art, store' = [store EXCEPT ![o].art[s] = x.art[s]]
              PROVE  \E folder \in Folders : store' = [store EXCEPT ![o] = folder]
          <5>. DEFINE r == [store[o].art EXCEPT ![s] = x.art[s]]
                      f == [store[o] EXCEPT !.art = r]
          <5>. HIDE DEF o, x
          <5>0. x.art[s] \in Nat
            BY <3>3, <4>3 DEF Arts
          <5>1. r \in [AllSurfaces -> Nat]
            BY <3>3, <5>0 DEF Folders
          <5>2. store' = [store EXCEPT ![o] = f]
            BY <4>3
          <5>3. f \in Folders
            <6>. HIDE DEF r
            <6>. QED BY <3>3, <5>1 DEF Folders
          <5>. QED BY <5>2, <5>3
        <4>4. ASSUME NEW s, SaveArt(a), s = Max(DOMAIN x.art) PROVE s \in DOMAIN x.art
          BY <4>4, SavedSurface DEF SaveArt, At
        <4>. QED BY <2>1, <4>1, <4>2, <4>3, <4>4 DEF Files
      <3>. HIDE DEF o
      <3>. QED BY <1>2, <3>4
    <2>. QED BY <1>2, <2>1, StoreSteps
  <1>4. kept' \subseteq Ids \X Calls
    <2>1. ASSUME NEW a \in Attempts, Records(a)
          PROVE  kept' \subseteq Ids \X Calls
      <3>1. att[a].pc \in {"saveScreen", "saveAnalysis", "saveArt"}
        BY <2>1 DEF Records, SaveScreen, SaveAnalysis, SaveArt, At
      <3>2. Id(a) \in Ids
        BY <3>1, LoadedId DEF Loaded, Selecting, Offering, Drawing
      <3>3. \E c \in Calls : Keep(a, c)
        BY <2>1 DEF Records, Calls
      <3>. QED BY <1>2, <3>2, <3>3 DEF Keep
    <2>. QED BY <1>2, <2>1, KeptSteps
  <1>. QED BY <1>1, <1>3, <1>4 DEF StoreInv

IsRun(r) ==
    /\ r \in Runs /\ IsTableOfRows(r.opportunities)
    /\ r.eligible \subseteq DOMAIN r.opportunities
    /\ r.reason \in [DOMAIN r.opportunities -> Reasons]

(* A well-formed run record keeps the invariant of the run. *)
LEMMA RunWritten ==
    ASSUME world' = world, IsRun(run')
    PROVE  RunInv'
  BY Fixed DEF IsRun, RunInv

(* The changes of the run record that keep it well-formed. *)
LEMMA RunEdits ==
    ASSUME NEW r, IsRun(r)
    PROVE  /\ \A status \in Statuses : IsRun([r EXCEPT !.status = status])
           /\ \A report \in Reports : IsRun([r EXCEPT !.ip = report])
           /\ \A report \in Reports, o \in Ids :
                 IsRun([r EXCEPT !.ip = report, !.screened = o])
           /\ \A o \in Ids : IsRun([r EXCEPT !.analysis = o, !.analysed = o])
           /\ \A o \in Ids, report \in Reports, analysis \in Ids \cup {None}, package \in Packages :
                 IsRun([r EXCEPT !.selected = o, !.ip = report, !.analysis = analysis,
                                 !.package = package, !.approved = TRUE, !.status = "publishing"])
  <1>1. ASSUME NEW status \in Statuses
        PROVE  IsRun([r EXCEPT !.status = status])
    BY DEF IsRun, Runs
  <1>2. ASSUME NEW report \in Reports
        PROVE  IsRun([r EXCEPT !.ip = report])
    BY DEF IsRun, Runs
  <1>3. ASSUME NEW report \in Reports, NEW o \in Ids
        PROVE  IsRun([r EXCEPT !.ip = report, !.screened = o])
    BY DEF IsRun, Runs
  <1>4. ASSUME NEW o \in Ids
        PROVE  IsRun([r EXCEPT !.analysis = o, !.analysed = o])
    BY DEF IsRun, Runs
  <1>5. ASSUME NEW o \in Ids, NEW report \in Reports, NEW analysis \in Ids \cup {None},
               NEW package \in Packages
        PROVE  IsRun([r EXCEPT !.selected = o, !.ip = report, !.analysis = analysis,
                               !.package = package, !.approved = TRUE, !.status = "publishing"])
    BY DEF IsRun, Runs, Statuses
  <1>. QED BY <1>1, <1>2, <1>3, <1>4, <1>5

(* Rejecting an opportunity keeps the run record well-formed. *)
LEMMA RejectedRun ==
    ASSUME IsRun(run), NEW o, NEW reason \in Reasons
    PROVE  IsRun(Rejected(o, reason))
  <1>. DEFINE eligible == run.eligible \ RowsOf(o)
              reasons == [n \in DOMAIN run.reason |-> IF n \in RowsOf(o) THEN reason ELSE run.reason[n]]
              selected == IF run.selected = o THEN None ELSE run.selected
  <1>1. Rejected(o, reason) = [run EXCEPT !.eligible = eligible, !.reason = reasons,
                                          !.selected = selected, !.status = "ranking"]
    BY DEF Rejected
  <1>2. /\ run \in Runs /\ IsTableOfRows(run.opportunities)
        /\ run.eligible \subseteq DOMAIN run.opportunities
        /\ run.reason \in [DOMAIN run.opportunities -> Reasons]
    BY DEF IsRun
  <1>3. eligible \in SUBSET Ranks /\ eligible \subseteq DOMAIN run.opportunities
    BY <1>2 DEF Runs
  <1>4. reasons \in [DOMAIN run.opportunities -> Reasons] /\ DOMAIN run.reason \in SUBSET Ranks
    BY <1>2 DEF Runs, Reasonings
  <1>5. reasons \in Reasonings
    BY <1>2, <1>4 DEF Reasonings
  <1>6. selected \in Ids \cup {None}
    BY <1>2 DEF Runs
  <1>. HIDE DEF eligible, reasons, selected
  <1>. QED BY <1>1, <1>2, <1>3, <1>4, <1>5, <1>6 DEF IsRun, Runs, Statuses

(* Selecting an opportunity keeps the run record well-formed. *)
LEMMA SelectedRun ==
    ASSUME IsRun(run), NEW o \in Ids
    PROVE  IsRun(SelectOpportunity(o))
  <1>. DEFINE again == run.selected = o
              ip == IF again THEN run.ip ELSE NoReport
              analysis == IF again THEN run.analysis ELSE None
              package == IF again THEN run.package ELSE NoPackage
              eligible == run.eligible \cup RowsOf(o)
              reasons == [n \in DOMAIN run.reason |->
                            IF n \notin RowsOf(o) /\ run.reason[n] = "" THEN "lower ranked"
                            ELSE run.reason[n]]
  <1>1. SelectOpportunity(o) = [run EXCEPT !.selected = o, !.ip = ip, !.analysis = analysis,
                                           !.package = package, !.eligible = eligible,
                                           !.reason = reasons]
    BY DEF SelectOpportunity
  <1>2. /\ run \in Runs /\ IsTableOfRows(run.opportunities)
        /\ run.eligible \subseteq DOMAIN run.opportunities
        /\ run.reason \in [DOMAIN run.opportunities -> Reasons]
    BY DEF IsRun
  <1>3. DOMAIN run.reason \in SUBSET Ranks
    BY <1>2 DEF Runs, Reasonings
  <1>4. reasons \in [DOMAIN run.opportunities -> Reasons]
    BY <1>2 DEF Reasons
  <1>5. reasons \in Reasonings
    BY <1>2, <1>3, <1>4 DEF Reasonings
  <1>6. eligible \subseteq DOMAIN run.opportunities /\ eligible \in SUBSET Ranks
    BY <1>2, <1>3 DEF RowsOf
  <1>7. ip \in Reports
    BY <1>2 DEF Runs, NoReport, Reports
  <1>8. analysis \in Ids \cup {None} /\ package \in Packages \cup {NoPackage}
    BY <1>2 DEF Runs
  <1>. HIDE DEF eligible, reasons, ip, analysis, package
  <1>9. SelectOpportunity(o) \in Runs
    <2>. DEFINE first == [run EXCEPT !.selected = o, !.ip = ip, !.analysis = analysis]
                second == [first EXCEPT !.package = package, !.eligible = eligible,
                                        !.reason = reasons]
    <2>1. SelectOpportunity(o) = second
      BY <1>1, <1>2 DEF Runs
    <2>2. first \in Runs
      BY <1>2, <1>7, <1>8 DEF Runs
    <2>. HIDE DEF first
    <2>3. second \in Runs
      BY <1>5, <1>6, <1>8, <2>2 DEF Runs
    <2>. QED BY <2>1, <2>3
  <1>10. /\ SelectOpportunity(o).opportunities = run.opportunities
         /\ SelectOpportunity(o).eligible = eligible /\ SelectOpportunity(o).reason = reasons
    BY <1>1, <1>2 DEF Runs
  <1>. QED BY <1>2, <1>4, <1>6, <1>9, <1>10 DEF IsRun

(* Storing what was researched keeps the run record well-formed. *)
LEMMA ResearchedRun ==
    ASSUME Inv, NEW a \in Attempts
    PROVE  LET found == Researched(att[a].found)
           IN \A status \in Statuses :
                IsRun([run EXCEPT !.opportunities = found, !.eligible = DOMAIN found,
                                  !.reason = [n \in DOMAIN found |-> ""], !.status = status])
  <1>. DEFINE found == Researched(att[a].found)
              reasons == [n \in DOMAIN found |-> ""]
  <1>1. IsTableOfRows(found)
    <2>. DEFINE f == att[a].found
    <2>1. f \in Seq(Products)
      BY DEF Inv, AttInv, Working, Executions
    <2>. HIDE DEF f
    <2>2. IsTableOfRows(Researched(f))
      BY <2>1, ResearchedRows DEF Inv, WorldInv
    <2>. QED BY <2>2 DEF f
  <1>. HIDE DEF found
  <1>2. found \in Seq(Rows) /\ DOMAIN found \in SUBSET Ranks
    BY <1>1, OpportunitiesAssumption DEF IsTableOfRows, Ranks
  <1>3. reasons \in [DOMAIN found -> Reasons]
    BY DEF Reasons
  <1>4. reasons \in Reasonings
    BY <1>2, <1>3 DEF Reasonings
  <1>5. run \in Runs
    BY DEF Inv, RunInv
  <1>. HIDE DEF reasons
  <1>6. \A status \in Statuses :
           IsRun([run EXCEPT !.opportunities = found, !.eligible = DOMAIN found,
                             !.reason = reasons, !.status = status])
    BY <1>1, <1>2, <1>3, <1>4, <1>5 DEF IsRun, Runs
  <1>. QED BY <1>6 DEF found, reasons

(* What an attempt at its commit packages is well-formed, with the prices of*)
(* its variants.                                                            *)
LEMMA PackageType ==
    ASSUME Inv, NEW a \in Attempts, att[a].pc = "commit"
    PROVE  /\ Package(a) \in Packages
           /\ Package(a).prices = PricesFor(att[a].opportunity, att[a].offer)
  <1>1. att[a] \in Executions /\ att[a].opportunity \in Rows
    BY DEF Inv, AttInv, Working, Progress, Loaded, Drawing
  <1>2. Prices(a) = PricesFor(att[a].opportunity, att[a].offer)
    BY DEF Prices, PricesFor
  <1>. QED BY <1>1, <1>2 DEF Package, Packages, Executions

(* Every step keeps the invariant of the run record. *)
LEMMA RunKept ==
    ASSUME Inv, [Next]_vars
    PROVE  RunInv'
  <1>1. world' = world /\ IsRun(run)
    BY WorldSteps DEF Inv, RunInv, IsRun
  <1>2. SUFFICES IsRun(run')
    BY <1>1, RunWritten
  <1>3. ASSUME NEW status \in Statuses, run' = [run EXCEPT !.status = status]
        PROVE  IsRun(run')
    BY <1>1, <1>3, RunEdits
  <1>4. {"researching", "ranking", "generating", "failed", "published", "pending",
         "no_qualified_opportunity"} \subseteq Statuses
    BY DEF Statuses
  <1>5. ASSUME NEW a \in Attempts, Research(a)
        PROVE  IsRun(run')
    <2>1. CASE BeginResearch(a)
      BY <1>3, <1>4, <2>1 DEF BeginResearch
    <2>2. CASE Candidate(a) \/ Gather(a)
      BY <1>1, <2>2 DEF Candidate, Gather
    <2>3. CASE StoreOpportunities(a)
      <3>. DEFINE found == Researched(att[a].found)
      <3>1. \/ run' = run
            \/ \E status \in Statuses :
                 run' = [run EXCEPT !.opportunities = found, !.eligible = DOMAIN found,
                                    !.reason = [n \in DOMAIN found |-> ""], !.status = status]
        <4>. HIDE DEF found
        <4>. QED BY <1>4, <2>3 DEF StoreOpportunities, found
      <3>. QED BY <1>1, <3>1, ResearchedRun
    <2>4. CASE ResumeResearch(a)
      <3>1. run' = run \/ run' = [run EXCEPT !.status = "ranking"]
        BY <2>4 DEF ResumeResearch
      <3>. QED BY <1>1, <1>3, <1>4, <3>1
    <2>. QED BY <1>5, <2>1, <2>2, <2>3, <2>4 DEF Research
  <1>6. ASSUME NEW a \in Attempts, Prepare(a)
        PROVE  IsRun(run')
    <2>1. CASE Select(a)
      <3>1. Id(a) \in Ids
        BY <2>1, LoadedId DEF Select, At, Loaded
      <3>. DEFINE r == SelectOpportunity(Id(a))
      <3>2. IsRun(r)
        BY <1>1, <3>1, SelectedRun
      <3>3. run' = [r EXCEPT !.status = "screening", !.ip = IF world.ip THEN @ ELSE NoReport]
        BY <2>1 DEF Select
      <3>. DEFINE report == IF world.ip THEN r.ip ELSE NoReport
      <3>. HIDE DEF r
      <3>4. report \in Reports
        BY <3>2 DEF IsRun, Runs, NoReport, Reports
      <3>5. run' = [r EXCEPT !.status = "screening", !.ip = report]
        BY <3>3
      <3>. HIDE DEF report
      <3>. QED BY <3>2, <3>4, <3>5 DEF IsRun, Runs, Statuses
    <2>2. CASE SaveScreen(a)
      <3>1. Id(a) \in Ids /\ att[a].ip \in Reports
        BY <2>2, LoadedId DEF SaveScreen, At, Loaded, Selecting, Inv, AttInv, Working, Executions
      <3>2. run' = [run EXCEPT !.ip = att[a].ip, !.screened = Id(a)]
        BY <2>2 DEF SaveScreen
      <3>. QED BY <1>1, <3>1, <3>2, RunEdits
    <2>3. CASE SaveAnalysis(a)
      <3>1. Id(a) \in Ids
        BY <2>3, LoadedId DEF SaveAnalysis, At, Loaded, Offering
      <3>2. run' = [run EXCEPT !.analysis = Id(a), !.analysed = Id(a)]
        BY <2>3 DEF SaveAnalysis
      <3>. QED BY <1>1, <3>1, <3>2, RunEdits
    <2>4. CASE Generate(a)
      <3>1. run' = run \/ run' = [run EXCEPT !.status = "generating"]
        BY <2>4 DEF Generate
      <3>. QED BY <1>1, <1>3, <1>4, <3>1
    <2>5. CASE Commit(a)
      <3>1. att[a].pc = "commit"
        BY <2>5 DEF Commit, At
      <3>2. Id(a) \in Ids /\ att[a].ip \in Reports /\ att[a].analysis \in Ids \cup {None}
        BY <3>1, LoadedId DEF Loaded, Drawing, Inv, AttInv, Working, Executions
      <3>3. Package(a) \in Packages
        BY <3>1, PackageType
      <3>4. run' = [run EXCEPT !.selected = Id(a), !.ip = att[a].ip,
                               !.analysis = att[a].analysis, !.package = Package(a),
                               !.approved = TRUE, !.status = "publishing"]
        BY <2>5 DEF Commit
      <3>. QED BY <1>1, <3>2, <3>3, <3>4, RunEdits
    <2>6. CASE RejectOpportunity(a)
      <3>1. run' = Rejected(Id(a), att[a].reason) /\ att[a].reason \in Reasons
        BY <2>6 DEF RejectOpportunity, Inv, AttInv, Working, Executions
      <3>. QED BY <1>1, <3>1, RejectedRun
    <2>7. CASE Load(a) \/ Refresh(a) \/ Screen(a) \/ Offer(a) \/ FetchReferences(a) \/ SaveSheet(a)
      BY <1>1, <2>7 DEF Load, Refresh, Screen, Offer, FetchReferences, SaveSheet
    <2>8. CASE SaveReference(a) \/ Analyse(a) \/ Draw(a) \/ SaveArt(a) \/ Review(a) \/ Price(a)
      BY <1>1, <2>8 DEF SaveReference, Analyse, Draw, SaveArt, Review, Price
    <2>. QED BY <1>6, <2>1, <2>2, <2>3, <2>4, <2>5, <2>6, <2>7, <2>8 DEF Prepare
  <1>7. ASSUME NEW a \in Attempts,
               ServiceFails(a) \/ Start(a) \/ Answer(a) \/ Interrupted(a) \/ Leave(a)
        PROVE  IsRun(run')
    BY <1>1, <1>7 DEF ServiceFails, Start, Answer, Interrupted, Leave
  <1>8. ASSUME NEW a \in Attempts, Retry(a) \/ Expire(a)
        PROVE  IsRun(run')
    <2>1. run' = run \/ run' = [run EXCEPT !.status = "failed"]
      BY <1>8 DEF Retry, Expire, TryAgain
    <2>. QED BY <1>1, <1>3, <1>4, <2>1
  <1>9. CASE Publish
    <2>1. \/ run' = [run EXCEPT !.status = "published"]
          \/ run' = Rejected(run.selected, "drift")
          \/ run' = [run EXCEPT !.status = "failed"]
      BY <1>9 DEF Publish
    <2>. QED BY <1>1, <1>3, <1>4, <2>1, RejectedRun DEF Reasons
  <1>10. CASE FinishExhausted \/ Resume
    <2>1. \E status \in {"no_qualified_opportunity", "pending"} :
             run' = [run EXCEPT !.status = status]
      BY <1>10 DEF FinishExhausted, Resume
    <2>. QED BY <1>3, <1>4, <2>1
  <1>11. CASE Repaint \/ UNCHANGED vars
    BY <1>1, <1>11 DEF Repaint, vars
  <1>. QED BY <1>5, <1>6, <1>7, <1>8, <1>9, <1>10, <1>11 DEF Next

(* Every step keeps the invariant of the attempts. *)
LEMMA AttKept ==
    ASSUME Inv, [Next]_vars
    PROVE  AttInv'
  <1>1. world' = world /\ AttInv
    BY WorldSteps DEF Inv
  <1>2. ASSUME NEW a \in Attempts, Research(a)
        PROVE  AttInv'
    BY <1>2, ResearchWorks
  <1>3. ASSUME NEW a \in Attempts, Prepare(a) \/ ServiceFails(a) \/ Interrupted(a)
        PROVE  AttInv'
    <2>1. Performs(a)
      BY <1>3, PrepareWorks
    <2>. QED BY <1>1, <2>1, OneMoves DEF Performs
  <1>4. ASSUME NEW a \in Attempts, Start(a) \/ Answer(a) \/ Retry(a) \/ Expire(a) \/ Leave(a)
        PROVE  AttInv'
    BY <1>4, WorkflowWorks
  <1>5. CASE Publish \/ FinishExhausted \/ Resume \/ Repaint \/ UNCHANGED vars
    <2>1. att' = att
      BY <1>5 DEF Publish, FinishExhausted, Resume, Repaint, vars
    <2>. QED BY <1>1, <2>1, NoneMoves
  <1>. QED BY <1>2, <1>3, <1>4, <1>5 DEF Next

(* The workflow goes on to another stage.                                  *)
IsWf(w) ==
    /\ w \in Workflows
    /\ w.stage \in {"research", "resume"} => w.rank = 1
    /\ w.rank > 1 => w.rank <= w.count /\ w.rank <= MaxRanks
    /\ w.current = NoAttempt => w.tries < MaxTries

(* The workflow enters a stage with no attempt running. *)
LEMMA Entered ==
    ASSUME IsWf(wf), NEW stage \in Stages \ {"research", "resume"}
    PROVE  IsWf(Enter(stage)) /\ Enter(stage).current = NoAttempt
  <1>1. 0 \in 0..MaxTries /\ 0 < MaxTries
    BY PreparationAssumption
  <1>2. Enter(stage) = [wf EXCEPT !.stage = stage, !.tries = 0, !.current = NoAttempt]
    BY DEF Enter
  <1>. DEFINE w == Enter(stage)
  <1>. HIDE DEF w
  <1>3. w = [wf EXCEPT !.stage = stage, !.tries = 0, !.current = NoAttempt]
    BY <1>2 DEF w
  <1>4. /\ w \in Workflows /\ w.stage = stage /\ w.rank = wf.rank /\ w.count = wf.count
        /\ w.tries = 0 /\ w.current = NoAttempt
    BY <1>1, <1>3 DEF IsWf, Workflows
  <1>5. IsWf(w)
    BY <1>1, <1>4 DEF IsWf
  <1>. QED BY <1>4, <1>5 DEF w

(* A loop that is not through has a next rank. *)
LEMMA RanksLeft ==
    ASSUME IsWf(wf), ~ (wf.rank >= Min({wf.count, MaxRanks}))
    PROVE  wf.rank + 1 <= wf.count /\ wf.rank + 1 <= MaxRanks /\ wf.rank + 1 \in Ranks
  <1>1. /\ wf.rank \in Nat \ {0} /\ wf.count \in Nat /\ MaxRanks \in Nat
        /\ wf.count <= NumOpportunities /\ NumOpportunities \in Nat
    BY PreparationAssumption, OpportunitiesAssumption DEF IsWf, Workflows, Ranks
  <1>. DEFINE m == Min({wf.count, MaxRanks})
  <1>2. m <= wf.count /\ m <= MaxRanks /\ m \in Nat
    <2>1. \A p, q \in Int : /\ Min({p, q}) <= p /\ Min({p, q}) <= q
                            /\ Min({p, q}) \in {p, q}
      BY Lesser
    <2>2. m \in {wf.count, MaxRanks} /\ m <= wf.count /\ m <= MaxRanks
      <3>. DEFINE c == wf.count
      <3>1. c \in Int /\ MaxRanks \in Int
        BY <1>1
      <3>. HIDE DEF c
      <3>2. Min({c, MaxRanks}) \in {c, MaxRanks} /\ Min({c, MaxRanks}) <= c
            /\ Min({c, MaxRanks}) <= MaxRanks
        BY <2>1, <3>1
      <3>. QED BY <3>2 DEF c
    <2>. QED BY <1>1, <2>2
  <1>3. ~ (wf.rank >= m)
    OBVIOUS
  <1>. HIDE DEF m
  <1>. QED BY <1>1, <1>2, <1>3 DEF Ranks

(* The workflow's loop stays within the ranks. *)
LEMMA NextRanks ==
    ASSUME IsWf(wf)
    PROVE  IsWf(NextRank) /\ NextRank.current = NoAttempt
  <1>1. CASE wf.rank >= Min({wf.count, MaxRanks})
    <2>1. NextRank = Enter("exhausted")
      <3>1. NextRank = [wf EXCEPT !.stage = "exhausted", !.rank = wf.rank, !.tries = 0,
                                  !.current = NoAttempt]
        BY <1>1 DEF NextRank
      <3>2. wf = [wf EXCEPT !.rank = wf.rank]
        BY DEF IsWf, Workflows
      <3>. QED BY <3>1, <3>2 DEF Enter, IsWf, Workflows
    <2>. QED BY <2>1, Entered DEF Stages
  <1>2. CASE ~ (wf.rank >= Min({wf.count, MaxRanks}))
    <2>1. NextRank = [wf EXCEPT !.stage = "attempt", !.rank = wf.rank + 1, !.tries = 0,
                                !.current = NoAttempt]
      BY <1>2 DEF NextRank
    <2>2. 0 \in 0..MaxTries /\ 0 < MaxTries
      BY PreparationAssumption
    <2>. DEFINE w == NextRank
                next == wf.rank + 1
    <2>3. next <= wf.count /\ next <= MaxRanks /\ next \in Ranks
      BY <1>2, RanksLeft
    <2>4. w = [wf EXCEPT !.stage = "attempt", !.rank = next, !.tries = 0, !.current = NoAttempt]
      BY <2>1
    <2>. HIDE DEF w, next
    <2>5. /\ w \in Workflows /\ w.stage = "attempt" /\ w.rank = next /\ w.count = wf.count
          /\ w.tries = 0 /\ w.current = NoAttempt
      BY <2>2, <2>3, <2>4 DEF IsWf, Workflows, Stages
    <2>6. IsWf(w)
      BY <2>2, <2>3, <2>5 DEF IsWf
    <2>. QED BY <2>5, <2>6 DEF w
  <1>. QED BY <1>1, <1>2

(* After a failed attempt the workflow waits for the next one or has ended. *)
LEMMA AnotherTry ==
    ASSUME IsWf(wf), TryAgain, wf.tries \in Nat
    PROVE  IsWf(wf') /\ wf'.current = NoAttempt
  <1>1. CASE wf.tries < MaxTries
    BY <1>1 DEF TryAgain, IsWf, Workflows
  <1>2. CASE ~ (wf.tries < MaxTries)
    BY <1>2, Entered DEF TryAgain, Stages
  <1>. QED BY <1>1, <1>2

(* An attempt that goes on, or one that was given up, is no matter to the workflow. *)
LEMMA WfStays ==
    ASSUME WfInv, wf' = wf, NEW a \in Attempts, Moves(a), AttInv,
           wf.current = a => att'[a].stage = att[a].stage /\ att'[a].rank = att[a].rank
                             /\ att'[a].pc # "idle"
    PROVE  WfInv'
  <1>1. \A b \in Attempts : b # a => att'[b] = att[b]
    BY DEF Moves, AttInv
  <1>2. wf.current \in Attempts \cup {NoAttempt}
    BY DEF WfInv, Workflows
  <1>3. Workflows' = Workflows
    BY DEF Workflows
  <1>. QED BY <1>1, <1>2, <1>3 DEF WfInv

(* Every step keeps the invariant of the workflow. *)
LEMMA WfKept ==
    ASSUME Inv, [Next]_vars
    PROVE  WfInv'
  <1>1. IsWf(wf) /\ WfInv /\ AttInv /\ wf.tries \in Nat /\ wf \in Workflows
    BY PreparationAssumption DEF Inv, WfInv, IsWf, Workflows
  <1>2. ASSUME IsWf(wf'), wf'.current = NoAttempt
        PROVE  WfInv'
    BY <1>2 DEF IsWf, WfInv, Workflows
  <1>3. ASSUME NEW a \in Attempts, Research(a)
        PROVE  WfInv'
    <2>1. Moves(a) /\ att'[a].stage = att[a].stage /\ att'[a].pc # "idle"
          /\ att'[a].rank = att[a].rank
      BY <1>3, ResearchWorks
    <2>2. wf' = wf
      BY <1>3 DEF Research, BeginResearch, Candidate, Gather, StoreOpportunities, ResumeResearch
    <2>. QED BY <1>1, <2>1, <2>2, WfStays
  <1>4. ASSUME NEW a \in Attempts, Prepare(a) \/ ServiceFails(a) \/ Interrupted(a)
        PROVE  WfInv'
    <2>1. Performs(a)
      BY <1>4, PrepareWorks
    <2>2. wf' = wf
      <3>1. CASE ServiceFails(a) \/ Interrupted(a)
        BY <3>1 DEF ServiceFails, Interrupted
      <3>2. CASE Load(a) \/ Select(a) \/ Refresh(a) \/ Screen(a) \/ SaveScreen(a) \/ Offer(a)
        BY <3>2 DEF Load, Select, Refresh, Screen, SaveScreen, Offer
      <3>3. CASE FetchReferences(a) \/ SaveSheet(a) \/ SaveReference(a) \/ Analyse(a)
                 \/ SaveAnalysis(a) \/ Generate(a)
        BY <3>3 DEF FetchReferences, SaveSheet, SaveReference, Analyse, SaveAnalysis, Generate
      <3>4. CASE Draw(a) \/ SaveArt(a) \/ Review(a) \/ Price(a) \/ Commit(a) \/ RejectOpportunity(a)
        BY <3>4 DEF Draw, SaveArt, Review, Price, Commit, RejectOpportunity
      <3>. QED BY <1>4, <3>1, <3>2, <3>3, <3>4 DEF Prepare
    <2>. QED BY <1>1, <2>1, <2>2, WfStays DEF Performs
  <1>5. ASSUME NEW a \in Attempts, Start(a)
        PROVE  WfInv'
    <2>. DEFINE pc == IF wf.stage = "attempt" THEN "load" ELSE "begin"
                rank == IF wf.stage = "attempt" THEN wf.rank ELSE None
                y == [Idle EXCEPT !.pc = pc, !.stage = wf.stage, !.rank = rank]
    <2>1. /\ wf.stage \in {"research", "resume", "attempt"} /\ wf.current = NoAttempt
          /\ wf' = [wf EXCEPT !.current = a, !.tries = @ + 1] /\ Is(a, y)
      BY <1>5 DEF Start
    <2>2. att'[a] = y
      <3>. HIDE DEF y
      <3>. QED BY <1>1, <2>1, Written
    <2>3. y.pc # "idle" /\ y.stage = wf.stage /\ (wf.stage = "attempt" => y.rank = wf.rank)
      BY DEF Idle
    <2>. HIDE DEF y
    <2>4. wf.tries + 1 \in 0..MaxTries
      BY <1>1, <2>1, PreparationAssumption DEF IsWf, Workflows
    <2>5. /\ wf' \in Workflows /\ wf'.current = a /\ wf'.stage = wf.stage /\ wf'.rank = wf.rank
          /\ wf'.count = wf.count
      BY <1>1, <2>1, <2>4 DEF Workflows
    <2>6. Workflows' = Workflows /\ a # NoAttempt
      BY PreparationAssumption DEF Workflows
    <2>. QED BY <1>1, <2>1, <2>2, <2>3, <2>5, <2>6 DEF WfInv
  <1>6. ASSUME NEW a \in Attempts, Answer(a)
        PROVE  WfInv'
    <2>1. wf.current = a /\ att[a].pc = "done" /\ att[a].result # "error"
      BY <1>6 DEF Answer, At
    <2>2. wf.stage \in {"research", "resume", "attempt"} /\ att[a] \in Executions
          /\ att[a].result # "none"
      BY <1>1, <2>1, PreparationAssumption DEF WfInv, AttInv, Working, Progress
    <2>3. CASE wf.stage \in {"research", "resume"}
      <3>. DEFINE stage == IF att[a].count = 0 THEN "ended" ELSE "attempt"
                  w == Enter(stage)
                  count == att[a].count
      <3>1. wf' = [w EXCEPT !.count = count]
        BY <1>6, <2>3 DEF Answer
      <3>2. IsWf(w) /\ w.current = NoAttempt
        BY <1>1, Entered DEF Stages
      <3>3. w.rank = 1
        BY <1>1, <2>3 DEF Enter, IsWf, Workflows
      <3>4. count \in 0..NumOpportunities
        BY <2>2 DEF Executions
      <3>. HIDE DEF w, count
      <3>5. /\ wf' \in Workflows /\ wf'.current = NoAttempt /\ wf'.rank = 1 /\ wf'.tries = w.tries
        BY <3>1, <3>2, <3>3, <3>4 DEF IsWf, Workflows
      <3>6. IsWf(wf')
        BY <3>2, <3>5 DEF IsWf
      <3>. QED BY <1>2, <3>5, <3>6
    <2>4. CASE wf.stage = "attempt"
      <3>1. att[a].result \in {"ready", "rejected"}
        BY <2>1, <2>2 DEF Executions, Results
      <3>2. wf' = Enter("publish") \/ wf' = NextRank
        BY <1>6, <2>4, <3>1 DEF Answer
      <3>. QED BY <1>1, <1>2, <3>2, Entered, NextRanks DEF Stages
    <2>. QED BY <2>2, <2>3, <2>4
  <1>7. ASSUME NEW a \in Attempts, Retry(a) \/ Expire(a)
        PROVE  WfInv'
    BY <1>1, <1>2, <1>7, AnotherTry DEF Retry, Expire
  <1>8. ASSUME NEW a \in Attempts, Leave(a)
        PROVE  WfInv'
    <2>1. wf.current # a /\ Is(a, Idle) /\ wf' = wf
      BY <1>8 DEF Leave
    <2>. QED BY <1>1, <2>1, Written, WfStays
  <1>9. CASE Publish
    <2>1. wf' = Enter("ended") \/ wf' = NextRank
      BY <1>9 DEF Publish
    <2>. QED BY <1>1, <1>2, <2>1, Entered, NextRanks DEF Stages
  <1>10. CASE FinishExhausted
    BY <1>1, <1>2, <1>10, Entered DEF FinishExhausted, Stages
  <1>11. CASE Resume
    <2>1. wf' = [stage |-> "resume", rank |-> 1, count |-> 0, tries |-> 0, current |-> NoAttempt]
      BY <1>11 DEF Resume
    <2>2. 1 \in Ranks /\ 0 \in 0..NumOpportunities /\ 0 \in 0..MaxTries /\ 0 < MaxTries
      BY PreparationAssumption, OpportunitiesAssumption DEF Ranks
    <2>3. IsWf(wf')
      BY <2>1, <2>2 DEF IsWf, Workflows, Stages
    <2>. QED BY <1>2, <2>1, <2>3
  <1>12. CASE Repaint \/ UNCHANGED vars
    <2>1. wf' = wf /\ att' = att
      BY <1>12 DEF Repaint, vars
    <2>. QED BY <1>1, <2>1 DEF WfInv, Workflows
  <1>. QED BY <1>3, <1>4, <1>5, <1>6, <1>7, <1>8, <1>9, <1>10, <1>11, <1>12 DEF Next

(* The invariant is inductive. *)
LEMMA Kept == Inv /\ [Next]_vars => Inv'
  BY WorldKept, RunKept, AttKept, StoreKept, WfKept DEF Inv

(* It holds initially. *)
LEMMA Starts == Init => Inv
  <1>. SUFFICES ASSUME Init PROVE Inv
    OBVIOUS
  <1>1. world \in Worlds /\ world.trouble \in Nat /\ trouble = world.trouble
    BY WorldsAssumption DEF Init
  <1>2. 1 \in Pictures /\ None \in Pictures \cup {None} /\ NoReferences \in Sheets
    BY DEF Pictures, None, NoReferences, Sheets
  <1>3. WorldInv
    <2>1. bought \in [Ids -> [Calls -> Nat]]
      BY DEF Init
    <2>2. active \subseteq Products
      BY DEF Init
    <2>. QED BY <1>1, <1>2, <2>1, <2>2 DEF Init, WorldInv
  <1>4. StoreInv
    <2>1. [sheet |-> NoReferences, refs |-> NoReferences, art |-> [s \in AllSurfaces |-> None]]
            \in Folders
      BY <1>2 DEF Folders, None
    <2>. QED BY <2>1 DEF Init, StoreInv
  <1>5. AttInv
    <2>1. Working(Idle)
      BY <1>1, IdleWorks
    <2>2. att = [a \in Attempts |-> Idle]
      BY DEF Init
    <2>. QED BY <2>1, <2>2 DEF AttInv, Working
  <1>6. RunInv
    <2>1. <<>> \in Seq(Rows) /\ IsTableOfRows(<<>>)
      BY OpportunitiesAssumption DEF IsTableOfRows
    <2>2. <<>> \in [{} -> Reasons] /\ {} \in SUBSET Ranks
      OBVIOUS
    <2>3. <<>> \in Reasonings
      BY <2>2 DEF Reasonings
    <2>4. NoReport \in Reports /\ None \in Ids \cup {None} /\ "pending" \in Statuses
      BY DEF NoReport, Reports, Statuses
    <2>5. run = [status |-> "pending", opportunities |-> <<>>, eligible |-> {}, reason |-> <<>>,
              selected |-> None, ip |-> NoReport, screened |-> None, analysis |-> None,
              analysed |-> None, package |-> NoPackage, approved |-> FALSE]
      BY DEF Init
    <2>6. run \in Runs
      BY <2>1, <2>2, <2>3, <2>4, <2>5 DEF Runs
    <2>. QED BY <2>1, <2>2, <2>5, <2>6 DEF RunInv
  <1>7. WfInv
    <2>1. wf = [stage |-> "research", rank |-> 1, count |-> 0, tries |-> 0, current |-> NoAttempt]
      BY DEF Init
    <2>2. 1 \in Ranks /\ 0 \in 0..NumOpportunities /\ 0 \in 0..MaxTries /\ 0 < MaxTries
      BY PreparationAssumption, OpportunitiesAssumption DEF Ranks
    <2>. QED BY <2>1, <2>2 DEF WfInv, Workflows, Stages
  <1>. QED BY <1>3, <1>4, <1>5, <1>6, <1>7 DEF Inv

(* So it holds always. *)
LEMMA Always == Spec => []Inv
  <1>1. Init => Inv
    BY Starts
  <1>2. Inv /\ [Next]_vars => Inv'
    BY Kept
  <1>. QED BY <1>1, <1>2, PTL DEF Spec

(* It implies the type invariant. *)
LEMMA Typed == Inv => TypeOK
  <1>. SUFFICES ASSUME Inv PROVE TypeOK
    OBVIOUS
  <1>1. /\ trouble \in 0..world.trouble
        /\ active \subseteq Products /\ pictures \in Pictures
        /\ bought \in [Ids -> [Calls -> Nat]] /\ world \in Worlds
    BY DEF Inv, WorldInv
  <1>2. /\ run.status \in Statuses /\ run.ip \in Reports
        /\ {run.selected, run.screened, run.analysis, run.analysed} \subseteq Ids \cup {None}
        /\ run.eligible \subseteq DOMAIN run.opportunities
        /\ run.reason \in [DOMAIN run.opportunities -> Reasons]
        /\ run.package \in Packages \cup {NoPackage}
    BY DEF Inv, RunInv, Runs
  <1>3. \A o \in Rows : o.product \in Products /\ o.id \in Ids
    BY <1>1, RowsFacts DEF IsRow
  <1>4. \A n \in DOMAIN run.opportunities : /\ run.opportunities[n].product \in Products
                                            /\ run.opportunities[n].id \in Ids
    <2>1. \A n \in DOMAIN run.opportunities : run.opportunities[n] \in Rows
      BY DEF Inv, RunInv, IsTableOfRows
    <2>. QED BY <1>3, <2>1
  <1>5. run.package.opportunity.id \in Ids \cup {None}
    BY <1>2, <1>3 DEF Packages, NoPackage, NoOpportunity
  <1>6. \A o \in Ids : /\ store[o].sheet \in [References -> Pictures \cup {None}]
                       /\ store[o].refs \in [References -> Pictures \cup {None}]
                       /\ store[o].art \in [AllSurfaces -> Nat]
    BY DEF Inv, StoreInv, Folders, Sheets
  <1>7. ASSUME NEW a \in Attempts
        PROVE  /\ att[a].pc \in PCs /\ att[a].stage \in Stages /\ att[a].result \in Results
               /\ att[a].rank \in Ranks \cup {None}
               /\ att[a].opportunity.id \in Ids \cup {None}
               /\ att[a].ip \in Reports /\ att[a].analysis \in Ids \cup {None}
               /\ att[a].refs \in [References -> Pictures \cup {None}]
               /\ att[a].missing \subseteq References
               /\ DOMAIN att[a].art \subseteq AllSurfaces /\ att[a].reason \in Reasons
    <2>1. att[a] \in Executions
      BY DEF Inv, AttInv, Working
    <2>2. att[a].opportunity.id \in Ids \cup {None}
      BY <1>3, <2>1 DEF Executions, NoOpportunity
    <2>3. DOMAIN att[a].art \subseteq AllSurfaces
      BY <2>1 DEF Executions, Arts
    <2>. QED BY <2>1, <2>2, <2>3 DEF Executions, Sheets
  <1>8. wf.stage \in Stages /\ wf.tries \in 0..MaxTries /\ wf.current \in Attempts \cup {NoAttempt}
        /\ kept \subseteq Ids \X Calls
    BY DEF Inv, WfInv, StoreInv, Workflows
  <1>9. wf.rank \in 1..Max({1, Min({wf.count, MaxRanks})})
    <2>1. wf.rank \in Nat \ {0} /\ wf.count \in Nat /\ MaxRanks \in Nat
          /\ (wf.rank > 1 => wf.rank <= wf.count /\ wf.rank <= MaxRanks)
      BY PreparationAssumption, OpportunitiesAssumption DEF Inv, WfInv, Workflows, Ranks
    <2>. DEFINE c == wf.count
                r == wf.rank
                m == Min({c, MaxRanks})
                M == Max({1, m})
    <2>. HIDE DEF c, r
    <2>2. c \in Int /\ MaxRanks \in Int /\ c >= 0 /\ MaxRanks >= 0
      BY <2>1 DEF c
    <2>3. m \in {c, MaxRanks}
      BY <2>2, Lesser
    <2>4. r \in Nat \ {0} /\ (r > 1 => r <= m)
      BY <2>1, <2>3 DEF c, r
    <2>. HIDE DEF m
    <2>5. m \in Int
      BY <2>2, <2>3
    <2>6. \E x \in {1, m} : \A y \in {1, m} : x >= y
      BY <2>5
    <2>7. M \in {1, m} /\ M >= 1 /\ M >= m
      BY <2>6 DEF Max
    <2>. HIDE DEF M
    <2>8. r \in 1..M
      BY <2>4, <2>5, <2>7
    <2>. QED BY <2>8 DEF r, M, m, c
  <1>. QED BY <1>1, <1>2, <1>4, <1>5, <1>6, <1>7, <1>8, <1>9 DEF TypeOK

(* Every reachable state of a catalog run is well typed: the records of     *)
(* catalog_pipeline.py name opportunities that exist, the eligible ranks are*)
(* rows of the run, and the loop of CatalogMerchWorkflow stays within the   *)
(* opportunities it was told of and within the attempts of its retry policy.*)
THEOREM TypeCorrect == Spec => []TypeOK
  <1>1. Inv => TypeOK
    BY Typed
  <1>. QED BY <1>1, Always, PTL

-----------------------------------------------------------------------------
(* The parts of a package.                                                  *)

(* Packages.                                                               *)

\* The artwork of an attempt is stored, but for the last one before it is saved.
Whole(x) ==
    x.pc \in Drawing =>
        \A s \in DOMAIN x.art :
            /\ x.art[s] # None
            /\ \/ x.art[s] = store[x.opportunity.id].art[s]
               \/ x.pc = "saveArt" /\ \A t \in DOMAIN x.art : t <= s

IsPackage(p) ==
    /\ p \in Packages /\ p.opportunity \in Rows
    /\ Sellable(p.opportunity, p.variants) /\ Payable(p.opportunity, p.variants)
    /\ p.prices = PricesFor(p.opportunity, p.variants)
    /\ DOMAIN p.art = Surfaces(p.variants)
    /\ \A s \in DOMAIN p.art :
          p.art[s] # None /\ p.art[s] = store[p.opportunity.id].art[s]

WholeInv == \A a \in Attempts : Whole(att[a])
PackageInv == /\ run.package # NoPackage => IsPackage(run.package)
              /\ released # NoPackage => IsPackage(released)
KeptInv == \A o \in Ids : \A s \in AllSurfaces : <<o, s>> \in kept => store[o].art[s] # None

(* Stored artwork stays.                                                   *)
LEMMA ArtStays ==
    ASSUME Inv, [Next]_vars, NEW o \in Ids, NEW s \in AllSurfaces, store[o].art[s] # None
    PROVE  store'[o].art[s] = store[o].art[s]
  <1>1. store \in [Ids -> Folders] /\ store[o].art \in [AllSurfaces -> Nat]
        /\ DOMAIN store[o] = {"sheet", "refs", "art"}
    BY DEF Inv, StoreInv, Folders
  <1>2. ASSUME NEW a \in Attempts, Files(a)
        PROVE  store'[o].art[s] = store[o].art[s]
    <2>. DEFINE i == Id(a)
                x == att[a]
    <2>. HIDE DEF i, x
    <2>1. CASE i # o
      BY <1>1, <1>2, <2>1 DEF Files, i
    <2>2. CASE i = o
      <3>1. CASE store' = [store EXCEPT ![i].sheet = x.refs]
        BY <1>1, <2>2, <3>1
      <3>2. ASSUME NEW n, store' = [store EXCEPT ![i].refs[n] = x.refs[n]]
            PROVE  store'[o].art[s] = store[o].art[s]
        BY <1>1, <2>2, <3>2
      <3>3. ASSUME NEW t, store[i].art[t] \in {None, x.art[t]},
                   store' = [store EXCEPT ![i].art[t] = x.art[t]]
            PROVE  store'[o].art[s] = store[o].art[s]
        <4>1. store'[o].art = [store[o].art EXCEPT ![t] = x.art[t]]
          BY <1>1, <2>2, <3>3
        <4>2. CASE t = s
          BY <1>1, <2>2, <3>3, <4>1, <4>2
        <4>3. CASE t # s
          BY <1>1, <4>1, <4>3
        <4>. QED BY <4>2, <4>3
      <3>. QED BY <1>2, <3>1, <3>2, <3>3 DEF Files, i, x
    <2>. QED BY <2>1, <2>2
  <1>. QED BY <1>2, StoreSteps

(* An attempt that stays as it is stays whole, and so does a package.      *)
LEMMA WholeStays ==
    ASSUME Inv, [Next]_vars, NEW x, Working(x), Whole(x)
    PROVE  Whole(x)'
  <1>. SUFFICES ASSUME x.pc \in Drawing, NEW s \in DOMAIN x.art
                PROVE  /\ x.art[s] # None
                       /\ \/ x.art[s] = store'[x.opportunity.id].art[s]
                          \/ x.pc = "saveArt" /\ \A t \in DOMAIN x.art : t <= s
    BY DEF Whole
  <1>1. x \in Executions /\ x.opportunity \in Rows
    BY DEF Working, Progress, Loaded
  <1>2. x.opportunity.id \in Ids
    BY <1>1, RowsFacts DEF IsRow, Inv, WorldInv
  <1>3. s \in AllSurfaces
    BY <1>1 DEF Executions, Arts
  <1>. QED BY <1>2, <1>3, ArtStays DEF Whole

(* A package that fits its opportunity does so after every step:            *)
(* opportunities do not change.                                             *)
LEMMA PackageStays ==
    ASSUME Inv, [Next]_vars, NEW p, IsPackage(p)
    PROVE  IsPackage(p)'
  <1>1. world' = world
    BY WorldSteps
  <1>2. /\ Packages' = Packages /\ Rows' = Rows
        /\ (Sellable(p.opportunity, p.variants))' <=> Sellable(p.opportunity, p.variants)
        /\ (Payable(p.opportunity, p.variants))' <=> Payable(p.opportunity, p.variants)
    BY <1>1, Fixed DEF Sellable, Payable, ProductOf, PricesFor
  <1>3. p.opportunity.id \in Ids
    BY RowsFacts DEF IsRow, Inv, WorldInv, IsPackage
  <1>4. \A s \in DOMAIN p.art : s \in AllSurfaces
    BY DEF IsPackage, Packages, Arts
  <1>5. \A s \in DOMAIN p.art :
          p.art[s] # None /\ p.art[s] = store'[p.opportunity.id].art[s]
    BY <1>3, <1>4, ArtStays DEF IsPackage
  <1>. QED BY <1>2, <1>5 DEF IsPackage

(* How an attempt comes to be drawing, or to be further.                   *)
DrawsOn(a) ==
    LET x == att[a]
        y == att'[a]
        left == Surfaces(x.offer) \ DOMAIN x.art
        s == Min(left)
    IN \/ y = x
       \/ x.pc = "generate" /\ DOMAIN y.art = {}
       \/ /\ x.pc \in {"draw", "review", "price"} /\ y.pc # "saveArt"
          /\ y.art = x.art /\ y.opportunity = x.opportunity
       \/ /\ x.pc = "saveArt" /\ y.pc = "draw"
          /\ y.art = x.art /\ y.opportunity = x.opportunity
          /\ store' = [store EXCEPT ![Id(a)].art[Max(DOMAIN x.art)] = x.art[Max(DOMAIN x.art)]]
       \/ /\ x.pc = "draw" /\ left # {} /\ s \in AllSurfaces
          /\ store' = store
          /\ \/ /\ store[Id(a)].art[s] # None
                /\ Drew(x, y, s, store[Id(a)].art[s], "draw")
             \/ Drew(x, y, s, bought[Id(a)][s] + 1, "saveArt")

(* An attempt is between drawing and commit only if it was before, or just  *)
(* began to draw.                                                           *)
LEMMA DrawnSteps ==
    ASSUME Inv, [Next]_vars, NEW a \in Attempts, att'[a].pc \in Drawing
    PROVE  DrawsOn(a)
  <1>. DEFINE x == att[a]
              y == att'[a]
  <1>1. AttInv /\ x \in Executions /\ Working(x) /\ Progress(x)
    BY DEF Inv, AttInv, Working
  <1>2. y.stage = "attempt"
    <2>1. Working(att[a])'
      BY AttKept DEF AttInv
    <2>. QED BY <2>1 DEF Working, Progress, Loaded
  <1>3. ASSUME NEW b \in Attempts, b # a, Moves(b)
        PROVE  DrawsOn(a)
    BY <1>1, <1>3 DEF Moves, AttInv, DrawsOn
  <1>4. CASE att' = att
    BY <1>4 DEF DrawsOn
  <1>5. ASSUME NEW b \in Attempts, Research(b)
        PROVE  DrawsOn(a)
    <2>1. Moves(b) /\ att'[b].stage = att[b].stage /\ att[b].pc \in {"begin", "candidates", "rank"}
      BY <1>5, ResearchWorks DEF Research, BeginResearch, Candidate, Gather, StoreOpportunities,
                                 ResumeResearch, At
    <2>2. att[b].stage # "attempt"
      BY <2>1 DEF Inv, AttInv, Working, Progress
    <2>. QED BY <1>2, <1>3, <2>1, <2>2
  <1>6. ASSUME NEW b \in Attempts, Start(b) \/ Answer(b) \/ Retry(b) \/ Expire(b) \/ Leave(b)
        PROVE  DrawsOn(a)
    <2>. DEFINE z == [Idle EXCEPT !.pc = IF wf.stage = "attempt" THEN "load" ELSE "begin",
                                  !.stage = wf.stage,
                                  !.rank = IF wf.stage = "attempt" THEN wf.rank ELSE None]
    <2>1. z.pc \notin Drawing /\ Idle.pc \notin Drawing
      BY DEF Idle, Drawing
    <2>2. Is(b, z) \/ Is(b, Idle) \/ att' = att
      <3>. HIDE DEF z
      <3>. QED BY <1>6 DEF Start, Answer, Retry, Expire, Leave, z
    <2>. HIDE DEF z
    <2>3. CASE att' # att
      <3>1. Moves(b) /\ att'[b] \in {z, Idle}
        BY <1>1, <2>2, <2>3, Written
      <3>. QED BY <1>3, <2>1, <3>1
    <2>. QED BY <1>4, <2>3
  <1>7. CASE Publish \/ FinishExhausted \/ Resume \/ Repaint \/ UNCHANGED vars
    BY <1>4, <1>7 DEF Publish, FinishExhausted, Resume, Repaint, vars
  <1>8. \A b \in Attempts : Prepare(b) \/ ServiceFails(b) \/ Interrupted(b) => Moves(b)
    BY PrepareWorks DEF Performs
  <1>9. \A reason : y # Rejecting(x, reason)
    <2>. HIDE DEF y, x
    <2>. QED BY <1>1 DEF Rejecting, Drawing, Executions, y
  <1>10. \A result : y # Done(x, result)
    <2>. HIDE DEF y, x
    <2>. QED BY <1>1 DEF Done, Drawing, Executions, y
  <1>11. CASE ServiceFails(a) \/ Interrupted(a) \/ Commit(a) \/ RejectOpportunity(a)
    BY <1>9, <1>10, <1>11, FailureSteps, InterruptedSteps, CommitSteps, RejectSteps
  <1>12. CASE Load(a) \/ Offer(a)
    <2>1. \/ \E o : y = [x EXCEPT !.pc = "select", !.opportunity = o]
          \/ \E o : y = [x EXCEPT !.pc = "references", !.offer = o]
      BY <1>9, <1>10, <1>12, LoadSteps, OfferSteps
    <2>2. y.pc \in {"select", "references"}
      <3>. HIDE DEF x, y
      <3>. QED BY <1>1, <2>1 DEF Executions
    <2>. QED BY <2>2 DEF Drawing
  <1>13. CASE Price(a)
    <2>1. x.pc = "price" /\ y = [x EXCEPT !.pc = "commit"]
      BY <1>9, <1>13, PriceSteps
    <2>. DEFINE P == y.pc # "saveArt" /\ y.art = x.art /\ y.opportunity = x.opportunity
    <2>2. P
      <3>. HIDE DEF x, y
      <3>. QED BY <1>1, <2>1 DEF Executions
    <2>. QED BY <2>1, <2>2 DEF DrawsOn
  <1>14. CASE Draw(a)
    <2>1. store' = store
      BY <1>14 DEF Draw
    <2>. DEFINE left == Surfaces(x.offer) \ DOMAIN x.art
                s == Min(left)
    <2>2. /\ x.pc = "draw"
          /\ left # {} => s \in AllSurfaces
          /\ \/ y = [x EXCEPT !.pc = IF world.originality THEN "review" ELSE "price"]
             \/ /\ left # {} /\ store[Id(a)].art[s] # None
                /\ Drew(x, y, s, store[Id(a)].art[s], "draw")
             \/ left # {} /\ Drew(x, y, s, bought[Id(a)][s] + 1, "saveArt")
      BY <1>9, <1>14, DrawSteps
    <2>3. CASE y = [x EXCEPT !.pc = IF world.originality THEN "review" ELSE "price"]
      <3>1. y.pc # "saveArt" /\ y.art = x.art /\ y.opportunity = x.opportunity
        <4>. HIDE DEF x, y
        <4>. QED BY <1>1, <2>3 DEF Executions
      <3>. QED BY <2>2, <3>1 DEF DrawsOn
    <2>. QED BY <2>1, <2>2, <2>3 DEF DrawsOn
  <1>15. CASE Passed(a)
    <2>1. Alike(x, y) /\ <<x.pc, y.pc>> \in Passes
      BY <1>9, <1>15, PassedSteps
    <2>2. /\ y.art = x.art /\ y.opportunity = x.opportunity
          /\ \/ x.pc = "generate" /\ y.pc = "draw"
             \/ x.pc = "saveArt" /\ y.pc = "draw"
             \/ x.pc = "review" /\ y.pc = "price"
      BY <2>1 DEF Alike, Passes, Drawing
    <2>3. CASE x.pc = "generate"
      BY <1>1, <2>2, <2>3 DEF DrawsOn, Progress, Offering
    <2>4. CASE x.pc = "review"
      BY <2>2, <2>4 DEF DrawsOn
    <2>5. CASE x.pc = "saveArt"
      <3>1. SaveArt(a)
        BY <1>15, <2>5 DEF Passed, Select, Refresh, Screen, SaveScreen, FetchReferences, SaveSheet,
                       SaveReference, Analyse, SaveAnalysis, Generate, Review, At
      <3>2. Is(a, Rejecting(x, "replayed"))
            \/ store' = [store EXCEPT ![Id(a)].art[Max(DOMAIN x.art)] = x.art[Max(DOMAIN x.art)]]
        BY <3>1 DEF SaveArt, Reject
      <3>. QED BY <1>1, <1>9, <2>2, <2>5, <3>2, Written DEF DrawsOn
    <2>. QED BY <2>2, <2>3, <2>4, <2>5
  <1>16. ASSUME NEW b \in Attempts, Prepare(b) \/ ServiceFails(b) \/ Interrupted(b)
        PROVE  DrawsOn(a)
    <2>1. CASE b = a
      BY <1>11, <1>12, <1>13, <1>14, <1>15, <1>16, <2>1 DEF Prepare, Passed
    <2>2. CASE b # a
      BY <1>3, <1>8, <1>16, <2>2
    <2>. QED BY <2>1, <2>2
  <1>. QED BY <1>5, <1>6, <1>7, <1>16 DEF Next

(* Every step keeps what an attempt has drawn as stored. *)
LEMMA WholeKept ==
    ASSUME Inv, WholeInv, [Next]_vars
    PROVE  WholeInv'
  <1>. SUFFICES ASSUME NEW a \in Attempts PROVE Whole(att[a])'
    BY DEF WholeInv
  <1>. DEFINE x == att[a]
              y == att'[a]
              o == Id(a)
  <1>1. /\ x \in Executions /\ Progress(x) /\ Working(x) /\ Whole(x)
    BY DEF Inv, AttInv, Working, WholeInv
  <1>2. CASE y.pc \notin Drawing
    BY <1>2 DEF Whole
  <1>3. CASE y.pc \in Drawing
    <2>. SUFFICES ASSUME NEW s \in DOMAIN y.art
                  PROVE  /\ y.art[s] # None
                         /\ \/ y.art[s] = store'[y.opportunity.id].art[s]
                            \/ y.pc = "saveArt" /\ \A t \in DOMAIN y.art : t <= s
      BY DEF Whole
    <2>1. DrawsOn(a)
      BY <1>3, DrawnSteps
    <2>2. CASE y = x
      <3>1. PICK z : z = x
        OBVIOUS
      <3>2. Whole(z)'
        BY <1>1, <3>1, WholeStays
      <3>3. y = z
        BY <2>2, <3>1
      <3>. HIDE DEF x, y
      <3>. QED BY <1>3, <3>2, <3>3 DEF Whole
    <2>3. CASE x.pc = "generate" /\ DOMAIN y.art = {}
      BY <2>3
    <2>4. x.pc \in Drawing => o \in Ids /\ x.opportunity.id = o
      BY LoadedId DEF Loaded, Id
    <2>5. \A t \in DOMAIN x.art : t \in AllSurfaces /\ t \in Nat
      BY <1>1, OfferSurfaces DEF Executions, Arts, Inv, WorldInv
    <2>6. ASSUME NEW t \in DOMAIN x.art, x.pc \in Drawing,
                 x.pc # "saveArt" \/ ~ \A u \in DOMAIN x.art : u <= t
          PROVE  x.art[t] # None /\ x.art[t] = store[o].art[t] /\ x.art[t] = store'[o].art[t]
      <3>1. x.art[t] # None /\ x.art[t] = store[o].art[t]
        BY <1>1, <2>4, <2>6 DEF Whole
      <3>2. store'[o].art[t] = store[o].art[t]
        <4>. HIDE DEF o
        <4>. QED BY <2>4, <2>5, <2>6, <3>1, ArtStays
      <3>. QED BY <3>1, <3>2
    <2>7. CASE /\ x.pc \in {"draw", "review", "price"} /\ y.pc # "saveArt"
               /\ y.art = x.art /\ y.opportunity = x.opportunity
      <3>1. x.pc \in Drawing /\ x.pc # "saveArt"
        BY <2>7 DEF Drawing
      <3>. QED BY <2>4, <2>6, <2>7, <3>1
    <2>8. CASE /\ x.pc = "saveArt" /\ y.pc = "draw"
               /\ y.art = x.art /\ y.opportunity = x.opportunity
               /\ store' = [store EXCEPT ![Id(a)].art[Max(DOMAIN x.art)] = x.art[Max(DOMAIN x.art)]]
      <3>. DEFINE m == Max(DOMAIN x.art)
      <3>1. x.pc \in Drawing
        BY <2>8 DEF Drawing
      <3>2. m \in DOMAIN x.art /\ m \in AllSurfaces /\ \A t \in DOMAIN x.art : t <= m
        BY <2>8, SavedSurface
      <3>3. CASE s = m
        <4>1. x.art[m] # None
          BY <1>1, <3>1, <3>2 DEF Whole
        <4>2. store'[o].art[m] = x.art[m]
          <5>1. store[o].art \in [AllSurfaces -> Nat] /\ DOMAIN store[o] = {"sheet", "refs", "art"}
                /\ o \in DOMAIN store
            BY <2>4, <3>1 DEF Inv, StoreInv, Folders
          <5>2. store' = [store EXCEPT ![o].art[m] = x.art[m]]
            BY <2>8
          <5>. HIDE DEF o, m, x
          <5>3. store'[o].art = [store[o].art EXCEPT ![m] = x.art[m]]
            BY <5>1, <5>2
          <5>. QED BY <3>2, <5>1, <5>3
        <4>. QED BY <2>4, <2>8, <3>1, <3>3, <4>1, <4>2
      <3>4. CASE s # m
        <4>1. ~ (m <= s)
          BY <2>5, <2>8, <3>2, <3>4
        <4>. QED BY <2>4, <2>6, <2>8, <3>1, <3>2, <4>1
      <3>. QED BY <3>3, <3>4
    <2>9. ASSUME NEW n \in AllSurfaces, n = Min(Surfaces(x.offer) \ DOMAIN x.art),
                 Surfaces(x.offer) \ DOMAIN x.art # {},
                 x.pc = "draw", store' = store, NEW image \in Nat, NEW pc \in {"draw", "saveArt"},
                 Drew(x, y, n, image, pc), image # None,
                 pc = "draw" => image = store[o].art[n]
          PROVE  /\ y.art[s] # None
                 /\ \/ y.art[s] = store'[y.opportunity.id].art[s]
                    \/ y.pc = "saveArt" /\ \A t \in DOMAIN y.art : t <= s
      <3>0. x.pc \in Drawing /\ x.pc # "saveArt"
        BY <2>9 DEF Drawing
      <3>1. /\ y.art = Extended(x.art, n, image) /\ y.pc = pc /\ y.opportunity = x.opportunity
        <4>. HIDE DEF x, y, o
        <4>. QED BY <1>1, <2>9 DEF Drew, Executions
      <3>2. /\ DOMAIN y.art = DOMAIN x.art \cup {n} /\ y.art[n] = image
            /\ \A t \in DOMAIN x.art : t # n => y.art[t] = x.art[t]
        <4>. HIDE DEF x, y, o
        <4>. QED BY <3>1 DEF Extended
      <3>3. \A t \in DOMAIN x.art : t <= n
        <4>. DEFINE S == Surfaces(x.offer)
                    D == DOMAIN x.art
        <4>1. S \in SUBSET Nat /\ D \in SUBSET S /\ S \ D # {} /\ InOrder(D, S)
          BY <1>1, <2>9, OfferSurfaces DEF Inv, WorldInv, Executions, Progress, Drawing
        <4>2. n = Min(S \ D)
          BY <2>9
        <4>. HIDE DEF S, D
        <4>3. Min(S \ D) \in S \ D /\ \A t \in D : t < Min(S \ D)
          BY <4>1, NextSurface
        <4>4. n \in Nat /\ \A t \in D : t \in Nat /\ t < n
          BY <4>1, <4>2, <4>3
        <4>5. \A t \in D : t <= n
          BY <4>4
        <4>. QED BY <4>5 DEF D
      <3>4. CASE s = n
        <4>1. \A t \in DOMAIN y.art : t <= n
          <5>1. n <= n
            BY <2>9, OfferSurfaces DEF Inv, WorldInv
          <5>. HIDE DEF x, y
          <5>. QED BY <3>2, <3>3, <5>1
        <4>. QED BY <2>4, <2>9, <3>0, <3>1, <3>2, <3>4, <4>1
      <3>5. CASE s # n
        <4>1. s \in DOMAIN x.art /\ y.art[s] = x.art[s]
          BY <3>2, <3>5
        <4>. QED BY <2>4, <2>6, <3>0, <3>1, <4>1
      <3>. QED BY <3>4, <3>5
    <2>10. CASE /\ x.pc = "draw" /\ Surfaces(x.offer) \ DOMAIN x.art # {}
                /\ Min(Surfaces(x.offer) \ DOMAIN x.art) \in AllSurfaces
                /\ store' = store
                /\ \/ /\ store[o].art[Min(Surfaces(x.offer) \ DOMAIN x.art)] # None
                      /\ Drew(x, y, Min(Surfaces(x.offer) \ DOMAIN x.art),
                              store[o].art[Min(Surfaces(x.offer) \ DOMAIN x.art)], "draw")
                   \/ Drew(x, y, Min(Surfaces(x.offer) \ DOMAIN x.art),
                           bought[o][Min(Surfaces(x.offer) \ DOMAIN x.art)] + 1, "saveArt")
      <3>. DEFINE n == Min(Surfaces(x.offer) \ DOMAIN x.art)
      <3>1. n \in AllSurfaces /\ n \in Calls /\ o \in Ids
        BY <2>4, <2>10 DEF Calls, Drawing
      <3>2. store[o].art[n] \in Nat
        <4>1. store[o].art \in [AllSurfaces -> Nat]
          BY <3>1 DEF Inv, StoreInv, Folders
        <4>. HIDE DEF n, o
        <4>. QED BY <3>1, <4>1
      <3>3. bought[o][n] + 1 \in Nat /\ bought[o][n] + 1 # None
        <4>1. bought[o] \in [Calls -> Nat]
          BY <3>1 DEF Inv, WorldInv
        <4>. HIDE DEF n, o
        <4>. QED BY <3>1, <4>1 DEF None
      <3>. QED BY <2>9, <2>10, <3>1, <3>2, <3>3
    <2>. QED BY <2>1, <2>2, <2>3, <2>7, <2>8, <2>10 DEF DrawsOn
  <1>. QED BY <1>2, <1>3

(* The package of the run.                                                 *)
LEMMA PackageSteps ==
    ASSUME Inv, [Next]_vars
    PROVE  /\ \/ run'.package \in {run.package, NoPackage}
              \/ \E a \in Attempts : Commit(a) /\ run'.package = Package(a)
           /\ released' \in {released, run.package}
  <1>1. DOMAIN run = {"status", "opportunities", "eligible", "reason", "selected", "ip", "screened",
                      "analysis", "analysed", "package", "approved"}
    BY DEF Inv, RunInv, Runs
  <1>2. \A o, reason : Rejected(o, reason).package = run.package
    BY <1>1 DEF Rejected
  <1>3. \A o : SelectOpportunity(o).package \in {run.package, NoPackage}
                /\ DOMAIN SelectOpportunity(o) = DOMAIN run
    BY <1>1 DEF SelectOpportunity
  <1>4. ASSUME NEW a \in Attempts, Research(a)
        PROVE  run'.package = run.package /\ released' = released
    <2>1. CASE BeginResearch(a) \/ Candidate(a) \/ Gather(a)
      BY <1>1, <2>1 DEF BeginResearch, Candidate, Gather
    <2>2. CASE StoreOpportunities(a)
      <3>. DEFINE found == Researched(att[a].found)
                  reasons == [n \in DOMAIN found |-> ""]
                  status == IF found = <<>> THEN "no_qualified_opportunity" ELSE "ranking"
      <3>1. \/ run' = run
            \/ run' = [run EXCEPT !.opportunities = found, !.eligible = DOMAIN found,
                                  !.reason = reasons, !.status = status]
        BY <2>2 DEF StoreOpportunities
      <3>. HIDE DEF found, reasons, status
      <3>2. run'.package = run.package
        BY <1>1, <3>1
      <3>. QED BY <2>2, <3>2 DEF StoreOpportunities
    <2>3. CASE ResumeResearch(a)
      BY <1>1, <2>3 DEF ResumeResearch
    <2>. QED BY <1>4, <2>1, <2>2, <2>3 DEF Research
  <1>5. ASSUME NEW a \in Attempts, Prepare(a), ~ Commit(a)
        PROVE  run'.package \in {run.package, NoPackage} /\ released' = released
    <2>1. CASE Select(a)
      <3>. DEFINE r == SelectOpportunity(Id(a))
      <3>1. run' = [r EXCEPT !.status = "screening", !.ip = IF world.ip THEN @ ELSE NoReport]
            /\ released' = released
        BY <2>1 DEF Select
      <3>2. r.package \in {run.package, NoPackage} /\ DOMAIN r = DOMAIN run
        BY <1>3
      <3>. HIDE DEF r
      <3>. QED BY <1>1, <3>1, <3>2
    <2>2. CASE SaveScreen(a) \/ SaveAnalysis(a) \/ Generate(a)
      BY <1>1, <2>2 DEF SaveScreen, SaveAnalysis, Generate
    <2>3. CASE RejectOpportunity(a)
      BY <1>2, <2>3 DEF RejectOpportunity
    <2>4. CASE Load(a) \/ Refresh(a) \/ Screen(a) \/ Offer(a) \/ FetchReferences(a) \/ SaveSheet(a)
      BY <2>4 DEF Load, Refresh, Screen, Offer, FetchReferences, SaveSheet
    <2>5. CASE SaveReference(a) \/ Analyse(a) \/ Draw(a) \/ SaveArt(a) \/ Review(a) \/ Price(a)
      BY <2>5 DEF SaveReference, Analyse, Draw, SaveArt, Review, Price
    <2>. QED BY <1>5, <2>1, <2>2, <2>3, <2>4, <2>5 DEF Prepare
  <1>6. ASSUME NEW a \in Attempts, Commit(a)
        PROVE  run'.package = Package(a) /\ released' = released
    <2>. DEFINE p == Package(a)
    <2>1. run' = [run EXCEPT !.selected = Id(a), !.ip = att[a].ip,
                             !.analysis = att[a].analysis, !.package = p,
                             !.approved = TRUE, !.status = "publishing"]
      BY <1>6 DEF Commit
    <2>. HIDE DEF p
    <2>2. run'.package = p
      BY <1>1, <2>1
    <2>. QED BY <1>6, <2>2 DEF Commit, p
  <1>7. ASSUME NEW a \in Attempts,
               ServiceFails(a) \/ Start(a) \/ Answer(a) \/ Interrupted(a) \/ Leave(a)
        PROVE  run' = run /\ released' = released
    BY <1>7 DEF ServiceFails, Start, Answer, Interrupted, Leave
  <1>8. ASSUME NEW a \in Attempts, Retry(a) \/ Expire(a)
        PROVE  run'.package = run.package /\ released' = released
    BY <1>1, <1>8 DEF Retry, Expire, TryAgain
  <1>9. CASE Publish \/ FinishExhausted \/ Resume \/ Repaint \/ UNCHANGED vars
    BY <1>1, <1>2, <1>9 DEF Publish, FinishExhausted, Resume, Repaint, vars
  <1>. QED BY <1>4, <1>5, <1>6, <1>7, <1>8, <1>9 DEF Next

(* Every step keeps the packages made of what their opportunity allows. *)
LEMMA PackagesKept ==
    ASSUME Inv, WholeInv, PackageInv, [Next]_vars
    PROVE  PackageInv'
  <1>1. ASSUME NEW a \in Attempts, Commit(a)
        PROVE  IsPackage(Package(a))
    <2>. DEFINE x == att[a]
                p == Package(a)
    <2>1. x.pc = "commit" /\ Progress(x) /\ Whole(x) /\ x \in Executions
      BY <1>1 DEF Commit, At, Inv, AttInv, Working, WholeInv
    <2>2. /\ x.opportunity \in Rows /\ Sellable(x.opportunity, x.offer)
          /\ Payable(x.opportunity, x.offer) /\ DOMAIN x.art = Surfaces(x.offer)
      BY <2>1 DEF Progress, Loaded, Drawing
    <2>3. \A s \in DOMAIN x.art : x.art[s] # None /\ x.art[s] = store[x.opportunity.id].art[s]
      BY <2>1 DEF Whole, Drawing
    <2>4. /\ p.opportunity = x.opportunity /\ p.variants = x.offer /\ p.art = x.art
      BY DEF Package
    <2>5. p \in Packages /\ p.prices = PricesFor(x.opportunity, x.offer)
      BY <2>1, PackageType
    <2>. HIDE DEF p, x
    <2>6. IsPackage(p)
      BY <2>2, <2>3, <2>4, <2>5 DEF IsPackage
    <2>. QED BY <2>6 DEF p
  <1>2. run'.package # NoPackage => IsPackage(run'.package)
    BY <1>1, PackageSteps DEF PackageInv
  <1>3. released' # NoPackage => IsPackage(released')
    BY PackageSteps DEF PackageInv
  <1>4. \A p : IsPackage(p) => IsPackage(p)'
    BY PackageStays
  <1>5. run'.package # NoPackage => IsPackage(run.package)'
    <2>1. \A p : IsPackage(p) /\ p = run'.package => IsPackage(run.package)'
      <3>. SUFFICES ASSUME NEW p, IsPackage(p), p = run'.package
                    PROVE  IsPackage(run.package)'
        OBVIOUS
      <3>1. IsPackage(p)'
        BY <1>4
      <3>. QED BY <3>1 DEF IsPackage
    <2>. QED BY <1>2, <2>1
  <1>6. released' # NoPackage => IsPackage(released)'
    <2>. SUFFICES ASSUME NEW p, IsPackage(p), p = released'
                  PROVE  IsPackage(released)'
      BY <1>3
    <2>1. IsPackage(p)'
      BY <1>4
    <2>. QED BY <2>1 DEF IsPackage
  <1>. QED BY <1>5, <1>6 DEF PackageInv, NoPackage, NoOpportunity, None

(* Every step keeps the artwork that counts as stored in the store. *)
LEMMA KeptArtKept ==
    ASSUME Inv, WholeInv, KeptInv, [Next]_vars
    PROVE  KeptInv'
  <1>1. Ids' = Ids /\ AllSurfaces' = AllSurfaces
    BY WorldSteps, Fixed
  <1>. SUFFICES ASSUME NEW o \in Ids, NEW s \in AllSurfaces, <<o, s>> \in kept'
                PROVE  store'[o].art[s] # None
    BY <1>1 DEF KeptInv
  <1>2. CASE <<o, s>> \in kept
    <2>1. store[o].art[s] # None
      BY <1>2 DEF KeptInv
    <2>2. store'[o].art[s] = store[o].art[s]
      BY <2>1, ArtStays
    <2>. QED BY <2>1, <2>2
  <1>3. ASSUME NEW a \in Attempts, Records(a), <<o, s>> \notin kept
        PROVE  store'[o].art[s] # None
    <2>. DEFINE x == att[a]
    <2>1. s # Screening /\ s # Analysis
      <3>1. s \in Nat
        BY OfferSurfaces DEF Inv, WorldInv
      <3>. QED BY <3>1 DEF Screening, Analysis
    <2>2. PICK t \in AllSurfaces :
             /\ SaveArt(a) /\ t = Max(DOMAIN x.art) /\ Keep(a, t)
             /\ store' = [store EXCEPT ![Id(a)].art[t] = x.art[t]]
      BY <1>3, <2>1 DEF Records, Keep
    <2>3. o = Id(a) /\ s = t
      BY <1>3, <2>2 DEF Keep
    <2>4. x.pc = "saveArt" /\ Whole(x)
      BY <2>2 DEF SaveArt, At, WholeInv
    <2>5. t \in DOMAIN x.art
      BY <2>2, <2>4, SavedSurface
    <2>6. x.art[t] # None
      BY <2>4, <2>5 DEF Whole, Drawing
    <2>7. store[o].art \in [AllSurfaces -> Nat] /\ DOMAIN store[o] = {"sheet", "refs", "art"}
          /\ o \in DOMAIN store
      BY DEF Inv, StoreInv, Folders
    <2>. HIDE DEF x
    <2>8. store'[o].art = [store[o].art EXCEPT ![t] = x.art[t]]
      BY <2>2, <2>3, <2>7
    <2>. QED BY <2>3, <2>6, <2>7, <2>8
  <1>. QED BY <1>2, <1>3, KeptSteps

-----------------------------------------------------------------------------
Parts == Inv /\ WholeInv /\ PackageInv /\ KeptInv

(* The parts hold initially. *)
LEMMA PartsStart == Init => Parts
  <1>. SUFFICES ASSUME Init PROVE Parts
    OBVIOUS
  <1>1. WholeInv
    BY DEF Init, WholeInv, Whole, Idle, Drawing
  <1>2. PackageInv
    BY DEF Init, PackageInv
  <1>3. KeptInv
    BY DEF Init, KeptInv
  <1>. QED BY <1>1, <1>2, <1>3, Starts DEF Parts

(* The parts are kept by every step. *)
LEMMA PartsKept == Parts /\ [Next]_vars => Parts'
  BY Kept, WholeKept, PackagesKept, KeptArtKept DEF Parts

(* So they hold always. *)
LEMMA PartsAlways == Spec => []Parts
  BY PartsStart, PartsKept, PTL DEF Spec

(* The variants of a package are a product's, and their costs are known.   *)
LEMMA PackageVariants ==
    ASSUME Inv, NEW p, IsPackage(p)
    PROVE  LET vs == p.variants
               product == ProductOf(p.opportunity)
           IN /\ IsOffer(vs, product) /\ Cardinality(AxesOf(vs)) <= MaxAxes
              /\ \A i \in DOMAIN vs : /\ IsVariant(vs[i]) /\ vs[i].available /\ vs[i].supported
                                      /\ vs[i].cost \in Nat /\ vs[i].shipping \in Nat
  <1>. DEFINE product == ProductOf(p.opportunity)
              V == VariantsOf(p.opportunity.product)
              vs == Selected(product)
              u == Offered(product)
  <1>1. /\ p.opportunity.product \in Products
    BY RowsFacts DEF IsPackage, IsRow, Inv, WorldInv
  <1>2. product.variants \in Seq(V) /\ \A v \in V : IsVariant(v)
    BY <1>1, WorldFacts DEF ProductOf, Inv, WorldInv
  <1>3. /\ CostsKnown(product) /\ p.variants = vs /\ vs # <<>>
        /\ Cardinality(AxesOf(vs)) <= MaxAxes
        /\ \A i \in DOMAIN vs : vs[i].supported /\ vs[i].shipping # Unknown
    BY DEF IsPackage, Sellable, Payable
  <1>. HIDE DEF V, product
  <1>4. vs \in Seq(V) /\ From(vs, product.variants) /\ IsOffer(vs, product)
    BY <1>2, <1>3, SelectedIsOffer
  <1>5. \A i \in DOMAIN vs : IsVariant(vs[i]) /\ vs[i].available
    <2>1. \A i \in DOMAIN vs : vs[i].available
      BY <1>4 DEF IsOffer, IsSelection
    <2>. HIDE DEF vs
    <2>2. \A i \in DOMAIN vs : vs[i] \in V
      BY <1>4
    <2>. QED BY <1>2, <2>1, <2>2
  <1>6. \A i \in DOMAIN product.variants : product.variants[i].available =>
           \E n \in DOMAIN u : u[n] = product.variants[i]
    <2>1. u = Usable(product.variants)
      BY DEF Offered, Usable
    <2>. DEFINE t == product.variants
    <2>2. t \in Seq(V)
      BY <1>2
    <2>. HIDE DEF t, u
    <2>3. \A i \in DOMAIN t : t[i].available => \E n \in DOMAIN Usable(t) : Usable(t)[n] = t[i]
      BY <2>2, UsableVariants
    <2>. QED BY <2>1, <2>3 DEF t
  <1>. HIDE DEF vs
  <1>7. \A i \in DOMAIN vs : vs[i].cost # Unknown
    <2>. TAKE i \in DOMAIN vs
    <2>1. PICK j \in DOMAIN product.variants : vs[i] = product.variants[j]
      BY <1>4 DEF From
    <2>2. PICK n \in DOMAIN u : u[n] = vs[i]
      BY <1>5, <1>6, <2>1
    <2>3. u[n].cost # Unknown
      BY <1>3 DEF CostsKnown
    <2>. QED BY <2>2, <2>3
  <1>8. \A i \in DOMAIN vs : vs[i].cost \in Nat /\ vs[i].shipping \in Nat
    BY <1>3, <1>5, <1>7 DEF IsVariant, Cents
  <1>. QED BY <1>3, <1>4, <1>5, <1>8 DEF product

(* A package of such parts offers a complete matrix. *)
LEMMA PackageIsMatrix == Parts => OfferIsMatrix
  <1>. SUFFICES ASSUME Parts, run.package # NoPackage PROVE OfferIsMatrix
    BY DEF OfferIsMatrix
  <1>. DEFINE vs == run.package.variants
              product == ProductOf(run.package.opportunity)
              A == AxesOf(vs)
  <1>1. Inv /\ IsPackage(run.package)
    BY DEF Parts, PackageInv
  <1>2. /\ IsOffer(vs, product) /\ Cardinality(A) <= MaxAxes
        /\ \A i \in DOMAIN vs : /\ IsVariant(vs[i]) /\ vs[i].available /\ vs[i].supported
                                /\ vs[i].cost \in Nat /\ vs[i].shipping \in Nat
    <2>. DEFINE p == run.package
    <2>1. IsPackage(p)
      BY <1>1
    <2>. HIDE DEF p
    <2>2. LET w == p.variants
          IN /\ IsOffer(w, ProductOf(p.opportunity)) /\ Cardinality(AxesOf(w)) <= MaxAxes
             /\ \A i \in DOMAIN w : /\ IsVariant(w[i]) /\ w[i].available /\ w[i].supported
                                    /\ w[i].cost \in Nat /\ w[i].shipping \in Nat
      BY <1>1, <2>1, PackageVariants
    <2>. QED BY <2>2 DEF p
  <1>. HIDE DEF vs, product
  <1>3. IsSelection(vs, product.variants)
        /\ Len(vs) <= Min({MaxEnabled, InventoryProductLimit(Cardinality(A))})
    BY <1>2 DEF IsOffer
  <1>4. \A i \in DOMAIN vs : /\ vs[i].available /\ vs[i].supported
                             /\ vs[i].cost # Unknown /\ vs[i].shipping # Unknown
                             /\ DOMAIN vs[i].options = A
    BY <1>2, <1>3 DEF IsSelection, Unknown
  <1>5. A # {} => /\ \A i, j \in DOMAIN vs : i # j => vs[i].options # vs[j].options
                  /\ \A i \in DOMAIN vs, n \in DOMAIN product.variants :
                        product.variants[n].available
                        /\ product.variants[n].options = vs[i].options
                        => vs[i].cost <= product.variants[n].cost
    BY <1>3 DEF IsSelection
  <1>6. ASSUME NEW k \in [A -> UNION {ValuesOn(vs, x) : x \in A}],
               \A x \in A : k[x] \in ValuesOn(vs, x)
        PROVE  \E i \in DOMAIN vs : vs[i].options = k
    <2>1. \A x \in A : \E i \in DOMAIN vs : k[x] = vs[i].options[x]
      BY <1>6 DEF ValuesOn, With
    <2>2. \A i \in DOMAIN vs : \A x \in A : vs[i].options[x] \in Nat
      BY <1>2, <1>4 DEF IsVariant
    <2>. HIDE DEF A
    <2>3. k \in [A -> Nat]
      BY <1>6, <2>1, <2>2
    <2>4. \A x \in A : \E m \in OptionsOf(vs) : m[x] = k[x]
      BY <2>1 DEF OptionsOf
    <2>5. k \in OptionsOf(vs)
      BY <1>3, <2>3, <2>4 DEF IsSelection, IsMatrix, A
    <2>. QED BY <2>5 DEF OptionsOf
  <1>. QED BY <1>2, <1>3, <1>4, <1>5, <1>6 DEF OfferIsMatrix, vs, product

(* A package of such parts has the best prices. *)
LEMMA PackageIsBest == Parts => PricesAreBest
  <1>. SUFFICES ASSUME Parts, run.package # NoPackage, NEW i \in DOMAIN run.package.prices
                PROVE  LET v == run.package.variants[i]
                           p == run.package.prices[i]
                           median == ComparableMedian(run.package.opportunity.listings)
                           Undercuts(q) == median # Unknown /\ q + CustomerShipping < median
                       IN /\ p.variant = v.id
                          /\ p.price % 100 = 99 /\ Profitable(v, p.price)
                          /\ p.undercut = "true" <=> Undercuts(p.price)
                          /\ \A q \in Prices99 : Profitable(v, q) =>
                                IF Undercuts(p.price) THEN Undercuts(q) => q <= p.price
                                ELSE ~Undercuts(q) /\ p.price <= q
                          /\ 1000 * p.contribution >= TargetMargin * (p.price + CustomerShipping)
    BY DEF PricesAreBest
  <1>. DEFINE v == run.package.variants[i]
              p == run.package.prices[i]
              median == ComparableMedian(run.package.opportunity.listings)
              Undercuts(q) == median # Unknown /\ q + CustomerShipping < median
  <1>1. Inv /\ IsPackage(run.package)
    BY DEF Parts, PackageInv
  <1>2. /\ run.package.prices = PricesFor(run.package.opportunity, run.package.variants)
        /\ run.package.opportunity \in Rows
        /\ Payable(run.package.opportunity, run.package.variants)
    BY <1>1 DEF IsPackage
  <1>3. i \in DOMAIN run.package.variants
    BY <1>2 DEF PricesFor
  <1>4. p = CompetitivePrice(v, median) /\ p.kept
    BY <1>2, <1>3 DEF PricesFor, Payable
  <1>5. median \in Int
    BY <1>1, <1>2, RowsFacts DEF IsRow, Inv, WorldInv
  <1>6. v.cost \in Nat /\ v.shipping \in Nat
    <2>. DEFINE package == run.package
    <2>1. IsPackage(package) /\ i \in DOMAIN package.variants
      BY <1>1, <1>3
    <2>. HIDE DEF package
    <2>2. package.variants[i].cost \in Nat /\ package.variants[i].shipping \in Nat
      BY <1>1, <2>1, PackageVariants
    <2>. QED BY <2>2 DEF package
  <1>. HIDE DEF v, p, median
  <1>. DEFINE best == CompetitivePrice(v, median)
  <1>7. /\ best.price \in Nat
        /\ best.price % 100 = 99 /\ Profitable(v, best.price)
        /\ best.undercut = "true" <=> Undercuts(best.price)
        /\ \A n \in Nat \ {0} : Profitable(v, 100 * n - 1) =>
              IF Undercuts(best.price) THEN Undercuts(100 * n - 1) => 100 * n - 1 <= best.price
              ELSE ~ Undercuts(100 * n - 1) /\ best.price <= 100 * n - 1
    BY <1>5, <1>6, PriceIsBest
  <1>8. p.variant = v.id /\ 1000 * p.contribution >= TargetMargin * (p.price + CustomerShipping)
    <2>. DEFINE undercuts == Undercut(median) >= FloorPrice(v)
                price == IF undercuts THEN Undercut(median) ELSE FloorPrice(v)
                revenue == price + CustomerShipping
                fee == RoundDiv(revenue * PercentFee, 1000) + FixedFee
                contribution == revenue - v.cost - v.shipping - fee - Discount
                undercut == IF undercuts THEN "true"
                            ELSE IF median = Unknown THEN "unknown" ELSE "false"
                margin == 1000 * contribution >= TargetMargin * revenue
    <2>1. p = [variant |-> v.id, price |-> price, contribution |-> contribution,
               undercut |-> undercut, kept |-> margin]
      BY <1>4, Zenon DEF CompetitivePrice
    <2>. HIDE DEF margin, undercut, contribution, price
    <2>2. /\ p.variant = v.id /\ p.price = price /\ p.contribution = contribution
          /\ p.kept = margin
      BY <2>1
    <2>3. margin
      BY <1>4, <2>2
    <2>4. 1000 * contribution >= TargetMargin * (price + CustomerShipping)
      BY <2>3, Zenon DEF margin
    <2>5. 1000 * p.contribution >= TargetMargin * (p.price + CustomerShipping)
      <3>. DEFINE Pays(c, q) == 1000 * c >= TargetMargin * (q + CustomerShipping)
      <3>1. Pays(contribution, price)
        BY <2>4
      <3>. HIDE DEF Pays
      <3>2. Pays(p.contribution, p.price)
        BY <2>2, <3>1
      <3>. QED BY <3>2 DEF Pays
    <2>. QED BY <2>2, <2>5
  <1>9. \A q \in Prices99 : \E n \in Nat \ {0} : q = 100 * n - 1
    BY WorldsAssumption, <1>1 DEF Prices99, Inv, WorldInv
  <1>10. p = best
    BY <1>4
  <1>. HIDE DEF best
  <1>11. \A q \in Prices99 : Profitable(v, q) =>
            IF Undercuts(p.price) THEN Undercuts(q) => q <= p.price
            ELSE ~Undercuts(q) /\ p.price <= q
    <2>. HIDE DEF Undercuts
    <2>. QED BY <1>7, <1>9, <1>10
  <1>. QED BY <1>7, <1>8, <1>10, <1>11 DEF v, p, median

(* Whatever the catalog offers and however attempts overlap, the variants of*)
(* a package (_prepare_opportunity, reduce_variation_axes) are a complete   *)
(* matrix within the limits of Etsy and Printify, each combination once and *)
(* by a cheapest variant.                                                   *)
THEOREM OfferIsComplete == Spec => []OfferIsMatrix
  BY PartsAlways, PackageIsMatrix, PTL

(* Whatever the costs and the comparable listings are, every price of a     *)
(* package (competitive_price) ends in 99, leaves the margin after the fee  *)
(* that is charged, and no other would have been better.                    *)
THEOREM PricesAreTheBest == Spec => []PricesAreBest
  BY PartsAlways, PackageIsBest, PTL

-----------------------------------------------------------------------------
(* Attempts that do not overlap.                                            *)

(* While attempts do not overlap.                                          *)

SelectedPCs == (Loaded \ {"select"})
Screened == SelectedPCs \ {"refresh", "screen", "saveScreen", "reject"}
Analysed == Drawing \cup {"generate", "saveAnalysis"}

Alone == \A a \in Attempts : att[a].pc # "idle" => a = wf.current

Latest ==
    /\ run.analysis # None => run.analysed = run.analysis
    /\ run.ip.of # None => run.screened = run.ip.of

\* An opportunity is the best that is left.
First(o) ==
    \E n \in run.eligible : /\ run.opportunities[n].id = o
                            /\ \A m \in 1..(n - 1) : m \notin run.eligible
Chosen ==
    run.selected # None =>
        /\ run.ip.of \in {None, run.selected} /\ run.analysis \in {None, run.selected}
        /\ First(run.selected)

\* What was stored for an opportunity is still there until it is rejected.
Gone(o) == RowsOf(o) \cap run.eligible = {}
Screens ==
    \A o \in Ids : <<o, Screening>> \in kept =>
        /\ world.ip
        /\ Gone(o) \/ (run.selected = o /\ run.ip.of = o)
Analyses ==
    \A o \in Ids : <<o, Analysis>> \in kept =>
        Gone(o) \/ (run.selected = o /\ run.analysis = o)

Past == wf.stage \in {"attempt", "publish"} => \A m \in 1..(wf.rank - 1) : m \notin run.eligible
Untouched == wf.stage = "research" => run.selected = None /\ run.package = NoPackage /\ kept = {}
Ready ==
    run.status = "publishing" =>
        /\ run.package # NoPackage /\ wf.stage \in {"attempt", "publish"}
        /\ run.selected = run.package.opportunity.id
        /\ wf.rank \in run.eligible /\ run.opportunities[wf.rank].id = run.selected
Out ==
    released # NoPackage =>
        /\ wf.stage = "ended" /\ run.status = "published"
        /\ \E n \in run.eligible : run.opportunities[n].id = released.opportunity.id

Report(o) == IF world.ip THEN [of |-> o, pass |-> TRUE] ELSE NoReport
IsOwn(p) ==
    /\ p.analysis = p.opportunity.id /\ p.ip = Report(p.opportunity.id)
    /\ world.originality => p.reviewed
Contents == /\ run.package # NoPackage => IsOwn(run.package)
            /\ released # NoPackage => IsOwn(released)

Follows(x) ==
    LET o == x.opportunity.id
    IN /\ x.pc \in Loaded => wf.rank \in run.eligible /\ run.opportunities[wf.rank] = x.opportunity
       /\ x.pc \in SelectedPCs => run.selected = o
       /\ x.pc \in {"load", "select", "refresh", "screen"} => x.ip = NoReport
       /\ x.pc \in {"screen", "saveScreen"} => world.ip
       /\ x.pc = "saveScreen" => x.ip.of = o
       /\ x.pc \in Screened => x.ip = Report(o) /\ (world.ip => run.ip = x.ip)
       /\ x.pc \in Analysed => x.analysis = o
       /\ x.pc \in Analysed \ {"saveAnalysis"} => run.analysis = o
       /\ x.pc \in {"price", "commit"} /\ world.originality => x.reviewed
       /\ x.pc = "done" /\ x.result = "rejected" /\ x.stage = "attempt" => wf.rank \notin run.eligible

Sound == Latest /\ Chosen /\ Screens /\ Analyses
Path == Past /\ Untouched /\ Ready /\ Out /\ Contents
Orderly == Alone /\ Sound /\ Path /\ \A a \in Attempts : Follows(att[a])
PatientInv == world.patient => Orderly

(* Frames.                                                                 *)
SameRun ==
    /\ run'.opportunities = run.opportunities /\ run'.eligible = run.eligible
    /\ run'.selected = run.selected /\ run'.ip = run.ip /\ run'.screened = run.screened
    /\ run'.analysis = run.analysis /\ run'.analysed = run.analysed /\ run'.package = run.package

\* Only artwork is recorded as stored.
OnlyArt == \A o \in Ids : \A c \in {Screening, Analysis} : <<o, c>> \in kept' => <<o, c>> \in kept

(* The invariant of the run record and the stored results depends on nothing*)
(* else.                                                                    *)
LEMMA SoundStays ==
    ASSUME Sound, world' = world, SameRun, OnlyArt
    PROVE  Sound'
  <1>1. Ids' = Ids
    BY Fixed
  <1>2. \A o : RowsOf(o)' = RowsOf(o) /\ (Gone(o)' <=> Gone(o)) /\ (First(o)' <=> First(o))
    BY DEF RowsOf, Gone, First, SameRun
  <1>3. Latest' /\ Chosen'
    <2>1. run.selected' # None => First(run.selected)'
      BY <1>2 DEF Sound, Chosen, SameRun, First
    <2>. QED BY <2>1 DEF Sound, Latest, Chosen, SameRun
  <1>4. Screens'
    BY <1>1, <1>2 DEF Sound, Screens, SameRun, OnlyArt
  <1>5. Analyses'
    BY <1>1, <1>2 DEF Sound, Analyses, SameRun, OnlyArt
  <1>. QED BY <1>3, <1>4, <1>5 DEF Sound

(* The invariant of the workflow and the run depends on nothing else. *)
LEMMA PathStays ==
    ASSUME Path, world' = world, SameRun, run'.status = run.status, wf'.stage = wf.stage,
           wf'.rank = wf.rank, released' = released, wf.stage = "research" => kept' = kept
    PROVE  Path'
  <1>1. Past' /\ Untouched'
    BY DEF Path, Past, Untouched, SameRun
  <1>2. Ready' /\ Out'
    BY DEF Path, Ready, Out, SameRun
  <1>3. Contents'
    BY DEF Path, Contents, IsOwn, Report, SameRun
  <1>. QED BY <1>1, <1>2, <1>3 DEF Path

\* An attempt that is not idle is the workflow's.
LEMMA Current ==
    ASSUME Inv, Orderly, NEW a \in Attempts, att[a].pc # "idle"
    PROVE  /\ wf.current = a /\ att[a].stage = wf.stage
           /\ wf.stage \in {"research", "resume", "attempt"}
           /\ wf.stage = "attempt" => att[a].rank = wf.rank
           /\ released = NoPackage
           /\ att[a] \in Executions /\ Progress(att[a]) /\ Follows(att[a])
  <1>1. wf.current = a /\ a # NoAttempt
    BY PreparationAssumption DEF Orderly, Alone
  <1>2. /\ att[a].stage = wf.stage /\ wf.stage \in {"research", "resume", "attempt"}
        /\ wf.stage = "attempt" => att[a].rank = wf.rank
    BY <1>1 DEF Inv, WfInv
  <1>3. released = NoPackage
    BY <1>2 DEF Orderly, Path, Out
  <1>. QED BY <1>1, <1>2, <1>3 DEF Inv, AttInv, Working, Orderly

\* Only the workflow's attempt takes a step.
LEMMA Onward ==
    ASSUME Inv, Orderly, NEW a \in Attempts, att[a].pc # "idle", Moves(a),
           wf'.current = wf.current, Sound', Path', NEW y, y = att'[a], Follows(y)'
    PROVE  Orderly'
  <1>1. wf.current = a
    BY Current
  <1>2. \A b \in Attempts : b # a => att'[b] = att[b] /\ att[b].pc = "idle"
    BY <1>1 DEF Moves, Orderly, Alone, Inv, AttInv
  <1>3. Alone'
    BY <1>1, <1>2 DEF Alone
  <1>4. ASSUME NEW b \in Attempts PROVE Follows(att[b])'
    <2>1. CASE b = a
      BY <2>1 DEF Follows, Report
    <2>2. CASE b # a
      BY <1>2, <2>2 DEF Follows, SelectedPCs, Screened, Analysed, Loaded, Selecting,
         Offering, Drawing
    <2>. QED BY <2>1, <2>2
  <1>. QED BY <1>3, <1>4 DEF Orderly

(* A step that changes only its attempt, and artwork, keeps everything      *)
(* orderly if the attempt still fits the run.                               *)
LEMMA Quietly ==
    ASSUME Inv, Orderly, NEW a \in Attempts, att[a].pc # "idle", Moves(a),
           world' = world, run' = run, wf' = wf, released' = released,
           OnlyArt, wf.stage = "research" => kept' = kept,
           NEW y, y = att'[a], Follows(y)
    PROVE  Orderly'
  <1>1. SameRun /\ run'.status = run.status
    BY DEF SameRun
  <1>2. Sound' /\ Path'
    BY <1>1, SoundStays, PathStays DEF Orderly
  <1>3. Follows(y)'
    BY DEF Follows, Report
  <1>. QED BY <1>2, <1>3, Onward

(* An attempt that is given up, by itself or by an error, still fits the    *)
(* run.                                                                     *)
LEMMA FollowEnds ==
    ASSUME NEW x \in Executions, Follows(x)
    PROVE  /\ \A reason \in Reasons : x.pc \in SelectedPCs => Follows(Rejecting(x, reason))
           /\ Follows(Done(x, "error")) /\ Follows(Done(x, "ready"))
  <1>1. ASSUME NEW reason \in Reasons, x.pc \in SelectedPCs
        PROVE  Follows(Rejecting(x, reason))
    <2>. DEFINE y == Rejecting(x, reason)
    <2>1. y = [x EXCEPT !.pc = "reject", !.reason = reason]
      BY DEF Rejecting
    <2>. HIDE DEF y
    <2>2. y.pc = "reject" /\ y.opportunity = x.opportunity
      BY <2>1 DEF Executions
    <2>3. Follows(y)
      BY <1>1, <2>2 DEF Follows, SelectedPCs, Screened, Analysed, Loaded, Selecting,
         Offering, Drawing
    <2>. QED BY <2>3 DEF y
  <1>2. ASSUME NEW result \in {"error", "ready"}
        PROVE  Follows(Done(x, result))
    <2>. DEFINE y == Done(x, result)
    <2>1. y = [x EXCEPT !.pc = "done", !.result = result]
      BY DEF Done
    <2>. HIDE DEF y
    <2>2. y.pc = "done" /\ y.result # "rejected"
      BY <2>1 DEF Executions
    <2>3. Follows(y)
      BY <2>2 DEF Follows, SelectedPCs, Screened, Analysed, Loaded, Selecting, Offering, Drawing
    <2>. QED BY <2>3 DEF y
  <1>. QED BY <1>1, <1>2

\* An attempt goes on with what it has.
Same(x, y) ==
    /\ y.opportunity = x.opportunity /\ y.ip = x.ip /\ y.analysis = x.analysis
    /\ y.reviewed = x.reviewed

Onwards == Passes \cup {<<"offer", "references">>, <<"price", "commit">>, <<"draw", "draw">>,
                        <<"draw", "saveArt">>, <<"draw", "review">>, <<"draw", "price">>}

(* An attempt that goes on with the same data still fits the run. *)
LEMMA FollowSame ==
    ASSUME NEW x \in Executions, Follows(x), NEW y, Same(x, y), <<x.pc, y.pc>> \in Onwards,
           x.pc \notin {"select", "screen", "saveScreen", "analyse", "saveAnalysis"},
           x.pc = "refresh" => y.pc = IF world.ip THEN "screen" ELSE "offer",
           x.pc \in {"draw", "review"} /\ y.pc = "price" => ~ world.originality \/ x.reviewed
    PROVE  Follows(y)
  <1>1. CASE x.pc = "refresh"
    BY <1>1 DEF Follows, Same, Report, SelectedPCs, Screened, Analysed, Loaded, Selecting,
       Offering, Drawing
  <1>2. CASE x.pc # "refresh"
    <2>1. /\ x.pc \in Screened /\ y.pc \in Screened /\ x.pc \in Loaded /\ y.pc \in Loaded
          /\ x.pc \in SelectedPCs /\ y.pc \in SelectedPCs
          /\ y.pc \notin {"load", "select", "refresh", "screen", "saveScreen", "saveAnalysis", "done"}
          /\ y.pc \in Analysed => x.pc \in Analysed \ {"saveAnalysis"}
      BY <1>2 DEF Onwards, Passes, SelectedPCs, Screened, Analysed, Loaded, Selecting,
         Offering, Drawing
    <2>2. y.pc \in {"price", "commit"} /\ world.originality => y.reviewed
      <3>1. y.pc = "commit" => x.pc = "price"
        BY DEF Onwards, Passes
      <3>2. y.pc = "price" => x.pc \in {"draw", "review"}
        BY DEF Onwards, Passes
      <3>. QED BY <3>1, <3>2 DEF Follows, Same
    <2>3. Report(y.opportunity.id) = Report(x.opportunity.id)
      BY DEF Same
    <2>. QED BY <2>1, <2>2, <2>3 DEF Follows, Same
  <1>. QED BY <1>1, <1>2

\* Nothing but the attempt and the calls paid for.
Quiet(a) ==
    \/ Load(a) \/ Refresh(a) \/ Screen(a) \/ Offer(a) \/ FetchReferences(a) \/ SaveSheet(a)
    \/ SaveReference(a) \/ Analyse(a) \/ Draw(a) \/ SaveArt(a) \/ Review(a) \/ Price(a)
    \/ ServiceFails(a) \/ Interrupted(a)

(* After every step that leaves the run record alone, its attempt still fits*)
(* the run.                                                                 *)
LEMMA QuietFollows ==
    ASSUME Inv, Orderly, NEW a \in Attempts, Quiet(a)
    PROVE  Follows(att'[a])
  <1>. DEFINE x == att[a]
              y == att'[a]
  <1>1. AttInv /\ x.pc # "idle"
    BY DEF Inv, Quiet, Load, Refresh, Screen, Offer, FetchReferences, SaveSheet, SaveReference,
           Analyse, Draw, SaveArt, Review, Price, ServiceFails, Calling, Interrupted, At
  <1>2. /\ x.stage = wf.stage /\ (wf.stage = "attempt" => x.rank = wf.rank)
        /\ x \in Executions /\ Progress(x) /\ Follows(x)
    BY <1>1, Current
  <1>3. ASSUME NEW reason \in Reasons, x.pc \in SelectedPCs, y = Rejecting(x, reason)
        PROVE  Follows(y)
    BY <1>2, <1>3, FollowEnds
  <1>4. CASE Load(a)
    <2>. DEFINE o == run.opportunities[x.rank]
    <2>1. /\ x.pc = "load" /\ x.rank = wf.rank
          /\ \/ x.rank \notin run.eligible /\ y = Done(x, "rejected")
             \/ y = Done(x, "ready")
             \/ x.rank \in run.eligible /\ y = [x EXCEPT !.pc = "select", !.opportunity = o]
      BY <1>2, <1>4, LoadSteps DEF Progress
    <2>2. CASE x.rank \notin run.eligible /\ y = Done(x, "rejected")
      <3>1. y.pc = "done"
        <4>. HIDE DEF x, y
        <4>. QED BY <1>2, <2>2 DEF Done, Executions
      <3>. QED BY <2>1, <2>2, <3>1 DEF Follows, SelectedPCs, Screened, Analysed, Loaded, Selecting,
                                      Offering, Drawing
    <2>3. CASE y = Done(x, "ready")
      BY <1>2, <2>3, FollowEnds
    <2>4. CASE x.rank \in run.eligible /\ y = [x EXCEPT !.pc = "select", !.opportunity = o]
      <3>1. y.pc = "select" /\ y.opportunity = o /\ y.ip = x.ip
        <4>. HIDE DEF x, y
        <4>. QED BY <1>2, <2>4 DEF Executions
      <3>2. x.ip = NoReport
        BY <1>2, <2>1 DEF Follows
      <3>. QED BY <2>1, <2>4, <3>1, <3>2
           DEF Follows, SelectedPCs, Screened, Analysed, Loaded, Selecting, Offering, Drawing
    <2>. QED BY <2>1, <2>2, <2>3, <2>4
  <1>5. CASE Refresh(a)
    <2>1. /\ x.pc = "refresh"
          /\ \/ \E reason \in {"references", "unavailable"} : y = Rejecting(x, reason)
             \/ y = [x EXCEPT !.pc = IF world.ip THEN "screen" ELSE "offer"]
      BY <1>1, <1>5, Written DEF Refresh, Reject, At
    <2>2. CASE y = [x EXCEPT !.pc = IF world.ip THEN "screen" ELSE "offer"]
      <3>1. Same(x, y) /\ y.pc = IF world.ip THEN "screen" ELSE "offer"
        <4>. HIDE DEF x, y
        <4>. QED BY <1>2, <2>2 DEF Same, Executions
      <3>. QED BY <1>2, <2>1, <3>1, FollowSame DEF Onwards, Passes
    <2>. QED BY <1>3, <2>1, <2>2 DEF Reasons, SelectedPCs, Loaded, Selecting
  <1>6. CASE Screen(a)
    <2>0. x.pc = "screen" /\ x.opportunity.id = Id(a) /\ Id(a) \in Ids
      BY <1>6, LoadedId DEF Screen, At, Loaded, Selecting, Id
    <2>1. \E report \in Reports :
            /\ report.of = Id(a)
            /\ \/ report = run.ip /\ Is(a, Judge(x, report))
               \/ Is(a, [x EXCEPT !.pc = "saveScreen", !.ip = report])
      <3>1. run.ip \in Reports
        BY DEF Inv, RunInv, Runs
      <3>2. \A pass \in BOOLEAN : [of |-> Id(a), pass |-> pass] \in Reports
        BY <2>0 DEF Reports
      <3>3. Reusable(run.ip.of, run.screened, Id(a)) => run.ip.of = Id(a)
        BY DEF Reusable, Orderly, Sound, Latest
      <3>. HIDE DEF x
      <3>. QED BY <1>6, <3>1, <3>2, <3>3 DEF Screen, x
    <2>2. PICK report \in Reports :
            /\ report.of = Id(a)
            /\ \/ report = run.ip /\ Is(a, Judge(x, report))
               \/ Is(a, [x EXCEPT !.pc = "saveScreen", !.ip = report])
      BY <2>1
    <2>3. CASE report = run.ip /\ Is(a, Judge(x, report)) /\ report.pass
      <3>1. y = [x EXCEPT !.ip = report, !.pc = "offer"]
        BY <1>1, <2>3, Written DEF Judge
      <3>2. y.pc = "offer" /\ y.ip = report /\ y.opportunity = x.opportunity
        <4>. HIDE DEF x, y
        <4>. QED BY <1>2, <3>1 DEF Executions
      <3>3. report = [of |-> Id(a), pass |-> TRUE]
        BY <2>2, <2>3 DEF Reports
      <3>4. world.ip /\ wf.rank \in run.eligible /\ run.opportunities[wf.rank] = x.opportunity
            /\ run.selected = x.opportunity.id
        BY <1>2, <2>0 DEF Follows, SelectedPCs, Loaded, Selecting
      <3>5. y.ip = Report(y.opportunity.id) /\ run.ip = y.ip
        BY <2>0, <2>3, <3>2, <3>3, <3>4 DEF Report
      <3>. QED BY <3>2, <3>4, <3>5
           DEF Follows, SelectedPCs, Screened, Analysed, Loaded, Selecting, Offering, Drawing
    <2>4. CASE Is(a, Judge(x, report)) /\ ~ report.pass
      <3>1. y = Rejecting(x, "ip")
        BY <1>1, <2>4, Written DEF Judge
      <3>. QED BY <1>3, <2>0, <3>1 DEF Reasons, SelectedPCs, Loaded, Selecting
    <2>5. CASE Is(a, [x EXCEPT !.pc = "saveScreen", !.ip = report])
      <3>1. y = [x EXCEPT !.pc = "saveScreen", !.ip = report]
        BY <1>1, <2>5, Written
      <3>2. y.pc = "saveScreen" /\ y.ip = report /\ y.opportunity = x.opportunity
        <4>. HIDE DEF x, y
        <4>. QED BY <1>2, <3>1 DEF Executions
      <3>. QED BY <1>2, <2>0, <2>2, <3>2
           DEF Follows, SelectedPCs, Screened, Analysed, Loaded, Selecting, Offering, Drawing
    <2>. QED BY <2>2, <2>3, <2>4, <2>5
  <1>7. CASE Offer(a)
    <2>. DEFINE offer == Selected(ProductOf(x.opportunity))
    <2>1. /\ x.pc = "offer"
          /\ \/ \E reason \in Reasons : y = Rejecting(x, reason)
             \/ y = [x EXCEPT !.pc = "references", !.offer = offer]
      BY <1>7, OfferSteps
    <2>2. CASE y = [x EXCEPT !.pc = "references", !.offer = offer]
      <3>. HIDE DEF offer
      <3>1. Same(x, y) /\ y.pc = "references"
        <4>. HIDE DEF x, y
        <4>. QED BY <1>2, <2>2 DEF Same, Executions
      <3>. QED BY <1>2, <2>1, <3>1, FollowSame DEF Onwards, Passes
    <2>. QED BY <1>3, <2>1, <2>2 DEF SelectedPCs, Loaded, Selecting
  <1>8. CASE FetchReferences(a)
    <2>. DEFINE saved == store[Id(a)].refs
                missing == {i \in References : saved[i] = None}
                refs == [i \in References |-> IF i \in missing THEN pictures ELSE saved[i]]
    <2>1. x.pc = "references" /\ y = [x EXCEPT !.pc = "saveSheet", !.missing = missing, !.refs = refs]
      BY <1>1, <1>8, Written DEF FetchReferences, At
    <2>2. Same(x, y) /\ y.pc = "saveSheet"
      <3>. HIDE DEF x, y, missing, refs
      <3>. QED BY <1>2, <2>1 DEF Same, Executions
    <2>. QED BY <1>2, <2>1, <2>2, FollowSame DEF Onwards, Passes
  <1>9. CASE SaveSheet(a)
    <2>1. /\ x.pc = "saveSheet"
          /\ y = Rejecting(x, "replayed") \/ y = [x EXCEPT !.pc = "saveReference"]
      BY <1>1, <1>9, Written DEF SaveSheet, Reject, Goto, At
    <2>2. CASE y = [x EXCEPT !.pc = "saveReference"]
      <3>1. Same(x, y) /\ y.pc = "saveReference"
        <4>. HIDE DEF x, y
        <4>. QED BY <1>2, <2>2 DEF Same, Executions
      <3>. QED BY <1>2, <2>1, <3>1, FollowSame DEF Onwards, Passes
    <2>. QED BY <1>3, <2>1, <2>2 DEF Reasons, SelectedPCs, Loaded, Offering
  <1>10. CASE SaveReference(a)
    <2>1. /\ x.pc = "saveReference"
          /\ \/ y = Rejecting(x, "replayed") \/ y = [x EXCEPT !.pc = "analyse"]
             \/ \E i : y = [x EXCEPT !.missing = @ \ {i}]
      BY <1>1, <1>10, Written DEF SaveReference, Reject, Goto, At
    <2>2. CASE y = [x EXCEPT !.pc = "analyse"]
      <3>1. Same(x, y) /\ y.pc = "analyse"
        <4>. HIDE DEF x, y
        <4>. QED BY <1>2, <2>2 DEF Same, Executions
      <3>. QED BY <1>2, <2>1, <3>1, FollowSame DEF Onwards, Passes
    <2>3. ASSUME NEW i, y = [x EXCEPT !.missing = @ \ {i}]
          PROVE  Follows(y)
      <3>1. Same(x, y) /\ y.pc = "saveReference"
        <4>. HIDE DEF x, y
        <4>. QED BY <1>2, <2>1, <2>3 DEF Same, Executions
      <3>. QED BY <1>2, <2>1, <3>1, FollowSame DEF Onwards, Passes
    <2>. QED BY <1>3, <2>1, <2>2, <2>3 DEF Reasons, SelectedPCs, Loaded, Offering
  <1>11. CASE Analyse(a)
    <2>0. x.pc = "analyse" /\ x.opportunity.id = Id(a)
      BY <1>11 DEF Analyse, At, Id
    <2>1. \/ y = [x EXCEPT !.pc = "generate", !.analysis = run.analysis] /\ run.analysis = Id(a)
          \/ y = [x EXCEPT !.pc = "saveAnalysis", !.analysis = Id(a)]
      <3>1. Reusable(run.analysis, run.analysed, Id(a)) => run.analysis = Id(a)
        BY DEF Reusable, Orderly, Sound, Latest
      <3>. QED BY <1>1, <1>11, <3>1, Written DEF Analyse
    <2>2. /\ y.pc \in {"generate", "saveAnalysis"} /\ y.analysis = Id(a)
          /\ y.pc = "generate" => run.analysis = Id(a)
          /\ y.opportunity = x.opportunity /\ y.ip = x.ip
      <3>1. CASE y = [x EXCEPT !.pc = "generate", !.analysis = run.analysis] /\ run.analysis = Id(a)
        <4>. HIDE DEF x, y
        <4>. QED BY <1>2, <3>1 DEF Executions
      <3>2. CASE y = [x EXCEPT !.pc = "saveAnalysis", !.analysis = Id(a)]
        <4>. HIDE DEF x, y
        <4>. QED BY <1>2, <3>2 DEF Executions
      <3>. QED BY <2>1, <3>1, <3>2
    <2>. QED BY <1>2, <2>0, <2>2
         DEF Follows, SelectedPCs, Screened, Analysed, Loaded, Selecting, Offering, Drawing
  <1>12. CASE Draw(a)
    <2>. DEFINE s == Min(Surfaces(x.offer) \ DOMAIN x.art)
    <2>1. /\ x.pc = "draw"
          /\ \/ y = [x EXCEPT !.pc = IF world.originality THEN "review" ELSE "price"]
             \/ Drew(x, y, s, store[Id(a)].art[s], "draw")
             \/ Drew(x, y, s, bought[Id(a)][s] + 1, "saveArt")
             \/ y = Rejecting(x, "prepress")
      BY <1>12, DrawSteps
    <2>2. CASE y = [x EXCEPT !.pc = IF world.originality THEN "review" ELSE "price"]
      <3>1. Same(x, y) /\ y.pc = IF world.originality THEN "review" ELSE "price"
        <4>. HIDE DEF x, y
        <4>. QED BY <1>2, <2>2 DEF Same, Executions
      <3>. QED BY <1>2, <2>1, <3>1, FollowSame DEF Onwards, Passes
    <2>3. ASSUME NEW image, NEW pc \in {"draw", "saveArt"}, Drew(x, y, s, image, pc)
          PROVE  Follows(y)
      <3>. DEFINE art == Extended(x.art, s, image)
      <3>1. y = [x EXCEPT !.art = art, !.pc = pc]
        BY <2>3 DEF Drew
      <3>. HIDE DEF art
      <3>2. Same(x, y) /\ y.pc = pc
        <4>. HIDE DEF x, y
        <4>. QED BY <1>2, <3>1 DEF Same, Executions
      <3>. QED BY <1>2, <2>1, <3>2, FollowSame DEF Onwards, Passes
    <2>. QED BY <1>3, <2>1, <2>2, <2>3 DEF Reasons, SelectedPCs, Loaded, Drawing
  <1>13. CASE SaveArt(a)
    <2>1. /\ x.pc = "saveArt"
          /\ y = Rejecting(x, "replayed") \/ y = [x EXCEPT !.pc = "draw"]
      BY <1>1, <1>13, Written DEF SaveArt, Reject, Goto, At
    <2>2. CASE y = [x EXCEPT !.pc = "draw"]
      <3>1. Same(x, y) /\ y.pc = "draw"
        <4>. HIDE DEF x, y
        <4>. QED BY <1>2, <2>2 DEF Same, Executions
      <3>. QED BY <1>2, <2>1, <3>1, FollowSame DEF Onwards, Passes
    <2>. QED BY <1>3, <2>1, <2>2 DEF Reasons, SelectedPCs, Loaded, Drawing
  <1>14. CASE Review(a)
    <2>1. /\ x.pc = "review"
          /\ y = Rejecting(x, "originality") \/ y = [x EXCEPT !.pc = "price", !.reviewed = TRUE]
      BY <1>1, <1>14, Written DEF Review, Reject, At
    <2>2. CASE y = [x EXCEPT !.pc = "price", !.reviewed = TRUE]
      <3>1. y.opportunity = x.opportunity /\ y.ip = x.ip /\ y.analysis = x.analysis
            /\ y.reviewed = TRUE /\ y.pc = "price"
        <4>. HIDE DEF x, y
        <4>. QED BY <1>2, <2>2 DEF Executions
      <3>. QED BY <1>2, <2>1, <3>1
           DEF Follows, SelectedPCs, Screened, Analysed, Loaded, Selecting, Offering, Drawing
    <2>. QED BY <1>3, <2>1, <2>2 DEF Reasons, SelectedPCs, Loaded, Drawing
  <1>15. CASE Price(a)
    <2>1. /\ x.pc = "price"
          /\ (\E reason \in Reasons : y = Rejecting(x, reason)) \/ y = [x EXCEPT !.pc = "commit"]
      BY <1>15, PriceSteps
    <2>2. CASE y = [x EXCEPT !.pc = "commit"]
      <3>1. Same(x, y) /\ y.pc = "commit"
        <4>. HIDE DEF x, y
        <4>. QED BY <1>2, <2>2 DEF Same, Executions
      <3>. QED BY <1>2, <2>1, <3>1, FollowSame DEF Onwards, Passes
    <2>. QED BY <1>3, <2>1, <2>2 DEF SelectedPCs, Loaded, Drawing
  <1>16. CASE ServiceFails(a)
    <2>1. y = Rejecting(x, "provider") /\ x.pc \in SelectedPCs
      BY <1>16, FailureSteps DEF ServiceFails, Calling, At, SelectedPCs, Loaded, Selecting,
                                 Offering, Drawing
    <2>. QED BY <1>3, <2>1 DEF Reasons
  <1>17. CASE Interrupted(a)
    BY <1>2, <1>17, FollowEnds, InterruptedSteps
  <1>. QED BY <1>4, <1>5, <1>6, <1>7, <1>8, <1>9, <1>10, <1>11, <1>12, <1>13, <1>14, <1>15, <1>16,
              <1>17 DEF Quiet

\* An attempt of research, or one that ended, is bound to nothing.
LEMMA Unbound ==
    ASSUME NEW y, y.pc \notin Loaded \cup {"load"},
           y.pc = "done" /\ y.stage = "attempt" => y.result # "rejected"
    PROVE  Follows(y) /\ Follows(y)'
  BY DEF Follows, SelectedPCs, Screened, Analysed, Loaded, Selecting, Offering, Drawing

\* The steps of research are taken in the stages of research.
LEMMA ResearchFollows ==
    ASSUME Inv, Orderly, NEW a \in Attempts, Research(a), NEW y, y = att'[a]
    PROVE  /\ att[a].pc # "idle" /\ Moves(a) /\ wf' = wf
           /\ Follows(y) /\ Follows(y)'
           /\ wf.stage \in {"research", "resume"}
  <1>1. att[a].pc \in {"begin", "candidates", "rank"}
    BY DEF Research, BeginResearch, Candidate, Gather, StoreOpportunities, ResumeResearch, At
  <1>2. Moves(a) /\ y.stage = att[a].stage /\ AttInv'
    BY ResearchWorks
  <1>3. att[a].stage = wf.stage /\ att[a].stage \in {"research", "resume"}
    BY <1>1, Current DEF Progress
  <1>4. Working(att[a])'
    BY <1>2 DEF AttInv
  <1>5. y.pc \notin Loaded \cup {"load"}
    BY <1>2, <1>3, <1>4 DEF Working, Progress
  <1>6. wf' = wf
    BY DEF Research, BeginResearch, Candidate, Gather, StoreOpportunities, ResumeResearch
  <1>. QED BY <1>1, <1>2, <1>3, <1>5, <1>6, Unbound

\* Only the status of the run changes.
LEMMA StatusOnly ==
    ASSUME Inv, Orderly, NEW a \in Attempts, att[a].pc # "idle", Moves(a),
           world' = world, wf' = wf, released' = released, kept' = kept,
           NEW status, status # "publishing", run' = [run EXCEPT !.status = status],
           NEW y, y = att'[a], Follows(y)
    PROVE  Orderly'
  <1>1. SameRun /\ run'.status = status
    BY DEF Inv, RunInv, Runs, SameRun
  <1>2. Sound'
    BY <1>1, SoundStays DEF OnlyArt, Orderly
  <1>3. Past' /\ Untouched'
    BY <1>1 DEF Orderly, Path, Past, Untouched, SameRun
  <1>4. Ready' /\ Out'
    <2>1. released = NoPackage
      BY Current
    <2>. QED BY <1>1, <2>1 DEF Ready, Out
  <1>5. Contents'
    BY <1>1 DEF Orderly, Path, Contents, IsOwn, Report, SameRun
  <1>6. Follows(y)'
    BY <1>1 DEF Follows, Report, SameRun
  <1>7. Path'
    BY <1>3, <1>4, <1>5 DEF Path
  <1>. QED BY <1>2, <1>6, <1>7, Onward

(* Those steps keep everything orderly. *)
LEMMA QuietOrderly ==
    ASSUME Inv, Orderly, NEW a \in Attempts, Quiet(a)
    PROVE  Orderly'
  <1>1. /\ Moves(a) /\ world' = world /\ att[a].pc # "idle"
    BY PrepareWorks DEF Quiet, Prepare, Performs
  <1>2. run' = run /\ wf' = wf /\ released' = released
    <2>1. CASE Load(a) \/ Refresh(a) \/ Screen(a) \/ Offer(a) \/ FetchReferences(a) \/ SaveSheet(a)
      BY <2>1 DEF Load, Refresh, Screen, Offer, FetchReferences, SaveSheet
    <2>2. CASE SaveReference(a) \/ Analyse(a) \/ Draw(a) \/ SaveArt(a) \/ Review(a)
      BY <2>2 DEF SaveReference, Analyse, Draw, SaveArt, Review
    <2>3. CASE Price(a) \/ ServiceFails(a) \/ Interrupted(a)
      BY <2>3 DEF Price, ServiceFails, Interrupted
    <2>. QED BY <2>1, <2>2, <2>3 DEF Quiet
  <1>3. kept' = kept \/ SaveArt(a)
    <2>1. CASE Load(a) \/ Refresh(a) \/ Screen(a) \/ Offer(a) \/ FetchReferences(a) \/ SaveSheet(a)
      BY <2>1 DEF Load, Refresh, Screen, Offer, FetchReferences, SaveSheet
    <2>2. CASE SaveReference(a) \/ Analyse(a) \/ Draw(a) \/ Review(a)
      BY <2>2 DEF SaveReference, Analyse, Draw, Review
    <2>3. CASE Price(a) \/ ServiceFails(a) \/ Interrupted(a)
      BY <2>3 DEF Price, ServiceFails, Interrupted
    <2>. QED BY <2>1, <2>2, <2>3 DEF Quiet
  <1>4. OnlyArt /\ (wf.stage = "research" => kept' = kept)
    <2>1. CASE kept' = kept
      BY <2>1 DEF OnlyArt
    <2>2. CASE SaveArt(a)
      <3>. DEFINE s == Max(DOMAIN att[a].art)
      <3>1. att[a].pc = "saveArt"
        BY <2>2 DEF SaveArt, At
      <3>2. s \in AllSurfaces
        BY <3>1, SavedSurface
      <3>3. s \in Nat
        BY <3>2, OfferSurfaces DEF Inv, WorldInv
      <3>4. kept' = kept \/ kept' = kept \cup {<<Id(a), s>>}
        BY <2>2 DEF SaveArt, Keep
      <3>. HIDE DEF s
      <3>5. s # Screening /\ s # Analysis
        BY <3>3 DEF Screening, Analysis
      <3>6. OnlyArt
        BY <3>4, <3>5 DEF OnlyArt
      <3>7. att[a].stage = wf.stage /\ att[a].stage = "attempt"
        BY <3>1, Current DEF Progress, Loaded, Drawing
      <3>. QED BY <3>6, <3>7
    <2>. QED BY <1>3, <2>1, <2>2
  <1>5. Follows(att'[a])
    BY QuietFollows
  <1>6. PICK y : y = att'[a]
    OBVIOUS
  <1>. QED BY <1>1, <1>2, <1>4, <1>5, <1>6, Quietly

\* The steps of research but the last.
LEMMA ResearchOrderly ==
    ASSUME Inv, Orderly, NEW a \in Attempts,
           BeginResearch(a) \/ Candidate(a) \/ Gather(a) \/ ResumeResearch(a)
    PROVE  Orderly'
  <1>1. PICK y : y = att'[a]
    OBVIOUS
  <1>2. /\ att[a].pc # "idle" /\ Moves(a) /\ wf' = wf /\ Follows(y)
    BY <1>1, ResearchFollows DEF Research
  <1>3. world' = world /\ released' = released /\ kept' = kept
    BY DEF BeginResearch, Candidate, Gather, ResumeResearch
  <1>4. \/ run' = run
        \/ \E status \in {"researching", "ranking"} : run' = [run EXCEPT !.status = status]
    BY DEF BeginResearch, Candidate, Gather, ResumeResearch
  <1>5. CASE run' = run
    BY <1>1, <1>2, <1>3, <1>5, Quietly DEF OnlyArt
  <1>6. ASSUME NEW status \in {"researching", "ranking"}, run' = [run EXCEPT !.status = status]
        PROVE  Orderly'
    BY <1>1, <1>2, <1>3, <1>6, StatusOnly
  <1>. QED BY <1>4, <1>5, <1>6

\* Once there are surfaces to draw.
LEMMA GenerateOrderly ==
    ASSUME Inv, Orderly, NEW a \in Attempts, Generate(a)
    PROVE  Orderly'
  <1>. DEFINE x == att[a]
  <1>0. PICK y : y = att'[a]
    OBVIOUS
  <1>1. Moves(a) /\ x.pc = "generate"
    BY PrepareWorks DEF Prepare, Performs, Generate, At
  <1>2. world' = world /\ wf' = wf /\ released' = released /\ kept' = kept
    BY DEF Generate
  <1>3. x \in Executions /\ Follows(x)
    BY <1>1, Current
  <1>4. \/ run' = run /\ y = Rejecting(x, "surfaces")
        \/ run' = [run EXCEPT !.status = "generating"] /\ y = [x EXCEPT !.pc = "draw"]
    BY <1>0, Written DEF Generate, Reject, Goto, Inv
  <1>5. CASE run' = run /\ y = Rejecting(x, "surfaces")
    <2>1. Follows(y)
      BY <1>1, <1>3, <1>5, FollowEnds DEF Reasons, SelectedPCs, Loaded, Offering
    <2>. QED BY <1>0, <1>1, <1>2, <1>5, <2>1, Quietly DEF OnlyArt
  <1>6. CASE run' = [run EXCEPT !.status = "generating"] /\ y = [x EXCEPT !.pc = "draw"]
    <2>1. Same(x, y) /\ y.pc = "draw"
      <3>. HIDE DEF x
      <3>. QED BY <1>3, <1>6 DEF Same, Executions
    <2>2. Follows(y)
      BY <1>1, <1>3, <2>1, FollowSame DEF Onwards, Passes
    <2>. QED BY <1>0, <1>1, <1>2, <1>6, <2>2, StatusOnly
  <1>. QED BY <1>4, <1>5, <1>6

\* The opportunity of an attempt that goes on is the one the workflow is at.
LEMMA Bound ==
    ASSUME Inv, Orderly, NEW a \in Attempts, att[a].pc \in Loaded
    PROVE  /\ wf.stage = "attempt" /\ released = NoPackage
           /\ wf.rank \in run.eligible /\ wf.rank \in DOMAIN run.opportunities /\ wf.rank \in Nat
           /\ run.opportunities[wf.rank] = att[a].opportunity
           /\ RowsOf(Id(a)) = {wf.rank} /\ First(Id(a))
           /\ att[a].pc \in SelectedPCs => run.selected = Id(a)
           /\ Id(a) \in Ids /\ Id(a) # None
  <1>. DEFINE x == att[a]
  <1>1. x.pc # "idle"
    BY DEF Loaded, Selecting, Offering, Drawing
  <1>2. /\ wf.stage = "attempt" /\ released = NoPackage /\ Follows(x)
    BY <1>1, Current DEF Progress
  <1>3. /\ wf.rank \in run.eligible /\ run.opportunities[wf.rank] = x.opportunity
        /\ x.pc \in SelectedPCs => run.selected = Id(a)
    BY <1>2 DEF Follows, Id
  <1>4. /\ wf.rank \in DOMAIN run.opportunities
        /\ \A m, n \in DOMAIN run.opportunities :
              run.opportunities[m].id = run.opportunities[n].id => m = n
    BY <1>3 DEF Inv, RunInv, IsTableOfRows
  <1>5. RowsOf(Id(a)) = {wf.rank}
    BY <1>3, <1>4 DEF RowsOf, Id
  <1>6. wf.rank \in Nat
    BY OpportunitiesAssumption DEF Inv, WfInv, Workflows, Ranks
  <1>7. First(Id(a))
    BY <1>2, <1>3 DEF First, Orderly, Path, Past, Id
  <1>8. Id(a) \in Ids /\ None \notin Ids
    BY LoadedId, RowsFacts DEF Inv, WorldInv
  <1>. QED BY <1>2, <1>3, <1>4, <1>5, <1>6, <1>7, <1>8

\* Two opportunities cannot both be the first.
LEMMA OneFirst ==
    ASSUME Inv, NEW o, First(o), NEW p, First(p)
    PROVE  o = p
  <1>1. run.eligible \subseteq Nat
    BY OpportunitiesAssumption DEF Inv, RunInv, Runs, Ranks
  <1>2. PICK m \in run.eligible : /\ run.opportunities[m].id = o
                                  /\ \A i \in 1..(m - 1) : i \notin run.eligible
    BY DEF First
  <1>3. PICK n \in run.eligible : /\ run.opportunities[n].id = p
                                  /\ \A i \in 1..(n - 1) : i \notin run.eligible
    BY DEF First
  <1>4. m \in Nat \ {0} /\ n \in Nat \ {0}
    BY OpportunitiesAssumption DEF Inv, RunInv, Runs, Ranks
  <1>5. m = n
    BY <1>2, <1>3, <1>4
  <1>. QED BY <1>2, <1>3, <1>5

\* What goes on while the ranking and the choice stay.
SameChoice ==
    /\ run'.opportunities = run.opportunities /\ run'.eligible = run.eligible
    /\ run'.selected = run.selected /\ run'.package = run.package /\ run'.status = run.status

(* The invariant of the workflow and the run survives a step on the same    *)
(* choice of opportunity.                                                   *)
LEMMA PathGoes ==
    ASSUME Path, wf.stage = "attempt", wf' = wf, world' = world, released' = released, SameChoice
    PROVE  Path'
  <1>1. Past' /\ Untouched'
    BY DEF Path, Past, Untouched, SameChoice
  <1>2. Ready' /\ Out'
    BY DEF Path, Ready, Out, SameChoice
  <1>3. Contents'
    BY DEF Path, Contents, IsOwn, Report, SameChoice
  <1>. QED BY <1>1, <1>2, <1>3 DEF Path

(* Storing a screening keeps everything orderly. *)
LEMMA SaveScreenOrderly ==
    ASSUME Inv, Orderly, NEW a \in Attempts, SaveScreen(a)
    PROVE  Orderly'
  <1>. DEFINE x == att[a]
              o == Id(a)
              report == x.ip
  <1>0. PICK y : y = att'[a]
    OBVIOUS
  <1>1. Moves(a) /\ x.pc = "saveScreen" /\ x.pc # "idle" /\ x.pc \in Loaded /\ x.pc \in SelectedPCs
    BY PrepareWorks DEF Prepare, Performs, SaveScreen, At, SelectedPCs, Loaded, Selecting
  <1>2. world' = world /\ wf' = wf /\ released' = released /\ kept' = kept \cup {<<o, Screening>>}
        /\ run' = [run EXCEPT !.ip = report, !.screened = o]
    BY DEF SaveScreen, Keep
  <1>3. /\ x \in Executions /\ Follows(x) /\ wf.stage = "attempt" /\ run.selected = o
        /\ world.ip /\ report.of = o /\ x.opportunity.id = o
        /\ wf.rank \in run.eligible /\ run.opportunities[wf.rank] = x.opportunity
    BY <1>1, Current, Bound DEF Follows, Id
  <1>4. SameChoice /\ run'.ip = report /\ run'.screened = o
        /\ run'.analysis = run.analysis /\ run'.analysed = run.analysed
    <2>1. DOMAIN run = {"status", "opportunities", "eligible", "reason", "selected", "ip", "screened",
                      "analysis", "analysed", "package", "approved"}
      BY DEF Inv, RunInv, Runs
    <2>. HIDE DEF o, report
    <2>. QED BY <1>2, <2>1 DEF SameChoice
  <1>5. Path'
    BY <1>2, <1>3, <1>4, PathGoes DEF Orderly
  <1>6. Ids' = Ids
    BY <1>2, Fixed
  <1>7. \A p : (Gone(p)' <=> Gone(p)) /\ (First(p)' <=> First(p))
    BY <1>4 DEF RowsOf, Gone, First, SameChoice
  <1>8. Latest' /\ Chosen'
    <2>1. First(run.selected)'
      BY <1>1, <1>3, <1>4, <1>7, Bound DEF SameChoice, First
    <2>. QED BY <1>3, <1>4, <2>1 DEF Orderly, Sound, Latest, Chosen, SameChoice
  <1>9. Screens'
    <2>1. \A p \in Ids : <<p, Screening>> \in kept' => <<p, Screening>> \in kept \/ p = o
      BY <1>2
    <2>. QED BY <1>2, <1>3, <1>4, <1>6, <1>7, <2>1 DEF Orderly, Sound, Screens, SameChoice
  <1>10. Analyses'
    <2>1. \A p \in Ids : <<p, Analysis>> \in kept' => <<p, Analysis>> \in kept
      BY <1>2 DEF Screening, Analysis
    <2>. QED BY <1>4, <1>6, <1>7, <2>1 DEF Orderly, Sound, Analyses, SameChoice
  <1>11. Follows(y)'
    <2>1. \/ y = Rejecting(x, "ip")
          \/ report.pass /\ y = [x EXCEPT !.ip = report, !.pc = "offer"]
      BY <1>0, Written DEF SaveScreen, Judge, Inv
    <2>2. \/ y.pc = "reject"
          \/ y.pc = "offer" /\ y.ip = report /\ report.pass
      <3>. HIDE DEF x, report
      <3>. QED BY <1>3, <2>1 DEF Rejecting, Executions
    <2>3. y.opportunity = x.opportunity
      <3>. HIDE DEF x, report
      <3>. QED BY <1>3, <2>1 DEF Rejecting, Executions
    <2>4. report.pass => report = [of |-> o, pass |-> TRUE]
      <3>1. report \in Reports
        BY <1>3 DEF Executions
      <3>. QED BY <1>3, <3>1 DEF Reports
    <2>5. /\ wf'.rank \in run'.eligible /\ run'.opportunities[wf'.rank] = y.opportunity
          /\ run'.selected = y.opportunity.id /\ world'.ip
      BY <1>2, <1>3, <1>4, <2>3 DEF SameChoice
    <2>6. y.pc = "offer" => y.ip = Report(y.opportunity.id)' /\ run'.ip = y.ip
      BY <1>2, <1>3, <1>4, <2>2, <2>3, <2>4 DEF Report
    <2>. HIDE DEF x, report, o
    <2>. QED BY <2>2, <2>5, <2>6
         DEF Follows, SelectedPCs, Screened, Analysed, Loaded, Selecting, Offering, Drawing
  <1>12. Sound'
    BY <1>8, <1>9, <1>10 DEF Sound
  <1>. QED BY <1>0, <1>1, <1>2, <1>5, <1>11, <1>12, Onward

(* Storing an analysis keeps everything orderly. *)
LEMMA SaveAnalysisOrderly ==
    ASSUME Inv, Orderly, NEW a \in Attempts, SaveAnalysis(a)
    PROVE  Orderly'
  <1>. DEFINE x == att[a]
              o == Id(a)
  <1>0. PICK y : y = att'[a]
    OBVIOUS
  <1>1. Moves(a) /\ x.pc = "saveAnalysis" /\ x.pc # "idle" /\ x.pc \in Loaded
        /\ x.pc \in SelectedPCs /\ x.pc \in Screened
    BY PrepareWorks DEF Prepare, Performs, SaveAnalysis, At, Screened, SelectedPCs, Loaded, Offering
  <1>2. world' = world /\ wf' = wf /\ released' = released /\ kept' = kept \cup {<<o, Analysis>>}
        /\ run' = [run EXCEPT !.analysis = o, !.analysed = o]
    BY DEF SaveAnalysis, Keep
  <1>3. /\ x \in Executions /\ Follows(x) /\ wf.stage = "attempt" /\ run.selected = o
        /\ x.opportunity.id = o /\ x.analysis = o
        /\ wf.rank \in run.eligible /\ run.opportunities[wf.rank] = x.opportunity
        /\ x.ip = Report(o) /\ (world.ip => run.ip = x.ip)
    BY <1>1, Current, Bound DEF Follows, Id, Analysed
  <1>4. SameChoice /\ run'.ip = run.ip /\ run'.screened = run.screened
        /\ run'.analysis = o /\ run'.analysed = o
    <2>1. DOMAIN run = {"status", "opportunities", "eligible", "reason", "selected", "ip", "screened",
                      "analysis", "analysed", "package", "approved"}
      BY DEF Inv, RunInv, Runs
    <2>. HIDE DEF o
    <2>. QED BY <1>2, <2>1 DEF SameChoice
  <1>5. Path'
    BY <1>2, <1>3, <1>4, PathGoes DEF Orderly
  <1>6. Ids' = Ids
    BY <1>2, Fixed
  <1>7. \A p : (Gone(p)' <=> Gone(p)) /\ (First(p)' <=> First(p))
    BY <1>4 DEF RowsOf, Gone, First, SameChoice
  <1>8. Latest' /\ Chosen'
    <2>1. First(run.selected)'
      BY <1>1, <1>3, <1>4, <1>7, Bound DEF SameChoice, First
    <2>. QED BY <1>3, <1>4, <2>1 DEF Orderly, Sound, Latest, Chosen, SameChoice
  <1>9. Screens'
    <2>1. \A p \in Ids : <<p, Screening>> \in kept' => <<p, Screening>> \in kept
      BY <1>2 DEF Screening, Analysis
    <2>. QED BY <1>2, <1>4, <1>6, <1>7, <2>1 DEF Orderly, Sound, Screens, SameChoice
  <1>10. Analyses'
    <2>1. \A p \in Ids : <<p, Analysis>> \in kept' => <<p, Analysis>> \in kept \/ p = o
      BY <1>2
    <2>. QED BY <1>3, <1>4, <1>6, <1>7, <2>1 DEF Orderly, Sound, Analyses, SameChoice
  <1>11. Follows(y)'
    <2>1. y = [x EXCEPT !.pc = "generate"]
      BY <1>0, Written DEF SaveAnalysis, Goto, Inv
    <2>2. y.pc = "generate" /\ y.opportunity = x.opportunity /\ y.ip = x.ip /\ y.analysis = x.analysis
      <3>. HIDE DEF x
      <3>. QED BY <1>3, <2>1 DEF Executions
    <2>3. /\ wf'.rank \in run'.eligible /\ run'.opportunities[wf'.rank] = y.opportunity
          /\ run'.selected = y.opportunity.id /\ run'.analysis = y.opportunity.id
          /\ y.analysis = y.opportunity.id
      BY <1>2, <1>3, <1>4, <2>2 DEF SameChoice
    <2>4. y.ip = Report(y.opportunity.id)' /\ (world'.ip => run'.ip = y.ip)
      BY <1>2, <1>3, <1>4, <2>2 DEF Report
    <2>. HIDE DEF x, o
    <2>. QED BY <2>2, <2>3, <2>4
         DEF Follows, SelectedPCs, Screened, Analysed, Loaded, Selecting, Offering, Drawing
  <1>12. Sound'
    BY <1>8, <1>9, <1>10 DEF Sound
  <1>. QED BY <1>0, <1>1, <1>2, <1>5, <1>11, <1>12, Onward

(* Storing a package keeps everything orderly: all its parts are of its     *)
(* opportunity.                                                             *)
LEMMA CommitOrderly ==
    ASSUME Inv, Orderly, NEW a \in Attempts, Commit(a)
    PROVE  Orderly'
  <1>. DEFINE x == att[a]
              o == Id(a)
              package == Package(a)
              report == x.ip
              analysis == x.analysis
  <1>0. PICK y : y = att'[a]
    OBVIOUS
  <1>1. Moves(a) /\ x.pc = "commit" /\ x.pc # "idle" /\ x.pc \in Loaded
        /\ x.pc \in SelectedPCs /\ x.pc \in Screened /\ x.pc \in Analysed \ {"saveAnalysis"}
    BY CommitSteps DEF Analysed, Screened, SelectedPCs, Loaded, Drawing
  <1>2. world' = world /\ wf' = wf /\ released' = released /\ kept' = kept
        /\ run' = [run EXCEPT !.selected = o, !.ip = report, !.analysis = analysis,
                              !.package = package, !.approved = TRUE, !.status = "publishing"]
    BY DEF Commit
  <1>3. /\ x \in Executions /\ Follows(x) /\ wf.stage = "attempt" /\ run.selected = o
        /\ x.opportunity.id = o /\ analysis = o /\ run.analysis = o
        /\ wf.rank \in run.eligible /\ run.opportunities[wf.rank] = x.opportunity
        /\ report = Report(o) /\ (world.ip => run.ip = report)
        /\ world.originality => x.reviewed
        /\ released = NoPackage /\ o \in Ids
    BY <1>1, Current, Bound DEF Follows, Id
  <1>4. /\ run'.opportunities = run.opportunities /\ run'.eligible = run.eligible
        /\ run'.selected = run.selected /\ run'.screened = run.screened
        /\ run'.analysis = run.analysis /\ run'.analysed = run.analysed
        /\ run'.ip = report /\ run'.package = package /\ run'.status = "publishing"
    <2>1. DOMAIN run = {"status", "opportunities", "eligible", "reason", "selected", "ip", "screened",
                      "analysis", "analysed", "package", "approved"}
      BY DEF Inv, RunInv, Runs
    <2>2. run.selected = o /\ run.analysis = analysis
      BY <1>3
    <2>. HIDE DEF o, report, analysis, package
    <2>. QED BY <1>2, <2>1, <2>2
  <1>5. ~ world.ip => report.of = None
    BY <1>3 DEF Report, NoReport
  <1>6. Ids' = Ids
    BY <1>2, Fixed
  <1>7. \A p : (Gone(p)' <=> Gone(p)) /\ (First(p)' <=> First(p))
    BY <1>4 DEF RowsOf, Gone, First
  <1>8. Latest' /\ Chosen'
    <2>1. First(run.selected)'
      BY <1>1, <1>3, <1>4, <1>7, Bound DEF First
    <2>2. report.of # None => run.ip = report
      BY <1>3, <1>5
    <2>. QED BY <1>3, <1>4, <1>5, <2>1, <2>2 DEF Orderly, Sound, Latest, Chosen
  <1>9. Screens'
    BY <1>2, <1>3, <1>4, <1>6, <1>7 DEF Orderly, Sound, Screens
  <1>10. Analyses'
    BY <1>2, <1>4, <1>6, <1>7 DEF Orderly, Sound, Analyses
  <1>11. package # NoPackage /\ IsOwn(package) /\ package.opportunity.id = o
    <2>1. package \in Packages
      BY <1>1, PackageType
    <2>2. package # NoPackage
      BY <2>1, RowsFacts DEF Inv, WorldInv
    <2>3. package.opportunity = x.opportunity /\ package.analysis = analysis /\ package.ip = report
          /\ package.reviewed = x.reviewed
      BY DEF Package
    <2>. HIDE DEF package
    <2>. QED BY <1>3, <2>2, <2>3 DEF IsOwn
  <1>12. Path'
    <2>1. Past' /\ Untouched'
      BY <1>2, <1>3, <1>4 DEF Orderly, Path, Past, Untouched
    <2>2. Ready' /\ Out'
      BY <1>2, <1>3, <1>4, <1>11 DEF Ready, Out
    <2>3. Contents'
      <3>1. PICK p : p = package
        OBVIOUS
      <3>2. run'.package = p /\ IsOwn(p)
        BY <1>4, <1>11, <3>1
      <3>3. IsOwn(p)'
        BY <1>2, <3>2 DEF IsOwn, Report
      <3>. QED BY <1>2, <1>3, <3>2, <3>3 DEF Contents, IsOwn, Report
    <2>. QED BY <2>1, <2>2, <2>3 DEF Path
  <1>13. Follows(y)'
    <2>1. y = Done(x, "ready")
      BY <1>0, CommitSteps
    <2>2. y.pc = "done" /\ y.result = "ready"
      <3>. HIDE DEF x
      <3>. QED BY <1>3, <2>1 DEF Done, Executions
    <2>. QED BY <2>2, Unbound DEF Loaded, Selecting, Offering, Drawing
  <1>14. Sound'
    BY <1>8, <1>9, <1>10 DEF Sound
  <1>. QED BY <1>0, <1>1, <1>2, <1>12, <1>13, <1>14, Onward

(* Selecting an opportunity keeps everything orderly: another one loses what*)
(* was stored for the last.                                                 *)
LEMMA SelectOrderly ==
    ASSUME Inv, Orderly, NEW a \in Attempts, Select(a)
    PROVE  Orderly'
  <1>. DEFINE x == att[a]
              o == Id(a)
              again == run.selected = o
              ip == IF again /\ world.ip THEN run.ip ELSE NoReport
              analysis == IF again THEN run.analysis ELSE None
              package == IF again THEN run.package ELSE NoPackage
  <1>0. PICK y : y = att'[a]
    OBVIOUS
  <1>1. Moves(a) /\ x.pc = "select" /\ x.pc # "idle" /\ x.pc \in Loaded
    BY PrepareWorks DEF Prepare, Performs, Select, At, Loaded
  <1>2. world' = world /\ wf' = wf /\ released' = released /\ kept' = kept
    BY DEF Select
  <1>3. /\ x \in Executions /\ Follows(x) /\ wf.stage = "attempt" /\ x.ip = NoReport
        /\ x.opportunity.id = o /\ RowsOf(o) = {wf.rank} /\ First(o)
        /\ wf.rank \in run.eligible /\ run.opportunities[wf.rank] = x.opportunity
        /\ released = NoPackage /\ o \in Ids
    BY <1>1, Current, Bound DEF Follows, Id
  <1>4. /\ run'.opportunities = run.opportunities /\ run'.eligible = run.eligible
        /\ run'.selected = o /\ run'.screened = run.screened /\ run'.analysed = run.analysed
        /\ run'.analysis = analysis /\ run'.ip = ip /\ run'.package = package
        /\ run'.status = "screening"
    <2>1. DOMAIN run = {"status", "opportunities", "eligible", "reason", "selected", "ip", "screened",
                      "analysis", "analysed", "package", "approved"}
      BY DEF Inv, RunInv, Runs
    <2>. DEFINE r == SelectOpportunity(o)
                report == IF again THEN run.ip ELSE NoReport
                eligible == run.eligible \cup RowsOf(o)
                reasons == [n \in DOMAIN run.reason |->
                              IF n \notin RowsOf(o) /\ run.reason[n] = "" THEN "lower ranked"
                              ELSE run.reason[n]]
    <2>2. r = [run EXCEPT !.selected = o, !.ip = report, !.analysis = analysis, !.package = package,
                          !.eligible = eligible, !.reason = reasons]
      BY DEF SelectOpportunity
    <2>3. run' = [r EXCEPT !.status = "screening", !.ip = IF world.ip THEN @ ELSE NoReport]
      BY DEF Select
    <2>4. eligible = run.eligible
      BY <1>3
    <2>5. ip = IF world.ip THEN report ELSE NoReport
      OBVIOUS
    <2>. HIDE DEF o, r, report, eligible, reasons, analysis, package, ip
    <2>6. /\ r.opportunities = run.opportunities /\ r.eligible = eligible /\ r.selected = o
          /\ r.screened = run.screened /\ r.analysed = run.analysed /\ r.analysis = analysis
          /\ r.ip = report /\ r.package = package /\ DOMAIN r = DOMAIN run
      BY <2>1, <2>2
    <2>. QED BY <2>1, <2>3, <2>4, <2>5, <2>6
  <1>5. \A p \in Ids : run.selected = p => p = o
    <2>. TAKE p \in Ids
    <2>1. None \notin Ids
      BY RowsFacts DEF Inv, WorldInv
    <2>2. run.selected = p => First(p)
      BY <2>1 DEF Orderly, Sound, Chosen
    <2>. QED BY <1>3, <2>2, OneFirst
  <1>6. Ids' = Ids
    BY <1>2, Fixed
  <1>7. \A p : (Gone(p)' <=> Gone(p)) /\ (First(p)' <=> First(p))
    BY <1>4 DEF RowsOf, Gone, First
  <1>8. Latest' /\ Chosen'
    <2>1. First(run.selected)'
      BY <1>3, <1>4, <1>7 DEF First
    <2>2. ip.of # None => ip = run.ip
      BY DEF NoReport
    <2>3. Latest'
      BY <1>4, <2>2 DEF Orderly, Sound, Latest
    <2>4. again /\ o # None => run.ip.of \in {None, o} /\ run.analysis \in {None, o}
      BY DEF Orderly, Sound, Chosen
    <2>5. ip.of \in {None, o} /\ analysis \in {None, o}
      <3>1. o # None
        BY <1>3, RowsFacts DEF Inv, WorldInv
      <3>. QED BY <2>4, <3>1 DEF NoReport
    <2>. QED BY <1>4, <2>1, <2>3, <2>5 DEF Chosen
  <1>9. Screens'
    <2>. SUFFICES ASSUME NEW p \in Ids, <<p, Screening>> \in kept
                  PROVE  world.ip /\ (Gone(p) \/ (o = p /\ ip.of = p))
      BY <1>2, <1>4, <1>6, <1>7 DEF Screens
    <2>1. world.ip /\ (Gone(p) \/ (run.selected = p /\ run.ip.of = p))
      BY DEF Orderly, Sound, Screens
    <2>. QED BY <1>5, <2>1
  <1>10. Analyses'
    <2>. SUFFICES ASSUME NEW p \in Ids, <<p, Analysis>> \in kept
                  PROVE  Gone(p) \/ (o = p /\ analysis = p)
      BY <1>2, <1>4, <1>6, <1>7 DEF Analyses
    <2>1. Gone(p) \/ (run.selected = p /\ run.analysis = p)
      BY DEF Orderly, Sound, Analyses
    <2>. QED BY <1>5, <2>1
  <1>11. Path'
    <2>1. Past' /\ Untouched'
      BY <1>2, <1>3, <1>4 DEF Orderly, Path, Past, Untouched
    <2>2. Ready' /\ Out'
      BY <1>2, <1>3, <1>4 DEF Ready, Out
    <2>3. Contents'
      <3>1. PICK p : p = package
        OBVIOUS
      <3>2. run'.package = p /\ (p # NoPackage => p = run.package)
        BY <1>4, <3>1
      <3>3. p # NoPackage => IsOwn(p)
        BY <3>2 DEF Orderly, Path, Contents
      <3>4. p # NoPackage => IsOwn(p)'
        BY <1>2, <3>3 DEF IsOwn, Report
      <3>. QED BY <1>2, <1>3, <3>2, <3>4 DEF Contents, IsOwn, Report
    <2>. QED BY <2>1, <2>2, <2>3 DEF Path
  <1>12. Follows(y)'
    <2>1. y = [x EXCEPT !.pc = "refresh"]
      BY <1>0, Written DEF Select, Goto, Inv
    <2>2. y.pc = "refresh" /\ y.opportunity = x.opportunity /\ y.ip = NoReport
      <3>. HIDE DEF x
      <3>. QED BY <1>3, <2>1 DEF Executions
    <2>3. /\ wf'.rank \in run'.eligible /\ run'.opportunities[wf'.rank] = y.opportunity
          /\ run'.selected = y.opportunity.id
      BY <1>2, <1>3, <1>4, <2>2
    <2>. HIDE DEF x, o
    <2>. QED BY <2>2, <2>3
         DEF Follows, SelectedPCs, Screened, Analysed, Loaded, Selecting, Offering, Drawing
  <1>13. Sound'
    BY <1>8, <1>9, <1>10 DEF Sound
  <1>. QED BY <1>0, <1>1, <1>2, <1>11, <1>12, <1>13, Onward

\* What rejecting the selected opportunity leaves.
LEMMA Rejection ==
    ASSUME Inv, Sound, world' = world, kept' = kept, NEW o, o = run.selected, NEW reason,
           run' = Rejected(o, reason)
    PROVE  /\ Sound'
           /\ run'.opportunities = run.opportunities /\ run'.eligible = run.eligible \ RowsOf(o)
           /\ run'.selected = None /\ run'.package = run.package /\ run'.status = "ranking"
  <1>. DEFINE eligible == run.eligible \ RowsOf(o)
              reasons == [n \in DOMAIN run.reason |-> IF n \in RowsOf(o) THEN reason ELSE run.reason[n]]
  <1>1. run' = [run EXCEPT !.eligible = eligible, !.reason = reasons, !.selected = None,
                           !.status = "ranking"]
    BY DEF Rejected
  <1>2. DOMAIN run = {"status", "opportunities", "eligible", "reason", "selected", "ip", "screened",
                      "analysis", "analysed", "package", "approved"}
    BY DEF Inv, RunInv, Runs
  <1>3. /\ run'.opportunities = run.opportunities /\ run'.eligible = eligible
        /\ run'.selected = None /\ run'.package = run.package /\ run'.status = "ranking"
        /\ run'.ip = run.ip /\ run'.screened = run.screened
        /\ run'.analysis = run.analysis /\ run'.analysed = run.analysed
    <2>. HIDE DEF eligible, reasons
    <2>. QED BY <1>1, <1>2
  <1>4. \A p : RowsOf(p)' = RowsOf(p)
    BY <1>3 DEF RowsOf
  <1>5. \A p : Gone(p) \/ p = o => Gone(p)'
    BY <1>3, <1>4 DEF Gone
  <1>6. Ids' = Ids
    BY Fixed
  <1>7. Latest' /\ Chosen'
    BY <1>3 DEF Sound, Latest, Chosen
  <1>8. Screens' /\ Analyses'
    BY <1>5, <1>6 DEF Sound, Screens, Analyses
  <1>. QED BY <1>3, <1>7, <1>8 DEF Sound

(* Rejecting an opportunity keeps everything orderly: it is behind the      *)
(* workflow.                                                                *)
LEMMA RejectOrderly ==
    ASSUME Inv, Orderly, NEW a \in Attempts, RejectOpportunity(a)
    PROVE  Orderly'
  <1>. DEFINE x == att[a]
              o == Id(a)
  <1>0. PICK y : y = att'[a]
    OBVIOUS
  <1>1. Moves(a) /\ x.pc = "reject" /\ x.pc # "idle" /\ x.pc \in Loaded /\ x.pc \in SelectedPCs
    BY RejectSteps DEF SelectedPCs, Loaded, Selecting
  <1>2. world' = world /\ wf' = wf /\ released' = released /\ kept' = kept
        /\ run' = Rejected(o, x.reason)
    BY DEF RejectOpportunity
  <1>3. /\ x \in Executions /\ wf.stage = "attempt" /\ run.selected = o
        /\ RowsOf(o) = {wf.rank} /\ released = NoPackage
    BY <1>1, Current, Bound
  <1>4. /\ Sound'
        /\ run'.opportunities = run.opportunities /\ run'.eligible = run.eligible \ {wf.rank}
        /\ run'.selected = None /\ run'.package = run.package /\ run'.status = "ranking"
    BY <1>2, <1>3, Rejection DEF Orderly
  <1>5. Path'
    <2>1. Past' /\ Untouched'
      BY <1>2, <1>3, <1>4 DEF Orderly, Path, Past, Untouched
    <2>2. Ready' /\ Out'
      BY <1>2, <1>3, <1>4 DEF Ready, Out
    <2>3. Contents'
      BY <1>2, <1>4 DEF Orderly, Path, Contents, IsOwn, Report
    <2>. QED BY <2>1, <2>2, <2>3 DEF Path
  <1>6. Follows(y)'
    <2>1. y = Done(x, "rejected")
      BY <1>0, RejectSteps
    <2>2. y.pc = "done"
      <3>. HIDE DEF x
      <3>. QED BY <1>3, <2>1 DEF Done, Executions
    <2>3. wf'.rank \notin run'.eligible
      BY <1>2, <1>4
    <2>. QED BY <2>2, <2>3 DEF Follows, SelectedPCs, Screened, Analysed, Loaded, Selecting,
                Offering,
                               Drawing
  <1>. QED BY <1>0, <1>1, <1>2, <1>4, <1>5, <1>6, Onward

(* Storing the opportunities keeps everything orderly: nothing was screened *)
(* or analysed before.                                                      *)
LEMMA StoreOrderly ==
    ASSUME Inv, Orderly, NEW a \in Attempts, StoreOpportunities(a)
    PROVE  Orderly'
  <1>. DEFINE found == Researched(att[a].found)
              reasons == [n \in DOMAIN found |-> ""]
              status == IF found = <<>> THEN "no_qualified_opportunity" ELSE "ranking"
  <1>0. PICK y : y = att'[a]
    OBVIOUS
  <1>1. /\ att[a].pc # "idle" /\ Moves(a) /\ wf' = wf /\ Follows(y) /\ Follows(y)'
        /\ wf.stage = "research"
    <2>1. att[a].pc = "rank"
      BY DEF StoreOpportunities, At
    <2>2. att[a].stage = wf.stage /\ att[a].stage = "research"
      BY <2>1, Current DEF Progress
    <2>. QED BY <1>0, <2>2, ResearchFollows DEF Research
  <1>2. world' = world /\ released' = released /\ kept' = kept
    BY DEF StoreOpportunities
  <1>3. \/ run' = run
        \/ run' = [run EXCEPT !.opportunities = found, !.eligible = DOMAIN found,
                              !.reason = reasons, !.status = status]
    BY DEF StoreOpportunities
  <1>4. CASE run' = run
    BY <1>0, <1>1, <1>2, <1>4, Quietly DEF OnlyArt
  <1>5. CASE run' = [run EXCEPT !.opportunities = found, !.eligible = DOMAIN found,
                                !.reason = reasons, !.status = status]
    <2>1. /\ run'.selected = run.selected /\ run'.ip = run.ip /\ run'.screened = run.screened
          /\ run'.analysis = run.analysis /\ run'.analysed = run.analysed
          /\ run'.package = run.package /\ run'.status = status
      <3>1. DOMAIN run = {"status", "opportunities", "eligible", "reason", "selected", "ip",
                          "screened", "analysis", "analysed", "package", "approved"}
        BY DEF Inv, RunInv, Runs
      <3>. HIDE DEF found, reasons, status
      <3>. QED BY <1>5, <3>1
    <2>2. run.selected = None /\ run.package = NoPackage /\ kept = {}
      BY <1>1 DEF Orderly, Path, Untouched
    <2>3. released = NoPackage
      BY <1>1, Current
    <2>4. Sound'
      BY <1>2, <2>1, <2>2 DEF Orderly, Sound, Latest, Chosen, Screens, Analyses
    <2>5. status # "publishing"
      OBVIOUS
    <2>. HIDE DEF status
    <2>6. Path'
      BY <1>1, <1>2, <2>1, <2>2, <2>3, <2>5 DEF Path, Past, Untouched, Ready, Out, Contents
    <2>. QED BY <1>0, <1>1, <1>2, <2>4, <2>6, Onward
  <1>. QED BY <1>3, <1>4, <1>5

\* While no attempt runs, all are idle.
LEMMA AllIdle ==
    ASSUME Inv, Orderly, wf.current = NoAttempt
    PROVE  \A b \in Attempts : att[b].pc = "idle"
  BY PreparationAssumption DEF Orderly, Alone

(* With no attempt running, only the run and the workflow matter. *)
LEMMA Rests ==
    ASSUME \A b \in Attempts : att'[b].pc = "idle", Sound', Path'
    PROVE  Orderly'
  <1>1. Alone'
    BY DEF Alone
  <1>2. ASSUME NEW b \in Attempts PROVE Follows(att[b])'
    <2>1. att'[b].pc = "idle"
      OBVIOUS
    <2>. QED BY <2>1 DEF Follows, SelectedPCs, Screened, Analysed, Loaded, Selecting,
                Offering, Drawing
  <1>. QED BY <1>1, <1>2 DEF Orderly

\* The workflow ends, or starts again, without having published.
LEMMA PathEnds ==
    ASSUME Path, world' = world, released = NoPackage, released' = released, SameRun,
           run'.status # "publishing", wf'.stage \in {"ended", "resume"}
    PROVE  Path'
  <1>1. Past' /\ Untouched'
    BY DEF Past, Untouched
  <1>2. Ready' /\ Out'
    BY DEF Ready, Out
  <1>3. Contents'
    BY DEF Path, Contents, IsOwn, Report, SameRun
  <1>. QED BY <1>1, <1>2, <1>3 DEF Path

\* The workflow goes on to the next rank when this one is no longer eligible.
LEMMA PathSkips ==
    ASSUME Inv, Path, world' = world, released = NoPackage, released' = released,
           wf.stage \in {"attempt", "publish"}, wf' = NextRank,
           run'.eligible \subseteq run.eligible, wf.rank \notin run'.eligible,
           run'.package = run.package, run'.status # "publishing"
    PROVE  Path'
  <1>1. wf \in Workflows /\ wf.rank \in Nat
    BY OpportunitiesAssumption DEF Inv, WfInv, Workflows, Ranks
  <1>2. \/ wf'.stage = "exhausted"
        \/ wf'.stage = "attempt" /\ wf'.rank = wf.rank + 1
    BY <1>1 DEF NextRank, Workflows
  <1>3. \A m \in 1..(wf.rank - 1) : m \notin run.eligible
    BY DEF Path, Past
  <1>4. Past'
    <2>1. ASSUME NEW m \in 1..((wf.rank + 1) - 1)
          PROVE  m \notin run'.eligible
      BY <1>1, <1>3, <2>1
    <2>. QED BY <1>2, <2>1 DEF Past
  <1>5. Untouched' /\ Ready' /\ Out'
    BY <1>2 DEF Untouched, Ready, Out
  <1>6. Contents'
    BY DEF Path, Contents, IsOwn, Report
  <1>. QED BY <1>4, <1>5, <1>6 DEF Path

(* Starting an attempt keeps everything orderly. *)
LEMMA StartOrderly ==
    ASSUME Inv, Orderly, NEW a \in Attempts, Start(a)
    PROVE  Orderly'
  <1>. DEFINE pc == IF wf.stage = "attempt" THEN "load" ELSE "begin"
              rank == IF wf.stage = "attempt" THEN wf.rank ELSE None
              z == [Idle EXCEPT !.pc = pc, !.stage = wf.stage, !.rank = rank]
  <1>0. PICK y : y = att'[a]
    OBVIOUS
  <1>1. /\ wf.current = NoAttempt /\ wf' = [wf EXCEPT !.current = a, !.tries = @ + 1]
        /\ world' = world /\ run' = run /\ kept' = kept /\ released' = released
        /\ Is(a, z)
    BY DEF Start
  <1>2. Moves(a) /\ y = z
    <2>. HIDE DEF z
    <2>. QED BY <1>0, <1>1, Written DEF Inv
  <1>3. y.pc \in {"load", "begin"} /\ y.ip = NoReport
    BY <1>2 DEF Idle
  <1>. HIDE DEF z
  <1>4. wf'.current = a /\ wf'.stage = wf.stage /\ wf'.rank = wf.rank
    BY <1>1 DEF Inv, WfInv, Workflows
  <1>5. \A b \in Attempts : b # a => att'[b].pc = "idle"
    BY <1>1, <1>2, AllIdle DEF Moves, Inv, AttInv
  <1>6. Alone'
    BY <1>4, <1>5 DEF Alone
  <1>7. SameRun /\ OnlyArt /\ run'.status = run.status
    BY <1>1 DEF SameRun, OnlyArt
  <1>8. Sound' /\ Path'
    BY <1>1, <1>4, <1>7, SoundStays, PathStays DEF Orderly
  <1>9. ASSUME NEW b \in Attempts PROVE Follows(att[b])'
    <2>1. CASE b = a
      BY <1>0, <1>3, <2>1
         DEF Follows, SelectedPCs, Screened, Analysed, Loaded, Selecting, Offering, Drawing
    <2>2. CASE b # a
      <3>1. att'[b].pc = "idle"
        BY <1>5, <2>2
      <3>. QED BY <3>1 DEF Follows, SelectedPCs, Screened, Analysed, Loaded, Selecting, Offering,
                           Drawing
    <2>. QED BY <2>1, <2>2
  <1>. QED BY <1>6, <1>8, <1>9 DEF Orderly

\* After the workflow has taken an attempt's answer, or given it up, all are idle.
LEMMA GivenUp ==
    ASSUME Inv, Orderly, NEW a \in Attempts, wf.current = a, Is(a, Idle)
    PROVE  /\ \A b \in Attempts : att'[b].pc = "idle"
           /\ att[a].pc # "idle"
  <1>1. att[a].pc # "idle"
    BY PreparationAssumption DEF Inv, WfInv
  <1>2. att'[a] = Idle /\ Moves(a)
    BY Written DEF Inv
  <1>3. \A b \in Attempts : b # a => att'[b] = att[b] /\ att[b].pc = "idle"
    BY <1>2 DEF Moves, Orderly, Alone, Inv, AttInv
  <1>4. Idle.pc = "idle"
    BY DEF Idle
  <1>. QED BY <1>1, <1>2, <1>3, <1>4

(* The answer of an attempt keeps everything orderly: the workflow goes on  *)
(* where the run is.                                                        *)
LEMMA AnswerOrderly ==
    ASSUME Inv, Orderly, NEW a \in Attempts, Answer(a)
    PROVE  Orderly'
  <1>. DEFINE x == att[a]
              count == x.count
  <1>1. /\ wf.current = a /\ x.pc = "done" /\ x.result # "error" /\ Is(a, Idle)
        /\ world' = world /\ run' = run /\ kept' = kept /\ released' = released
    BY DEF Answer, At
  <1>2. (\A b \in Attempts : att'[b].pc = "idle") /\ x.pc # "idle"
    BY <1>1, GivenUp
  <1>3. /\ wf.stage \in {"research", "resume", "attempt"} /\ x.stage = wf.stage
        /\ released = NoPackage /\ x \in Executions /\ Progress(x) /\ Follows(x)
    BY <1>2, Current
  <1>4. SameRun /\ OnlyArt /\ run'.status = run.status
    BY <1>1 DEF SameRun, OnlyArt
  <1>5. Sound'
    BY <1>1, <1>4, SoundStays DEF Orderly
  <1>6. wf \in Workflows
    BY DEF Inv, WfInv
  <1>7. CASE wf.stage \in {"research", "resume"}
    <2>1. wf' = [Enter(IF count = 0 THEN "ended" ELSE "attempt") EXCEPT !.count = count]
      BY <1>7 DEF Answer
    <2>2. wf.rank = 1
      BY <1>7 DEF Inv, WfInv
    <2>3. wf'.stage \in {"ended", "attempt"} /\ wf'.rank = 1
      <3>. HIDE DEF count
      <3>. QED BY <1>6, <2>1, <2>2 DEF Enter, Workflows
    <2>4. Past'
      BY <2>3 DEF Past
    <2>5. run.status # "publishing"
      BY <1>7 DEF Orderly, Path, Ready
    <2>6. Untouched' /\ Ready' /\ Out'
      BY <1>1, <1>3, <2>3, <2>5 DEF Untouched, Ready, Out
    <2>7. Contents'
      BY <1>1 DEF Orderly, Path, Contents, IsOwn, Report
    <2>8. Path'
      BY <2>4, <2>6, <2>7 DEF Path
    <2>. QED BY <1>2, <1>5, <2>8, Rests
  <1>8. CASE wf.stage = "attempt" /\ x.result = "ready"
    <2>1. wf' = Enter("publish")
      BY <1>8 DEF Answer
    <2>2. wf'.stage = "publish" /\ wf'.rank = wf.rank
      BY <1>6, <2>1 DEF Enter, Workflows
    <2>3. Past' /\ Untouched' /\ Ready' /\ Out'
      BY <1>1, <1>3, <1>8, <2>2 DEF Orderly, Path, Past, Untouched, Ready, Out
    <2>4. Contents'
      BY <1>1 DEF Orderly, Path, Contents, IsOwn, Report
    <2>5. Path'
      BY <2>3, <2>4 DEF Path
    <2>. QED BY <1>2, <1>5, <2>5, Rests
  <1>9. CASE wf.stage = "attempt" /\ x.result = "rejected"
    <2>1. wf' = NextRank
      BY <1>9 DEF Answer
    <2>2. wf.rank \notin run.eligible
      BY <1>1, <1>3, <1>9 DEF Follows
    <2>3. run.status # "publishing"
      BY <2>2 DEF Orderly, Path, Ready
    <2>4. Path'
      BY <1>1, <1>3, <1>9, <2>1, <2>2, <2>3, PathSkips DEF Orderly
    <2>. QED BY <1>2, <1>5, <2>4, Rests
  <1>10. x.result \in {"ready", "rejected"}
    BY <1>1, <1>3 DEF Progress, Executions, Results
  <1>. QED BY <1>3, <1>7, <1>8, <1>9, <1>10

(* The end of a failed or timed-out attempt keeps everything orderly, if it *)
(* does not outlive it.                                                     *)
LEMMA RetryOrderly ==
    ASSUME Inv, Orderly, world.patient, NEW a \in Attempts, Retry(a) \/ Expire(a)
    PROVE  Orderly'
  <1>1. /\ wf.current = a /\ TryAgain /\ Is(a, Idle)
        /\ world' = world /\ kept' = kept /\ released' = released
    BY DEF Retry, Expire
  <1>2. (\A b \in Attempts : att'[b].pc = "idle") /\ att[a].pc # "idle"
    BY <1>1, GivenUp
  <1>3. released = NoPackage
    BY <1>2, Current
  <1>4. wf \in Workflows
    BY DEF Inv, WfInv
  <1>5. CASE wf' = [wf EXCEPT !.current = NoAttempt] /\ run' = run
    <2>1. wf'.stage = wf.stage /\ wf'.rank = wf.rank
      BY <1>4, <1>5 DEF Workflows
    <2>2. SameRun /\ OnlyArt /\ run'.status = run.status
      BY <1>1, <1>5 DEF SameRun, OnlyArt
    <2>. QED BY <1>1, <1>2, <2>1, <2>2, SoundStays, PathStays, Rests DEF Orderly
  <1>6. CASE wf' = Enter("ended") /\ run' = [run EXCEPT !.status = "failed"]
    <2>1. wf'.stage = "ended"
      BY <1>4, <1>6 DEF Enter, Workflows
    <2>2. SameRun /\ OnlyArt /\ run'.status = "failed"
      BY <1>1, <1>6 DEF SameRun, OnlyArt, Inv, RunInv, Runs
    <2>. QED BY <1>1, <1>2, <1>3, <2>1, <2>2, SoundStays, PathEnds, Rests DEF Orderly
  <1>. QED BY <1>1, <1>5, <1>6 DEF TryAgain

(* Publishing, or finding the package drifted, keeps everything orderly. *)
LEMMA PublishOrderly ==
    ASSUME Inv, Orderly, Publish
    PROVE  Orderly'
  <1>1. wf.stage = "publish" /\ world' = world /\ att' = att /\ kept' = kept
    BY DEF Publish
  <1>2. wf.current = NoAttempt /\ wf \in Workflows
    BY <1>1 DEF Inv, WfInv
  <1>3. \A b \in Attempts : att'[b].pc = "idle"
    BY <1>1, <1>2, AllIdle
  <1>4. released = NoPackage
    BY <1>1 DEF Orderly, Path, Out
  <1>5. OnlyArt
    BY <1>1 DEF OnlyArt
  <1>6. CASE /\ run.status = "publishing" /\ run.package # NoPackage /\ released' = run.package
             /\ run' = [run EXCEPT !.status = "published"] /\ wf' = Enter("ended")
    <2>1. SameRun /\ run'.status = "published"
      BY <1>6 DEF SameRun, Inv, RunInv, Runs
    <2>2. wf'.stage = "ended"
      BY <1>2, <1>6 DEF Enter, Workflows
    <2>3. \E n \in run.eligible : run.opportunities[n].id = run.package.opportunity.id
      BY <1>6 DEF Orderly, Path, Ready
    <2>4. Past' /\ Untouched' /\ Ready' /\ Out'
      BY <1>6, <2>1, <2>2, <2>3 DEF Past, Untouched, Ready, Out, SameRun
    <2>5. Contents'
      <3>1. PICK p : p = run.package
        OBVIOUS
      <3>2. IsOwn(p)
        BY <1>6, <3>1 DEF Orderly, Path, Contents
      <3>3. IsOwn(p)'
        BY <1>1, <3>2 DEF IsOwn, Report
      <3>4. run'.package = p /\ released' = p
        BY <1>6, <2>1, <3>1 DEF SameRun
      <3>. QED BY <3>3, <3>4 DEF Contents, IsOwn, Report
    <2>6. Path'
      BY <2>4, <2>5 DEF Path
    <2>. QED BY <1>1, <1>3, <1>5, <2>1, <2>6, SoundStays, Rests DEF Orderly
  <1>7. CASE /\ run.status = "publishing" /\ released' = released
             /\ run' = Rejected(run.selected, "drift") /\ wf' = NextRank
    <2>0. PICK o : o = run.selected
      OBVIOUS
    <2>1. /\ Sound'
          /\ run'.opportunities = run.opportunities /\ run'.eligible = run.eligible \ RowsOf(o)
          /\ run'.package = run.package /\ run'.status = "ranking"
      BY <1>1, <1>7, <2>0, Rejection DEF Orderly
    <2>2. wf.rank \in RowsOf(o)
      BY <1>7, <2>0 DEF Orderly, Path, Ready, RowsOf, Inv, RunInv
    <2>3. Path'
      BY <1>1, <1>4, <1>7, <2>1, <2>2, PathSkips DEF Orderly
    <2>. QED BY <1>3, <2>1, <2>3, Rests
  <1>8. CASE /\ released' = released /\ wf' = Enter("ended")
             /\ run' = [run EXCEPT !.status = "failed"]
    <2>1. SameRun /\ run'.status = "failed"
      BY <1>8 DEF SameRun, Inv, RunInv, Runs
    <2>2. wf'.stage = "ended"
      BY <1>2, <1>8 DEF Enter, Workflows
    <2>. QED BY <1>1, <1>3, <1>4, <1>5, <1>8, <2>1, <2>2, SoundStays, PathEnds, Rests DEF Orderly
  <1>. QED BY <1>6, <1>7, <1>8 DEF Publish

(* The end of the loop and a resumption by the operator keep everything     *)
(* orderly.                                                                 *)
LEMMA FinishOrderly ==
    ASSUME Inv, Orderly, FinishExhausted \/ Resume
    PROVE  Orderly'
  <1>1. wf.stage \in {"exhausted", "ended"} /\ world' = world /\ att' = att /\ kept' = kept
        /\ released' = released
    BY DEF FinishExhausted, Resume
  <1>2. wf.current = NoAttempt /\ wf \in Workflows
    BY <1>1 DEF Inv, WfInv
  <1>3. \A b \in Attempts : att'[b].pc = "idle"
    BY <1>1, <1>2, AllIdle
  <1>4. released = NoPackage
    BY DEF Orderly, Path, Out, FinishExhausted, Resume
  <1>5. SameRun /\ run'.status # "publishing" /\ OnlyArt
    <2>1. \E status \in {"no_qualified_opportunity", "pending"} :
             run' = [run EXCEPT !.status = status]
      BY DEF FinishExhausted, Resume
    <2>. QED BY <1>1, <2>1 DEF SameRun, OnlyArt, Inv, RunInv, Runs
  <1>6. wf'.stage \in {"ended", "resume"}
    <2>1. CASE FinishExhausted
      <3>1. wf' = Enter("ended")
        BY <2>1 DEF FinishExhausted
      <3>. QED BY <1>2, <3>1 DEF Enter, Workflows
    <2>2. CASE Resume
      BY <2>2 DEF Resume
    <2>. QED BY <2>1, <2>2
  <1>. QED BY <1>1, <1>3, <1>4, <1>5, <1>6, SoundStays, PathEnds, Rests DEF Orderly

\* What changes nothing here.
LEMMA OtherOrderly ==
    ASSUME Inv, Orderly, Repaint \/ UNCHANGED vars
    PROVE  Orderly'
  <1>1. /\ world' = world /\ run' = run /\ att' = att /\ wf' = wf /\ kept' = kept
        /\ released' = released
    BY DEF Repaint, vars
  <1>2. SameRun /\ OnlyArt
    BY <1>1 DEF SameRun, OnlyArt
  <1>3. Sound' /\ Path' /\ Alone'
    BY <1>1, <1>2, SoundStays, PathStays DEF Orderly, Alone
  <1>4. ASSUME NEW b \in Attempts PROVE Follows(att[b])'
    BY <1>1 DEF Orderly, Follows, Report
  <1>. QED BY <1>3, <1>4 DEF Orderly

(* In a patient world every step keeps everything orderly. *)
LEMMA PatientKept ==
    ASSUME Inv, PatientInv, [Next]_vars
    PROVE  PatientInv'
  <1>1. world' = world
    BY WorldSteps
  <1>2. SUFFICES ASSUME world.patient, Orderly PROVE Orderly'
    BY <1>1 DEF PatientInv
  <1>3. ASSUME NEW a \in Attempts, Research(a)
        PROVE  Orderly'
    BY <1>2, <1>3, ResearchOrderly, StoreOrderly DEF Research
  <1>4. ASSUME NEW a \in Attempts, Prepare(a) \/ ServiceFails(a) \/ Interrupted(a)
        PROVE  Orderly'
    <2>1. CASE Quiet(a)
      BY <1>2, <2>1, QuietOrderly
    <2>2. CASE ~ Quiet(a)
      BY <1>2, <1>4, <2>2, SelectOrderly, SaveScreenOrderly, SaveAnalysisOrderly, GenerateOrderly,
         CommitOrderly, RejectOrderly DEF Prepare, Quiet
    <2>. QED BY <2>1, <2>2
  <1>5. ASSUME NEW a \in Attempts, Start(a) \/ Answer(a) \/ Retry(a) \/ Expire(a)
        PROVE  Orderly'
    BY <1>2, <1>5, StartOrderly, AnswerOrderly, RetryOrderly
  <1>6. ASSUME NEW a \in Attempts, Leave(a)
        PROVE  FALSE
    BY <1>2, <1>6 DEF Leave, At, Orderly, Alone
  <1>7. CASE Publish \/ FinishExhausted \/ Resume \/ Repaint \/ UNCHANGED vars
    BY <1>2, <1>7, PublishOrderly, FinishOrderly, OtherOrderly
  <1>. QED BY <1>3, <1>4, <1>5, <1>6, <1>7 DEF Next

(* Everything is orderly initially. *)
LEMMA PatientStart == Init => PatientInv
  <1>. SUFFICES ASSUME Init PROVE Orderly
    BY DEF PatientInv
  <1>1. \A b \in Attempts : att[b] = Idle
    BY DEF Init
  <1>2. Alone /\ \A b \in Attempts : Follows(att[b])
    <2>1. Idle.pc = "idle"
      BY DEF Idle
    <2>2. Follows(Idle)
      BY <2>1 DEF Follows, SelectedPCs, Screened, Analysed, Loaded, Selecting, Offering, Drawing
    <2>. QED BY <1>1, <2>1, <2>2 DEF Alone
  <1>3. /\ run.selected = None /\ run.ip = NoReport /\ run.analysis = None
        /\ run.package = NoPackage /\ run.status = "pending" /\ kept = {}
        /\ wf.stage = "research" /\ released = NoPackage
    BY DEF Init
  <1>4. Sound /\ Path
    BY <1>3 DEF Sound, Latest, Chosen, Screens, Analyses, Path, Past, Untouched, Ready,
       Out, Contents,
                NoReport
  <1>. QED BY <1>2, <1>4 DEF Orderly

(* So it is always. *)
LEMMA PatientAlways == Spec => [](Parts /\ PatientInv)
  <1>1. Init => Parts /\ PatientInv
    BY PartsStart, PatientStart
  <1>2. (Parts /\ PatientInv) /\ [Next]_vars => (Parts /\ PatientInv)'
    BY PartsKept, PatientKept DEF Parts
  <1>. QED BY <1>1, <1>2, PTL DEF Spec

(* Then packages are whole. *)
LEMMA PackagesWhole == Parts /\ PatientInv => PackageIsWhole
  <1>. SUFFICES ASSUME Parts, PatientInv,
                       NEW package \in {run.package, released} \ {NoPackage}
                PROVE  LET o == package.opportunity.id
                       IN /\ DOMAIN package.art = Surfaces(package.variants)
                          /\ \A s \in DOMAIN package.art : package.art[s] = store[o].art[s]
                          /\ world.patient =>
                               /\ package.analysis = o
                               /\ world.ip => package.ip = [of |-> o, pass |-> TRUE]
                               /\ world.originality => package.reviewed
                               /\ package = released =>
                                     \E n \in run.eligible : run.opportunities[n].id = o
    BY DEF PackageIsWhole
  <1>1. IsPackage(package)
    BY DEF Parts, PackageInv
  <1>2. world.patient => IsOwn(package)
    BY DEF PatientInv, Orderly, Path, Contents
  <1>3. world.patient /\ package = released =>
           \E n \in run.eligible : run.opportunities[n].id = package.opportunity.id
    BY DEF PatientInv, Orderly, Path, Out
  <1>. QED BY <1>1, <1>2, <1>3 DEF IsPackage, IsOwn, Report

(* The artwork of a package to be released is the stored one for its        *)
(* opportunity and surface, also when attempts overlap (the guard of        *)
(* _upsert_artifact); if they do not, every other part was made for the same*)
(* opportunity too, screening and review were passed, and what was published*)
(* was not rejected, whatever was interrupted, retried or resumed in        *)
(* catalog_pipeline.py.                                                     *)
THEOREM PackagesAreWhole == Spec => []PackageIsWhole
  <1>. QED BY PatientAlways, PackagesWhole, PTL

\* A call that was stored is not bought.
LEMMA NotAgain ==
    ASSUME Parts, PatientInv, [Next]_vars, world.patient, NEW o \in Ids, NEW c \in Calls,
           bought'[o][c] > bought[o][c]
    PROVE  <<o, c>> \notin kept
  <1>1. Inv /\ Orderly /\ KeptInv /\ bought \in [Ids -> [Calls -> Nat]]
    BY DEF Parts, PatientInv, Inv, WorldInv
  <1>2. ASSUME NEW a \in Attempts, NEW call, Buy(a, call)
        PROVE  o = Id(a) /\ c = call
    <2>. DEFINE i == Id(a)
    <2>1. bought' = [bought EXCEPT ![i][call] = @ + 1]
      BY <1>2 DEF Buy
    <2>. HIDE DEF i
    <2>2. CASE i # o
      <3>1. bought'[o] = bought[o]
        BY <1>1, <2>1, <2>2
      <3>2. bought[o][c] \in Nat
        BY <1>1
      <3>. QED BY <3>1, <3>2
    <2>3. CASE i = o /\ call # c
      <3>1. bought'[o] = [bought[o] EXCEPT ![call] = @ + 1]
        BY <1>1, <2>1, <2>3
      <3>2. bought[o] \in [Calls -> Nat]
        BY <1>1
      <3>3. bought'[o][c] = bought[o][c] /\ bought[o][c] \in Nat
        BY <2>3, <3>1, <3>2
      <3>. QED BY <3>3
    <2>. QED BY <2>2, <2>3 DEF i
  <1>3. ASSUME NEW a \in Attempts, Screen(a), Buy(a, Screening),
               ~ Reusable(run.ip.of, run.screened, Id(a)), <<o, c>> \in kept
        PROVE  FALSE
    <2>1. o = Id(a) /\ <<o, Screening>> \in kept
      BY <1>2, <1>3
    <2>2. att[a].pc \in Loaded
      BY <1>3 DEF Screen, At, Loaded, Selecting
    <2>3. wf.rank \in run.eligible /\ RowsOf(o) = {wf.rank} /\ o # None
      BY <1>1, <2>1, <2>2, Bound
    <2>4. ~ Gone(o)
      BY <2>3 DEF Gone
    <2>5. run.ip.of = o
      BY <1>1, <2>1, <2>4 DEF Orderly, Sound, Screens
    <2>6. run.screened = run.ip.of
      BY <1>1, <2>3, <2>5 DEF Orderly, Sound, Latest
    <2>. QED BY <1>3, <2>1, <2>3, <2>5, <2>6 DEF Reusable
  <1>4. ASSUME NEW a \in Attempts, Analyse(a), Buy(a, Analysis),
               ~ Reusable(run.analysis, run.analysed, Id(a)), <<o, c>> \in kept
        PROVE  FALSE
    <2>1. o = Id(a) /\ <<o, Analysis>> \in kept
      BY <1>2, <1>4
    <2>2. att[a].pc \in Loaded
      BY <1>4 DEF Analyse, At, Loaded, Offering
    <2>3. wf.rank \in run.eligible /\ RowsOf(o) = {wf.rank} /\ o # None
      BY <1>1, <2>1, <2>2, Bound
    <2>4. ~ Gone(o)
      BY <2>3 DEF Gone
    <2>5. run.analysis = o
      BY <1>1, <2>1, <2>4 DEF Orderly, Sound, Analyses
    <2>6. run.analysed = run.analysis
      BY <1>1, <2>3, <2>5 DEF Orderly, Sound, Latest
    <2>. QED BY <1>4, <2>1, <2>3, <2>5, <2>6 DEF Reusable
  <1>5. ASSUME NEW a \in Attempts, NEW s \in AllSurfaces, Buy(a, s), store[Id(a)].art[s] = None,
               <<o, c>> \in kept
        PROVE  FALSE
    <2>1. o = Id(a) /\ c = s
      BY <1>2, <1>5
    <2>. QED BY <1>1, <1>5, <2>1 DEF KeptInv
  <1>6. bought' # bought
    <2>1. bought[o][c] \in Nat
      BY <1>1
    <2>. QED BY <2>1
  <1>. QED BY <1>1, <1>3, <1>4, <1>5, <1>6, BoughtSteps

(* If attempts do not overlap, no screening, analysis or artwork whose      *)
(* result was stored is ever bought again (the reuse in _prepare_opportunity*)
(* and the reset in select_opportunity), whatever crashes, is refused or is *)
(* retried in between.                                                      *)
THEOREM NothingIsPaidTwice == Spec => PaidOnce
  <1>1. Parts /\ PatientInv /\ [Next]_vars =>
          [world.patient =>
             \A o \in Ids : \A c \in Calls :
                 bought'[o][c] > bought[o][c] => <<o, c>> \notin kept]_vars
    BY NotAgain
  <1>2. Spec => [](Parts /\ PatientInv)
    BY PatientAlways
  <1>. QED BY <1>1, <1>2, PTL DEF Spec, PaidOnce
=============================================================================
