---------------------------- MODULE NumberLemmas ----------------------------
(***************************************************************************)
(* Facts about sets of numbers that several proofs need.                   *)
(***************************************************************************)
EXTENDS Integers, FiniteSets, FiniteSetTheorems, WellFoundedInduction, TLAPS

(* A non-empty finite set of integers has a greatest element: take the     *)
(* element above which there are the fewest others.                        *)
LEMMA GreatestElement ==
  ASSUME NEW S \in SUBSET Int, IsFiniteSet(S), S # {}
  PROVE  \E i \in S : \A j \in S : j =< i
<1> DEFINE Above(x) == {k \in S : k > x}
           A == {Above(x) : x \in S}
<1>1. A \subseteq FiniteSubsetsOf(S) /\ A # {}
  <2>1. \A i \in S : IsFiniteSet(Above(i))
    BY FS_Subset
  <2> QED
    BY <2>1 DEF FiniteSubsetsOf
<1>2. PICK a \in A : \A c \in A : ~(<<c, a>> \in StrictSubsetOrdering(S))
  BY <1>1, FS_StrictSubsetOrderingWellFounded, WFMin
<1>3. PICK i \in S : a = Above(i)
  OBVIOUS
<1>4. \A j \in S : j =< i
  <2> SUFFICES ASSUME NEW j \in S, j > i PROVE FALSE
    OBVIOUS
  <2>0. i \in Int /\ j \in Int
    OBVIOUS
  <2>1. Above(j) \subseteq Above(i) /\ j \in Above(i) /\ j \notin Above(j)
    <3> HIDE DEF A
    <3>1. \A k \in S : k \in Int
      OBVIOUS
    <3>2. \A k \in Above(j) : k \in Above(i)
      BY <2>0, <3>1
    <3>3. j \in Above(i)
      BY <2>0
    <3>4. j \notin Above(j)
      BY <2>0
    <3> HIDE DEF Above
    <3> QED
      BY <3>2, <3>3, <3>4
  <2>2. <<Above(j), Above(i)>> \in StrictSubsetOrdering(S)
    BY <2>1 DEF StrictSubsetOrdering
  <2> QED
    BY <1>2, <1>3, <2>2
<1> QED
  BY <1>4

(* So has a non-empty set of naturals with an upper bound. *)
LEMMA GreatestNatural ==
  ASSUME NEW S \in SUBSET Nat, S # {}, NEW n \in Nat, \A i \in S : i =< n
  PROVE  \E i \in S : \A j \in S : j =< i
<1>1. S \subseteq 0..n
  OBVIOUS
<1>2. IsFiniteSet(0..n)
  BY FS_Interval
<1>3. IsFiniteSet(S)
  BY <1>1, <1>2, FS_Subset
<1>4. S \in SUBSET Int
  OBVIOUS
<1> QED
  BY <1>3, <1>4, GreatestElement

(* A least element, likewise: the one below which there are the fewest. *)
LEMMA LeastElement ==
  ASSUME NEW S \in SUBSET Int, IsFiniteSet(S), S # {}
  PROVE  \E i \in S : \A j \in S : i =< j
<1> DEFINE Below(x) == {k \in S : k < x}
           A == {Below(x) : x \in S}
<1>1. A \subseteq FiniteSubsetsOf(S) /\ A # {}
  <2>1. \A i \in S : IsFiniteSet(Below(i))
    BY FS_Subset
  <2> QED
    BY <2>1 DEF FiniteSubsetsOf
<1>2. PICK a \in A : \A c \in A : ~(<<c, a>> \in StrictSubsetOrdering(S))
  BY <1>1, FS_StrictSubsetOrderingWellFounded, WFMin
<1>3. PICK i \in S : a = Below(i)
  OBVIOUS
<1>4. \A j \in S : i =< j
  <2> SUFFICES ASSUME NEW j \in S, j < i PROVE FALSE
    OBVIOUS
  <2>0. i \in Int /\ j \in Int
    OBVIOUS
  <2>1. Below(j) \subseteq Below(i) /\ j \in Below(i) /\ j \notin Below(j)
    <3> HIDE DEF A
    <3>1. \A k \in S : k \in Int
      OBVIOUS
    <3>2. \A k \in Below(j) : k \in Below(i)
      BY <2>0, <3>1
    <3>3. j \in Below(i)
      BY <2>0
    <3>4. j \notin Below(j)
      BY <2>0
    <3> HIDE DEF Below
    <3> QED
      BY <3>2, <3>3, <3>4
  <2>2. <<Below(j), Below(i)>> \in StrictSubsetOrdering(S)
    BY <2>1 DEF StrictSubsetOrdering
  <2> QED
    BY <1>2, <1>3, <2>2
<1> QED
  BY <1>4

(* The values of a function on a finite set are finitely many. *)
LEMMA ImageFinite ==
  ASSUME NEW S, IsFiniteSet(S), NEW f, DOMAIN f = S
  PROVE  IsFiniteSet({f[x] : x \in S})
<1> DEFINE T == {f[x] : x \in S}
           g == [x \in S |-> f[x]]
<1>1. g \in Surjection(S, T)
  BY DEF Surjection
<1> QED
  BY <1>1, FS_Surjection

(* The elements of a finite set with fewer than n elements below them are n *)
(* or more, if the set has as many: the least of the others would be one.   *)
LEMMA FirstElements ==
  ASSUME NEW S \in SUBSET Int, IsFiniteSet(S), NEW n \in Nat, Cardinality(S) >= n
  PROVE  Cardinality({i \in S : Cardinality({j \in S : j < i}) < n}) >= n
<1> DEFINE Below(i) == {j \in S : j < i}
           F == {i \in S : Cardinality(Below(i)) < n}
<1>0. \A T \in SUBSET S : IsFiniteSet(T) /\ Cardinality(T) \in Nat
  BY FS_Subset, FS_CardinalityType
<1>1. F \in SUBSET S /\ IsFiniteSet(F) /\ Cardinality(F) \in Nat
  BY <1>0
<1>2. SUFFICES ASSUME Cardinality(F) < n PROVE FALSE
  BY <1>1
<1>3. S \ F # {}
  <2>1. F # S
    <3>1. Cardinality(S) \in Nat
      BY <1>0
    <3> HIDE DEF F
    <3> QED
      BY <1>1, <1>2, <3>1
  <2> QED
    BY <1>1, <2>1
<1>4. S \ F \in SUBSET Int /\ IsFiniteSet(S \ F)
  BY <1>0
<1>5. PICK m \in S \ F : \A j \in S \ F : m =< j
  <2> HIDE DEF F
  <2> QED
    BY <1>3, <1>4, LeastElement
<1>6. Below(m) \subseteq F
  <2> SUFFICES ASSUME NEW j \in S, j < m PROVE j \in F
    OBVIOUS
  <2>1. j \in Int /\ m \in Int
    OBVIOUS
  <2> HIDE DEF F
  <2> QED
    BY <1>5, <2>1
<1>7. Cardinality(Below(m)) <= Cardinality(F) /\ Cardinality(Below(m)) \in Nat
  <2>1. Below(m) \in SUBSET F
    BY <1>6
  <2>2. Below(m) \in SUBSET S
    OBVIOUS
  <2> HIDE DEF Below, F
  <2> QED
    BY <1>0, <1>1, <2>1, <2>2, FS_Subset
<1> QED
  BY <1>1, <1>2, <1>5, <1>7

(* Of a finite set with n or more elements, one has n - 1 below it: those    *)
(* with fewer below them are at most n - 1, as the greatest of them shows.   *)
LEMMA NthElement ==
  ASSUME NEW S \in SUBSET Int, IsFiniteSet(S), NEW n \in Nat \ {0}, Cardinality(S) >= n
  PROVE  \E i \in S : Cardinality({j \in S : j < i}) = n - 1
<1> DEFINE Below(i) == {j \in S : j < i}
           F == {i \in S : Cardinality(Below(i)) < n}
           E == {i \in S : Cardinality(Below(i)) < n - 1}
<1>0. \A T \in SUBSET S : IsFiniteSet(T) /\ Cardinality(T) \in Nat
  BY FS_Subset, FS_CardinalityType
<1>1. Cardinality(F) >= n
  BY FirstElements
<1>2. Cardinality(E) <= n - 1
  <2>1. E \in SUBSET S /\ E \in SUBSET Int /\ IsFiniteSet(E)
    BY <1>0
  <2>2. CASE E = {}
    <3> HIDE DEF E
    <3> QED
      BY <2>2, FS_EmptySet
  <2>3. CASE E # {}
    <3>1. PICK m \in E : \A j \in E : j =< m
      <4> HIDE DEF E
      <4> QED
        BY <2>1, <2>3, GreatestElement
    <3>2. m \in S /\ Cardinality(Below(m)) < n - 1 /\ m \notin Below(m)
      <4>1. m \in S /\ m \in Int /\ Cardinality(Below(m)) < n - 1
        OBVIOUS
      <4>2. m \notin Below(m)
        BY <4>1
      <4> QED
        BY <4>1, <4>2
    <3>3. E \in SUBSET (Below(m) \cup {m})
      <4> SUFFICES ASSUME NEW j \in E, j # m PROVE j \in Below(m)
        OBVIOUS
      <4>1. j \in S /\ j \in Int /\ m \in Int
        BY <2>1
      <4> QED
        BY <3>1, <4>1
    <3>4. Below(m) \in SUBSET S
      OBVIOUS
    <3> HIDE DEF Below, E
    <3>5. IsFiniteSet(Below(m)) /\ Cardinality(Below(m)) \in Nat
      BY <1>0, <3>4
    <3>6. /\ IsFiniteSet(Below(m) \cup {m})
          /\ Cardinality(Below(m) \cup {m}) = Cardinality(Below(m)) + 1
      BY <3>2, <3>5, FS_AddElement
    <3>7. Cardinality(E) <= Cardinality(Below(m) \cup {m})
      BY <3>3, <3>6, FS_Subset
    <3>8. Cardinality(E) \in Nat
      BY <1>0, <2>1
    <3> QED
      BY <3>2, <3>5, <3>6, <3>7, <3>8
  <2> QED
    BY <2>2, <2>3
<1>3. E # F
  <2>1. F \in SUBSET S /\ E \in SUBSET S
    OBVIOUS
  <2> HIDE DEF E, F
  <2>2. Cardinality(F) \in Nat /\ Cardinality(E) \in Nat
    BY <1>0, <2>1
  <2> QED
    BY <1>1, <1>2, <2>2
<1>4. PICK i \in S : Cardinality(Below(i)) < n /\ ~(Cardinality(Below(i)) < n - 1)
  <2>1. \A i \in S : Cardinality(Below(i)) \in Nat
    <3>1. \A i \in S : Below(i) \in SUBSET S
      OBVIOUS
    <3> HIDE DEF Below
    <3> QED
      BY <1>0, <3>1
  <2>2. E \subseteq F
    <3> SUFFICES ASSUME NEW i \in S, Cardinality(Below(i)) < n - 1 PROVE Cardinality(Below(i)) < n
      OBVIOUS
    <3>1. Cardinality(Below(i)) \in Nat
      BY <2>1
    <3> HIDE DEF Below
    <3> QED
      BY <3>1
  <2>3. PICK i \in F : i \notin E
    <3> HIDE DEF E, F
    <3> QED
      BY <1>3, <2>2
  <2> QED
    BY <2>3
<1>5. Cardinality(Below(i)) \in Nat
  <2>1. Below(i) \in SUBSET S
    OBVIOUS
  <2> QED
    BY <1>0, <2>1
<1>6. Cardinality(Below(i)) = n - 1
  <2> HIDE DEF Below
  <2> QED
    BY <1>4, <1>5
<1> QED
  BY <1>6

(* Two elements of a finite set have as many elements below them only if    *)
(* they are the same.                                                       *)
LEMMA RankDiffers ==
  ASSUME NEW S \in SUBSET Int, IsFiniteSet(S), NEW a \in S, NEW b \in S, a < b
  PROVE  Cardinality({j \in S : j < a}) < Cardinality({j \in S : j < b})
<1> DEFINE A == {j \in S : j < a}
           B == {j \in S : j < b}
<1>1. A \in SUBSET S /\ B \in SUBSET S
  OBVIOUS
<1>2. a \in B /\ a \notin A
  OBVIOUS
<1>3. A \subseteq B
  <2> SUFFICES ASSUME NEW j \in S, j < a PROVE j < b
    OBVIOUS
  <2> QED
    BY j \in Int /\ a \in Int /\ b \in Int
<1> HIDE DEF A, B
<1>4. IsFiniteSet(A) /\ IsFiniteSet(B) /\ Cardinality(A) \in Nat /\ Cardinality(B) \in Nat
  BY <1>1, FS_Subset, FS_CardinalityType
<1>5. Cardinality(A) =< Cardinality(B) /\ (Cardinality(A) = Cardinality(B) => A = B)
  BY <1>3, <1>4, FS_Subset
<1>6. Cardinality(A) < Cardinality(B)
  BY <1>2, <1>4, <1>5
<1> QED
  BY <1>6 DEF A, B

(* A set with zero and with the successor of each of its members below m    *)
(* holds all numbers up to m: there is no least number it lacks.            *)
LEMMA CountUp ==
  ASSUME NEW m \in Nat, NEW P, 0 \in P, \A i \in 0..(m - 1) : i \in P => i + 1 \in P
  PROVE  \A i \in 0..m : i \in P
<1> DEFINE S == {i \in 0..m : i \notin P}
<1> SUFFICES ASSUME S # {} PROVE FALSE
  OBVIOUS
<1>1. S \in SUBSET Int /\ IsFiniteSet(S)
  <2>1. IsFiniteSet(0..m) /\ S \in SUBSET (0..m)
    BY FS_Interval
  <2> QED
    BY <2>1, FS_Subset
<1>2. PICK i \in S : \A j \in S : i =< j
  <2> HIDE DEF S
  <2> QED
    BY <1>1, LeastElement
<1>3. i \in 0..m /\ i \notin P /\ i # 0
  OBVIOUS
<1>4. i - 1 \in 0..(m - 1) /\ (i - 1) + 1 = i
  BY <1>3
<1>5. i - 1 \in P
  BY <1>2, <1>4
<1> QED
  BY <1>3, <1>4, <1>5

(* A function defined by recursion over 0..m: a step st takes the value at  *)
(* i - 1 to the value at i, and stays in S.                                 *)
Iterates(m, S, b, st, g) ==
  g \in [0..m -> S] /\ g[0] = b /\ \A i \in 1..m : g[i] = st[i][g[i - 1]]

LEMMA Iteration ==
  ASSUME NEW m \in Nat, NEW S, NEW b \in S, NEW st \in [1..m -> [S -> S]]
  PROVE  \E g : Iterates(m, S, b, st, g)
<1> DEFINE P == {k \in 0..m : \E g : Iterates(k, S, b, st, g)}
<1>1. 0 \in P
  <2> DEFINE g == [i \in 0..0 |-> b]
  <2>1. g \in [0..0 -> S] /\ g[0] = b /\ 1..0 = {} /\ 0 \in 0..m
    OBVIOUS
  <2> HIDE DEF g
  <2>2. Iterates(0, S, b, st, g)
    BY <2>1 DEF Iterates
  <2> QED
    BY <2>1, <2>2
<1>2. ASSUME NEW k \in 0..(m - 1), k \in P PROVE k + 1 \in P
  <2>1. PICK g : Iterates(k, S, b, st, g)
    BY <1>2
  <2>2. g \in [0..k -> S] /\ g[0] = b /\ \A i \in 1..k : g[i] = st[i][g[i - 1]]
    BY <2>1 DEF Iterates
  <2> DEFINE v == st[k + 1][g[k]]
             h == [i \in 0..(k + 1) |-> IF i = k + 1 THEN v ELSE g[i]]
  <2>3. v \in S
    BY <2>2
  <2>4. /\ h \in [0..(k + 1) -> S] /\ h[0] = b /\ h[k + 1] = v
        /\ \A i \in 0..k : h[i] = g[i]
    BY <2>2, <2>3
  <2> HIDE DEF h
  <2>5. ASSUME NEW i \in 1..(k + 1) PROVE h[i] = st[i][h[i - 1]]
    <3>1. CASE i = k + 1
      <4>1. i - 1 = k /\ k \in 0..k
        BY <3>1
      <4> QED
        BY <2>4, <3>1, <4>1
    <3>2. CASE i # k + 1
      <4>1. i \in 1..k /\ i \in 0..k /\ i - 1 \in 0..k
        BY <3>2
      <4>2. h[i] = g[i] /\ h[i - 1] = g[i - 1] /\ g[i] = st[i][g[i - 1]]
        BY <2>2, <2>4, <4>1
      <4> QED
        BY <4>2
    <3> QED
      BY <3>1, <3>2
  <2>6. Iterates(k + 1, S, b, st, h)
    BY <2>4, <2>5 DEF Iterates
  <2>7. k + 1 \in 0..m
    OBVIOUS
  <2> QED
    BY <2>6, <2>7
<1>3. m \in P
  <2> HIDE DEF P
  <2>1. \A i \in 0..(m - 1) : i \in P => i + 1 \in P
    BY <1>2
  <2>2. \A i \in 0..m : i \in P
    BY <1>1, <2>1, CountUp
  <2> QED
    BY <2>2
<1> QED
  BY <1>3

LEMMA Divided ==
  ASSUME NEW d \in Nat \ {0}, NEW j \in Nat
  PROVE  j % d \in 0..(d - 1) /\ j = (d * (j \div d)) + (j % d)
<1>1. j % d \in 0..(d - 1)
  OBVIOUS
<1>2. j = (d * (j \div d)) + (j % d)
  OBVIOUS
<1> QED
  BY <1>1, <1>2
=============================================================================
