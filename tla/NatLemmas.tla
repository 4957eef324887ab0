------------------------------- MODULE NatLemmas -------------------------------
(***************************************************************************)
(* Induction over the naturals in the form that a set of naturals is given *)
(* instead of a predicate, what follows from it for sets of naturals, and  *)
(* what is needed of sums over finite sets: none of the theorems of the    *)
(* library is about them.                                                  *)
(***************************************************************************)
EXTENDS Integers, FiniteSets, Functions, FiniteSetTheorems, WellFoundedInduction, NaturalsInduction, TLAPS

Below == {p \in Nat \X Nat : p[1] < p[2]}

\* The order of the naturals, as a relation, is well founded.
LEMMA BelowWellFounded == IsWellFoundedOn(Below, Nat)
  <1>1. Below = OpToRel(<, Nat)
    BY Zenon DEF Below, OpToRel
  <1> QED BY <1>1, NatLessThanWellFounded, Zenon

\* A set of naturals that is not empty has a least element.
LEMMA LeastNat ==
  ASSUME NEW T, T \subseteq Nat, T # {}
  PROVE  \E x \in T : \A y \in T : x <= y
  <1>1. PICK x \in T : \A y \in T : ~(<<y, x>> \in Below)
    BY BelowWellFounded, WFMin
  <1>2. ASSUME NEW y \in T PROVE x <= y
    <2>1. x \in Nat /\ y \in Nat
      OBVIOUS
    <2>2. <<y, x>> \in Nat \X Nat
      BY <2>1
    <2>3. ~(<<y, x>>[1] < <<y, x>>[2])
      BY <1>1, <2>2 DEF Below
    <2> QED BY <2>1, <2>3
  <1> QED BY <1>2

\* Induction: a set that has zero and with every natural its successor has them all.
LEMMA NatInduct ==
  ASSUME NEW S, 0 \in S, \A n \in Nat : n \in S => n + 1 \in S
  PROVE  Nat \subseteq S
  <1> SUFFICES ASSUME Nat \ S # {} PROVE FALSE
    OBVIOUS
  <1>1. PICK x \in Nat \ S : \A y \in Nat \ S : x <= y
    BY LeastNat
  <1>2. x # 0 /\ x - 1 \in Nat
    BY <1>1
  <1>3. x - 1 \in S
    BY <1>1, <1>2
  <1>4. (x - 1) + 1 = x
    BY <1>1
  <1> QED BY <1>1, <1>2, <1>3, <1>4

\* A finite set of naturals is bounded.
LEMMA FiniteBounded ==
  ASSUME NEW T, T \subseteq Nat, IsFiniteSet(T)
  PROVE  \E m \in Nat : \A x \in T : x <= m
  <1> DEFINE Bounded(U) == \E m \in Nat : \A x \in U : x <= m
             S == {n \in Nat : \A U \in SUBSET Nat : IsFiniteSet(U) /\ Cardinality(U) = n => Bounded(U)}
  <1>1. 0 \in S
    <2>1. ASSUME NEW U \in SUBSET Nat, IsFiniteSet(U), Cardinality(U) = 0 PROVE Bounded(U)
      BY <2>1, FS_EmptySet
    <2> QED BY <2>1
  <1>2. ASSUME NEW n \in Nat, n \in S PROVE n + 1 \in S
    <2>1. ASSUME NEW U \in SUBSET Nat, IsFiniteSet(U), Cardinality(U) = n + 1 PROVE Bounded(U)
      <3>1. PICK y : y \in U
        BY <2>1, FS_EmptySet
      <3>2. IsFiniteSet(U \ {y}) /\ Cardinality(U \ {y}) = (n + 1) - 1
        BY <2>1, <3>1, FS_RemoveElement
      <3>3. (n + 1) - 1 = n
        OBVIOUS
      <3>4. U \ {y} \in SUBSET Nat
        OBVIOUS
      <3>5. Bounded(U \ {y})
        BY <1>2, <3>2, <3>3, <3>4
      <3>6. PICK m \in Nat : \A x \in U \ {y} : x <= m
        BY <3>5
      <3>7. y \in Nat
        BY <3>1
      <3> DEFINE b == IF y <= m THEN m ELSE y
      <3>8. b \in Nat /\ \A x \in U : x <= b
        BY <3>6, <3>7
      <3> HIDE DEF b
      <3> QED BY <3>8
    <2>2. n + 1 \in Nat
      OBVIOUS
    <2> HIDE DEF Bounded
    <2> QED BY <2>1, <2>2
  <1> HIDE DEF S
  <1>3. Nat \subseteq S
    BY <1>1, <1>2, NatInduct
  <1>4. Cardinality(T) \in S
    BY <1>3, FS_CardinalityType
  <1> QED BY <1>4 DEF S

\* A finite set of naturals that is not empty has a greatest element.
LEMMA GreatestNat ==
  ASSUME NEW T, T \subseteq Nat, T # {}, IsFiniteSet(T)
  PROVE  \E x \in T : \A y \in T : x >= y
  <1>1. PICK m \in Nat : \A x \in T : x <= m
    BY FiniteBounded
  <1> DEFINE R == {k \in Nat : \E x \in T : k = m - x}
  <1>2. R \subseteq Nat /\ R # {}
    <2>1. PICK x : x \in T
      OBVIOUS
    <2>2. m - x \in Nat
      BY <1>1, <2>1
    <2> QED BY <2>1, <2>2
  <1>3. PICK k \in R : \A j \in R : k <= j
    BY <1>2, LeastNat
  <1>4. PICK x \in T : k = m - x
    BY <1>3
  <1>5. ASSUME NEW y \in T PROVE x >= y
    <2>1. m - y \in R /\ x \in Nat /\ y \in Nat
      BY <1>1
    <2>2. k <= m - y
      BY <1>3, <2>1
    <2> QED BY <1>4, <2>1, <2>2
  <1> QED BY <1>5

-----------------------------------------------------------------------------
(* Sums over finite sets                                                   *)

\* Induction over a finite set: what holds for the empty set and goes from a set to the set with one
\* element more holds for the whole.
LEMMA SetInduct ==
  ASSUME NEW S, IsFiniteSet(S), NEW P, {} \in P,
         \A T \in SUBSET S : \A x \in S \ T : T \in P => T \cup {x} \in P
  PROVE  S \in P
  <1> DEFINE N == {n \in Nat : \A T \in SUBSET S : Cardinality(T) = n => T \in P}
  <1>1. \A T \in SUBSET S : IsFiniteSet(T) /\ Cardinality(T) \in Nat
    BY FS_Subset, FS_CardinalityType
  <1>2. 0 \in N
    <2>1. \A T \in SUBSET S : Cardinality(T) = 0 => T = {}
      BY <1>1, FS_EmptySet
    <2> QED BY <2>1
  <1>3. ASSUME NEW n \in Nat, n \in N PROVE n + 1 \in N
    <2>1. ASSUME NEW T \in SUBSET S, Cardinality(T) = n + 1 PROVE T \in P
      <3>1. PICK x : x \in T
        BY <1>1, <2>1, FS_EmptySet
      <3>2. Cardinality(T \ {x}) = (n + 1) - 1
        <4>1. IsFiniteSet(T)
          BY <1>1
        <4> QED BY <2>1, <3>1, <4>1, FS_RemoveElement
      <3>3. (n + 1) - 1 = n
        OBVIOUS
      <3>4. T \ {x} \in P
        BY <1>3, <3>2, <3>3
      <3>5. (T \ {x}) \cup {x} \in P
        BY <3>1, <3>4
      <3>6. (T \ {x}) \cup {x} = T
        BY <3>1
      <3> QED BY <3>5, <3>6
    <2> QED BY <2>1
  <1> HIDE DEF N
  <1>4. Nat \subseteq N
    BY <1>2, <1>3, NatInduct
  <1>5. Cardinality(S) \in N
    BY <1>4, FS_CardinalityType
  <1> QED BY <1>5 DEF N

\* The function behind SumFunctionOnSet, on the subsets of D in C.
Pick(s) == CHOOSE x \in s : TRUE
Sums(g, f, C) == \A s \in C : g[s] = IF s = {} THEN 0 ELSE f[Pick(s)] + g[s \ {Pick(s)}]

\* It exists.
LEMMA SumExists ==
  ASSUME NEW D, IsFiniteSet(D), NEW f, \A x \in D : f[x] \in Int
  PROVE  \E g \in [SUBSET D -> Int] : Sums(g, f, SUBSET D)
  <1> DEFINE C(n) == {s \in SUBSET D : Cardinality(s) <= n}
             N == {n \in Nat : \E g \in [C(n) -> Int] : Sums(g, f, C(n))}
  <1>1. \A s \in SUBSET D : IsFiniteSet(s) /\ Cardinality(s) \in Nat /\ Cardinality(s) <= Cardinality(D)
    BY FS_Subset, FS_CardinalityType
  <1>2. 0 \in N
    <2> DEFINE g == [s \in C(0) |-> 0]
    <2>1. \A s \in C(0) : s = {}
      BY <1>1, FS_EmptySet
    <2>2. g \in [C(0) -> Int] /\ Sums(g, f, C(0))
      BY <2>1 DEF Sums
    <2> QED BY <2>2
  <1>3. ASSUME NEW n \in Nat, n \in N PROVE n + 1 \in N
    <2>1. PICK g \in [C(n) -> Int] : Sums(g, f, C(n))
      BY <1>3
    <2> DEFINE h == [s \in C(n + 1) |-> IF s \in C(n) THEN g[s] ELSE f[Pick(s)] + g[s \ {Pick(s)}]]
    <2>2. ASSUME NEW s \in C(n + 1), s # {} PROVE Pick(s) \in s /\ s \ {Pick(s)} \in C(n)
      <3>1. Pick(s) \in s
        BY <2>2 DEF Pick
      <3>2. Cardinality(s \ {Pick(s)}) = Cardinality(s) - 1
        BY <1>1, <3>1, FS_RemoveElement
      <3>3. Cardinality(s) \in Nat /\ Cardinality(s) <= n + 1
        BY <1>1
      <3> QED BY <3>1, <3>2, <3>3
    <2>3. \A s \in C(n) : s \in C(n + 1)
      BY <1>1
    <2>4. {} \in C(n)
      BY FS_EmptySet
    <2> HIDE DEF C
    <2>5. \A s \in C(n + 1) : s \in SUBSET D
      BY DEF C
    <2>6. h \in [C(n + 1) -> Int]
      <3>1. ASSUME NEW s \in C(n + 1), s \notin C(n) PROVE f[Pick(s)] + g[s \ {Pick(s)}] \in Int
        <4>1. s # {}
          BY <2>4, <3>1
        <4>2. Pick(s) \in s /\ s \ {Pick(s)} \in C(n) /\ s \in SUBSET D
          BY <2>2, <2>5, <4>1
        <4>3. f[Pick(s)] \in Int /\ g[s \ {Pick(s)}] \in Int
          BY <2>1, <4>2
        <4> QED BY <4>3
      <3> QED BY <3>1
    <2>7. Sums(h, f, C(n + 1))
      <3>1. \A s \in C(n) : h[s] = g[s]
        BY <2>3
      <3>2. \A s \in C(n + 1) : s # {} => h[s \ {Pick(s)}] = g[s \ {Pick(s)}]
        BY <2>2, <3>1
      <3>3. ASSUME NEW s \in C(n + 1) PROVE h[s] = IF s = {} THEN 0 ELSE f[Pick(s)] + h[s \ {Pick(s)}]
        <4>1. CASE s \in C(n)
          BY <2>1, <3>1, <3>2, <4>1 DEF Sums
        <4>2. CASE s \notin C(n)
          BY <2>4, <3>2, <4>2
        <4> QED BY <4>1, <4>2
      <3> HIDE DEF h
      <3> QED BY <3>3 DEF Sums
    <2> HIDE DEF h
    <2> QED BY <2>6, <2>7
  <1> HIDE DEF N
  <1>4. Nat \subseteq N
    BY <1>2, <1>3, NatInduct
  <1>5. Cardinality(D) \in N
    BY <1>4, FS_CardinalityType
  <1>6. C(Cardinality(D)) = SUBSET D
    BY <1>1
  <1> HIDE DEF C
  <1> QED BY <1>5, <1>6 DEF N

\* It is determined by f.
LEMMA SumUnique ==
  ASSUME NEW D, IsFiniteSet(D), NEW f, NEW g, NEW h, Sums(g, f, SUBSET D), Sums(h, f, SUBSET D)
  PROVE  g[D] = h[D]
  <1> DEFINE N == {n \in Nat : \A s \in SUBSET D : Cardinality(s) = n => g[s] = h[s]}
  <1>1. \A s \in SUBSET D : IsFiniteSet(s) /\ Cardinality(s) \in Nat
    BY FS_Subset, FS_CardinalityType
  <1>2. 0 \in N
    <2>1. \A s \in SUBSET D : Cardinality(s) = 0 => s = {}
      BY <1>1, FS_EmptySet
    <2> QED BY <2>1 DEF Sums
  <1>3. ASSUME NEW n \in Nat, n \in N PROVE n + 1 \in N
    <2>1. ASSUME NEW s \in SUBSET D, Cardinality(s) = n + 1 PROVE g[s] = h[s]
      <3>1. s # {} /\ Pick(s) \in s
        BY <1>1, <2>1, FS_EmptySet DEF Pick
      <3>2. Cardinality(s \ {Pick(s)}) = (n + 1) - 1
        BY <1>1, <2>1, <3>1, FS_RemoveElement
      <3>3. (n + 1) - 1 = n
        OBVIOUS
      <3>4. g[s \ {Pick(s)}] = h[s \ {Pick(s)}]
        BY <1>3, <3>2, <3>3
      <3>5. g[s] = f[Pick(s)] + g[s \ {Pick(s)}] /\ h[s] = f[Pick(s)] + h[s \ {Pick(s)}]
        BY <3>1 DEF Sums
      <3> QED BY <3>4, <3>5
    <2> QED BY <2>1
  <1> HIDE DEF N
  <1>4. Nat \subseteq N
    BY <1>2, <1>3, NatInduct
  <1>5. Cardinality(D) \in N
    BY <1>4, FS_CardinalityType
  <1> QED BY <1>5 DEF N

LEMMA SumIs ==
  ASSUME NEW D, IsFiniteSet(D), NEW f, NEW g, \A x \in D : f[x] \in Int, Sums(g, f, SUBSET D), NEW S \in SUBSET D
  PROVE  SumFunctionOnSet(f, S) = g[S]
  <1> DEFINE Body(h) == [s \in SUBSET S |-> IF s = {} THEN 0 ELSE f[CHOOSE x \in s : TRUE] + h[s \ {CHOOSE x \in s : TRUE}]]
             iter == CHOOSE h : h = Body(h)
  <1>1. SumFunctionOnSet(f, S) = iter[S]
    BY DEF SumFunctionOnSet, FoldFunctionOnSet, MapThenFoldSet
  <1>2. IsFiniteSet(S)
    BY FS_Subset
  <1>3. PICK h \in [SUBSET S -> Int] : Sums(h, f, SUBSET S)
    BY <1>2, SumExists
  <1>4. h = Body(h)
    BY <1>3 DEF Sums, Pick
  <1> HIDE DEF Body
  <1>5. iter = Body(iter)
    BY <1>4, Zenon
  <1> HIDE DEF iter
  <1>6. Sums(iter, f, SUBSET S)
    BY <1>5 DEF Sums, Pick, Body
  <1>7. Sums(g, f, SUBSET S)
    BY DEF Sums
  <1> QED BY <1>1, <1>2, <1>6, <1>7, SumUnique

\* The sum over the empty set, and over a set with one element more.
LEMMA SumEmpty ==
  ASSUME NEW f
  PROVE  SumFunctionOnSet(f, {}) = 0
  <1> DEFINE D == {}
  <1>1. IsFiniteSet(D) /\ D \in SUBSET D /\ \A x \in D : f[x] \in Int
    BY FS_EmptySet
  <1> HIDE DEF D
  <1>2. PICK g \in [SUBSET D -> Int] : Sums(g, f, SUBSET D)
    BY <1>1, SumExists
  <1>3. SumFunctionOnSet(f, D) = g[D]
    BY <1>1, <1>2, SumIs
  <1>4. g[D] = 0
    BY <1>1, <1>2 DEF Sums, D
  <1> QED BY <1>3, <1>4 DEF D

LEMMA SumType ==
  ASSUME NEW S, IsFiniteSet(S), NEW f, \A x \in S : f[x] \in Int
  PROVE  SumFunctionOnSet(f, S) \in Int
  <1>1. PICK g \in [SUBSET S -> Int] : Sums(g, f, SUBSET S)
    BY SumExists
  <1>2. SumFunctionOnSet(f, S) = g[S]
    BY <1>1, SumIs
  <1> QED BY <1>1, <1>2

LEMMA SumAdd ==
  ASSUME NEW S, IsFiniteSet(S), NEW x, x \notin S, NEW f, \A y \in S \cup {x} : f[y] \in Int
  PROVE  SumFunctionOnSet(f, S \cup {x}) = SumFunctionOnSet(f, S) + f[x]
  <1> DEFINE D == S \cup {x}
  <1>1. IsFiniteSet(D)
    BY FS_AddElement
  <1> HIDE DEF D
  <1>2. \A y \in D : f[y] \in Int
    BY DEF D
  <1>3. PICK g \in [SUBSET D -> Int] : Sums(g, f, SUBSET D)
    BY <1>1, <1>2, SumExists
  <1> DEFINE N == {n \in Nat : \A T \in SUBSET D : Cardinality(T) = n => \A y \in D \ T : g[T \cup {y}] = g[T] + f[y]}
  <1>4. \A T \in SUBSET D : IsFiniteSet(T) /\ Cardinality(T) \in Nat
    BY <1>1, FS_Subset, FS_CardinalityType
  <1>5. g[{}] = 0
    BY <1>3 DEF Sums
  <1>6. 0 \in N
    <2>1. ASSUME NEW T \in SUBSET D, Cardinality(T) = 0, NEW y \in D \ T PROVE g[T \cup {y}] = g[T] + f[y]
      <3>1. T = {}
        BY <1>4, <2>1, FS_EmptySet
      <3>2. Pick({y}) = y /\ {y} \ {y} = {} /\ {y} # {}
        BY DEF Pick
      <3>3. g[{y}] = f[y] + g[{}]
        BY <1>3, <3>2 DEF Sums
      <3>4. T \cup {y} = {y} /\ f[y] \in Int
        BY <1>2, <3>1
      <3> QED BY <1>5, <3>1, <3>3, <3>4
    <2> QED BY <2>1
  <1>7. ASSUME NEW n \in Nat, n \in N PROVE n + 1 \in N
    <2>1. ASSUME NEW T \in SUBSET D, Cardinality(T) = n + 1, NEW y \in D \ T PROVE g[T \cup {y}] = g[T] + f[y]
      <3> DEFINE U == T \cup {y}
                 z == Pick(U)
                 R == T \ {z}
      <3>1. z \in U
        BY DEF Pick
      <3>2. g[U] = f[z] + g[U \ {z}]
        BY <1>3, <3>1 DEF Sums
      <3> HIDE DEF z
      <3>3. f[y] \in Int /\ f[z] \in Int /\ g[T] \in Int /\ R \in SUBSET D
        BY <1>2, <1>3, <3>1
      <3>4. CASE z = y
        <4>1. U \ {z} = T
          BY <3>4
        <4>2. g[U] = f[y] + g[T]
          BY <3>2, <3>4, <4>1
        <4> HIDE DEF U
        <4>3. g[U] = g[T] + f[y]
          BY <3>3, <4>2
        <4> QED BY <4>3 DEF U
      <3>5. CASE z # y
        <4>1. z \in T /\ U \ {z} = R \cup {y} /\ R \cup {z} = T /\ y \in D \ R /\ z \in D \ R
          BY <3>1, <3>5
        <4>2. IsFiniteSet(T)
          BY <1>4
        <4>3. Cardinality(R) = (n + 1) - 1
          <5>1. Cardinality(T \ {z}) = Cardinality(T) - 1
            BY <4>1, <4>2, FS_RemoveElement
          <5> QED BY <2>1, <5>1
        <4>4. (n + 1) - 1 = n
          OBVIOUS
        <4> HIDE DEF R
        <4>5. g[R \cup {y}] = g[R] + f[y] /\ g[R \cup {z}] = g[R] + f[z]
          BY <1>7, <3>3, <4>1, <4>3, <4>4
        <4>6. g[R] \in Int
          BY <1>3, <3>3
        <4> HIDE DEF U
        <4>7. g[U] = f[z] + (g[R] + f[y]) /\ g[T] = g[R] + f[z]
          BY <3>2, <4>1, <4>5
        <4> QED BY <3>3, <4>6, <4>7 DEF U
      <3> QED BY <3>4, <3>5
    <2> QED BY <2>1
  <1> HIDE DEF N
  <1>8. Nat \subseteq N
    BY <1>6, <1>7, NatInduct
  <1>9. S \in SUBSET D /\ x \in D \ S /\ D = S \cup {x}
    BY DEF D
  <1>10. Cardinality(S) \in N
    BY <1>4, <1>8, <1>9
  <1>11. g[D] = g[S] + f[x]
    BY <1>9, <1>10 DEF N
  <1>12. SumFunctionOnSet(f, D) = g[D] /\ SumFunctionOnSet(f, S) = g[S]
    BY <1>1, <1>2, <1>3, <1>9, SumIs
  <1> QED BY <1>9, <1>11, <1>12

\* The sum of numbers that are not negative grows with the set.
LEMMA SumSubset ==
  ASSUME NEW S, IsFiniteSet(S), NEW T \in SUBSET S, NEW f, \A x \in S : f[x] \in Nat
  PROVE  SumFunctionOnSet(f, T) <= SumFunctionOnSet(f, S)
  <1> DEFINE P == {U \in SUBSET (S \ T) : SumFunctionOnSet(f, T) <= SumFunctionOnSet(f, T \cup U)}
  <1>1. \A U \in SUBSET S : IsFiniteSet(U) /\ SumFunctionOnSet(f, U) \in Int
    BY FS_Subset, SumType
  <1>2. {} \in P
    <2>1. T \cup {} = T
      OBVIOUS
    <2> QED BY <1>1, <2>1
  <1>3. ASSUME NEW U \in SUBSET (S \ T), NEW x \in (S \ T) \ U, U \in P PROVE U \cup {x} \in P
    <2> DEFINE V == T \cup U
    <2>1. T \cup (U \cup {x}) = V \cup {x} /\ V \in SUBSET S /\ x \notin V /\ x \in S
      OBVIOUS
    <2>2. SumFunctionOnSet(f, T) <= SumFunctionOnSet(f, V)
      BY <1>3
    <2> HIDE DEF V
    <2>3. IsFiniteSet(V) /\ \A y \in V \cup {x} : f[y] \in Int
      BY <1>1, <2>1
    <2>4. SumFunctionOnSet(f, V \cup {x}) = SumFunctionOnSet(f, V) + f[x]
      BY <2>1, <2>3, SumAdd
    <2>5. SumFunctionOnSet(f, T) <= SumFunctionOnSet(f, V) + f[x]
      <3>1. SumFunctionOnSet(f, T) \in Int /\ SumFunctionOnSet(f, V) \in Int /\ f[x] \in Nat
        BY <1>1, <2>1
      <3> QED BY <2>2, <3>1
    <2> QED BY <2>1, <2>4, <2>5
  <1>4. IsFiniteSet(S \ T)
    BY FS_Subset
  <1> HIDE DEF P
  <1>5. S \ T \in P
    BY <1>2, <1>3, <1>4, SetInduct
  <1>6. T \cup (S \ T) = S
    OBVIOUS
  <1> QED BY <1>5, <1>6 DEF P

\* If every term of one sum is bounded by a term of another, and different ones by different ones,
\* then so are the sums.
LEMMA SumInjection ==
  ASSUME NEW T, IsFiniteSet(T), NEW S, IsFiniteSet(S), NEW f, NEW g, NEW h,
         \A t \in T : h[t] \in S /\ f[t] \in Int /\ f[t] <= g[h[t]],
         \A t, u \in T : h[t] = h[u] => t = u,
         \A s \in S : g[s] \in Nat
  PROVE  SumFunctionOnSet(f, T) <= SumFunctionOnSet(g, S)
  <1> DEFINE Img(U) == {h[t] : t \in U}
             P == {U \in SUBSET T : SumFunctionOnSet(f, U) <= SumFunctionOnSet(g, Img(U))}
  <1>1. \A U \in SUBSET T : IsFiniteSet(U) /\ SumFunctionOnSet(f, U) \in Int
    BY FS_Subset, SumType
  <1>2. \A U \in SUBSET T : Img(U) \in SUBSET S
    OBVIOUS
  <1>3. \A U \in SUBSET T : IsFiniteSet(Img(U)) /\ SumFunctionOnSet(g, Img(U)) \in Int
    <2> HIDE DEF Img
    <2>1. \A R \in SUBSET S : IsFiniteSet(R) /\ SumFunctionOnSet(g, R) \in Int
      <3>1. ASSUME NEW R \in SUBSET S PROVE IsFiniteSet(R) /\ \A s \in R : g[s] \in Int
        BY FS_Subset
      <3> QED BY <3>1, SumType
    <2> QED BY <1>2, <2>1
  <1>4. {} \in P
    <2>1. Img({}) = {}
      OBVIOUS
    <2> HIDE DEF Img
    <2> QED BY <2>1, SumEmpty
  <1>5. ASSUME NEW U \in SUBSET T, NEW x \in T \ U, U \in P PROVE U \cup {x} \in P
    <2>1. Img(U \cup {x}) = Img(U) \cup {h[x]} /\ h[x] \notin Img(U) /\ h[x] \in S
      OBVIOUS
    <2>2. SumFunctionOnSet(f, U) <= SumFunctionOnSet(g, Img(U))
      BY <1>5
    <2>3. SumFunctionOnSet(f, U \cup {x}) = SumFunctionOnSet(f, U) + f[x]
      BY <1>1, SumAdd
    <2>4. SumFunctionOnSet(g, Img(U) \cup {h[x]}) = SumFunctionOnSet(g, Img(U)) + g[h[x]]
      <3>1. IsFiniteSet(Img(U)) /\ \A y \in Img(U) \cup {h[x]} : g[y] \in Int
        BY <1>2, <1>3, <2>1
      <3> HIDE DEF Img
      <3> QED BY <2>1, <3>1, SumAdd
    <2>5. SumFunctionOnSet(f, U) + f[x] <= SumFunctionOnSet(g, Img(U)) + g[h[x]]
      <3>1. SumFunctionOnSet(f, U) \in Int /\ SumFunctionOnSet(g, Img(U)) \in Int /\ f[x] \in Int /\ g[h[x]] \in Int
            /\ f[x] <= g[h[x]]
        <4> HIDE DEF Img
        <4> QED BY <1>1, <1>3
      <3> HIDE DEF Img
      <3> QED BY <2>2, <3>1
    <2> HIDE DEF Img
    <2> QED BY <2>1, <2>3, <2>4, <2>5
  <1> HIDE DEF P
  <1>6. T \in P
    BY <1>4, <1>5, SetInduct
  <1>7. SumFunctionOnSet(f, T) <= SumFunctionOnSet(g, Img(T))
    BY <1>6 DEF P
  <1>8. SumFunctionOnSet(g, Img(T)) <= SumFunctionOnSet(g, S)
    <2>1. Img(T) \in SUBSET S
      BY <1>2
    <2> HIDE DEF Img
    <2> QED BY <2>1, SumSubset
  <1>9. SumFunctionOnSet(f, T) \in Int /\ SumFunctionOnSet(g, Img(T)) \in Int /\ SumFunctionOnSet(g, S) \in Int
    BY <1>1, <1>3, SumType
  <1> HIDE DEF Img
  <1> QED BY <1>7, <1>8, <1>9

\* The sum over two sets that have no element in common.
LEMMA SumUnion ==
  ASSUME NEW S, IsFiniteSet(S), NEW T, IsFiniteSet(T), S \cap T = {}, NEW f, \A x \in S \cup T : f[x] \in Int
  PROVE  SumFunctionOnSet(f, S \cup T) = SumFunctionOnSet(f, S) + SumFunctionOnSet(f, T)
  <1> DEFINE P == {U \in SUBSET T : SumFunctionOnSet(f, S \cup U) = SumFunctionOnSet(f, S) + SumFunctionOnSet(f, U)}
  <1>1. SumFunctionOnSet(f, S) \in Int /\ \A U \in SUBSET T : IsFiniteSet(U) /\ SumFunctionOnSet(f, U) \in Int
    BY FS_Subset, SumType
  <1>2. {} \in P
    <2>1. S \cup {} = S
      OBVIOUS
    <2> QED BY <1>1, <2>1, SumEmpty
  <1>3. ASSUME NEW U \in SUBSET T, NEW x \in T \ U, U \in P PROVE U \cup {x} \in P
    <2>1. IsFiniteSet(S \cup U) /\ IsFiniteSet(U) /\ x \notin S \cup U /\ x \notin U
      BY <1>1, FS_Union
    <2>2. (\A y \in U \cup {x} : f[y] \in Int) /\ (\A y \in (S \cup U) \cup {x} : f[y] \in Int)
      OBVIOUS
    <2>3. SumFunctionOnSet(f, U \cup {x}) = SumFunctionOnSet(f, U) + f[x]
      BY <2>1, <2>2, SumAdd
    <2>4. SumFunctionOnSet(f, (S \cup U) \cup {x}) = SumFunctionOnSet(f, S \cup U) + f[x]
      BY <2>1, <2>2, SumAdd
    <2>5. SumFunctionOnSet(f, S \cup U) = SumFunctionOnSet(f, S) + SumFunctionOnSet(f, U)
      BY <1>3
    <2>6. SumFunctionOnSet(f, U) \in Int /\ f[x] \in Int
      BY <1>1, <2>2
    <2>7. (S \cup U) \cup {x} = S \cup (U \cup {x})
      OBVIOUS
    <2>8. SumFunctionOnSet(f, S \cup (U \cup {x})) = SumFunctionOnSet(f, S) + SumFunctionOnSet(f, U \cup {x})
      BY <1>1, <2>3, <2>4, <2>5, <2>6, <2>7
    <2> QED BY <2>8
  <1> HIDE DEF P
  <1>4. T \in P
    BY <1>2, <1>3, SetInduct
  <1> QED BY <1>4 DEF P

\* Numbers that are not negative have such a sum.
LEMMA SumNat ==
  ASSUME NEW S, IsFiniteSet(S), NEW f, \A x \in S : f[x] \in Nat
  PROVE  SumFunctionOnSet(f, S) \in Nat
  <1>1. SumFunctionOnSet(f, {}) <= SumFunctionOnSet(f, S)
    BY SumSubset
  <1>2. SumFunctionOnSet(f, S) \in Int
    BY SumType
  <1> QED BY <1>1, <1>2, SumEmpty

\* A sum of linear combinations is bounded by that of what bounds them.
LEMMA SumLinear ==
  ASSUME NEW S, IsFiniteSet(S), NEW f, NEW g, NEW h, NEW k \in Int,
         \A x \in S : f[x] \in Int /\ g[x] \in Int /\ h[x] \in Int /\ k * f[x] + g[x] <= h[x]
  PROVE  k * SumFunctionOnSet(f, S) + SumFunctionOnSet(g, S) <= SumFunctionOnSet(h, S)
  <1> DEFINE P == {U \in SUBSET S : k * SumFunctionOnSet(f, U) + SumFunctionOnSet(g, U) <= SumFunctionOnSet(h, U)}
  <1>1. \A U \in SUBSET S : IsFiniteSet(U)
    BY FS_Subset
  <1>2. \A U \in SUBSET S : SumFunctionOnSet(f, U) \in Int /\ SumFunctionOnSet(g, U) \in Int /\ SumFunctionOnSet(h, U) \in Int
    BY <1>1, SumType
  <1>3. {} \in P
    BY SumEmpty
  <1>4. ASSUME NEW U \in SUBSET S, NEW x \in S \ U, U \in P PROVE U \cup {x} \in P
    <2>1. \A y \in U \cup {x} : f[y] \in Int /\ g[y] \in Int /\ h[y] \in Int
      OBVIOUS
    <2>2. /\ SumFunctionOnSet(f, U \cup {x}) = SumFunctionOnSet(f, U) + f[x]
          /\ SumFunctionOnSet(g, U \cup {x}) = SumFunctionOnSet(g, U) + g[x]
          /\ SumFunctionOnSet(h, U \cup {x}) = SumFunctionOnSet(h, U) + h[x]
      BY <1>1, <2>1, SumAdd
    <2>3. \A a, b, c, d, e, i \in Int : k * a + b <= c /\ k * d + e <= i => k * (a + d) + (b + e) <= c + i
      OBVIOUS
    <2>4. k * SumFunctionOnSet(f, U) + SumFunctionOnSet(g, U) <= SumFunctionOnSet(h, U)
      BY <1>4
    <2>5. k * f[x] + g[x] <= h[x] /\ f[x] \in Int /\ g[x] \in Int /\ h[x] \in Int
      OBVIOUS
    <2>6. k * (SumFunctionOnSet(f, U) + f[x]) + (SumFunctionOnSet(g, U) + g[x]) <= SumFunctionOnSet(h, U) + h[x]
      BY <1>2, <2>3, <2>4, <2>5
    <2> QED BY <2>2, <2>6
  <1> HIDE DEF P
  <1>5. S \in P
    BY <1>3, <1>4, SetInduct
  <1> QED BY <1>5 DEF P
=============================================================================
