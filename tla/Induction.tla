------------------------------- MODULE Induction ------------------------------
(***************************************************************************)
(* Induction over the naturals in the form that first-order provers take:  *)
(* a set of counterexamples has a least one. By it, sums over finite sets. *)
(***************************************************************************)
EXTENDS Integers, FiniteSets, FiniteSetsExt, FiniteSetTheorems, WellFoundedInduction, TLAPS

(* A set of naturals that is not empty has a least element. *)
LEMMA LeastNumber ==
  ASSUME NEW T \in SUBSET Nat, T # {}
  PROVE  \E x \in T : \A y \in T : x <= y
<1>. DEFINE R == OpToRel(<, Nat)
<1>1. IsWellFoundedOn(R, Nat)
  BY NatLessThanWellFounded
<1>2. PICK x \in T : \A y \in T : ~(<<y, x>> \in R)
  <2>. HIDE DEF R
  <2>. QED BY <1>1, WFMin
<1>3. \A y \in T : ~(y < x)
  BY <1>2 DEF OpToRel
<1>. QED BY <1>3

(* A set that has 0 and, below n, the successor of each of its elements,   *)
(* has every number up to n.                                               *)
LEMMA UpTo ==
  ASSUME NEW n \in Nat, NEW T, 0 \in T, \A i \in 0 .. n - 1 : i \in T => i + 1 \in T
  PROVE  0 .. n \subseteq T
<1>. DEFINE Bad == {i \in 0 .. n : i \notin T}
<1>. SUFFICES ASSUME Bad # {} PROVE FALSE
  OBVIOUS
<1>1. PICK i \in Bad : \A j \in Bad : i <= j
  <2>1. Bad \in SUBSET Nat
    OBVIOUS
  <2>. HIDE DEF Bad
  <2>. QED BY <2>1, LeastNumber
<1>2. i \in 0 .. n /\ i \notin T /\ i # 0 /\ i - 1 \in 0 .. n - 1
  BY <1>1
<1>3. i - 1 \in T
  BY <1>1, <1>2
<1>. QED BY <1>2, <1>3

-------------------------------------------------------------------------------
(* Sums *)

(* The sum of f over S, and the equation of the recursion behind it. *)
Sum(f, S) == MapThenSumSet(LAMBDA x : f[x], S)

Some(s) == CHOOSE x \in s : TRUE

AddsUp(g, f, D) ==
    g = [s \in D |-> IF s = {} THEN 0 ELSE f[Some(s)] + g[s \ {Some(s)}]]

Adds(g, f, S) == AddsUp(g, f, SUBSET S)

(* The recursion has a solution: one for all sets of n elements gives one  *)
(* for those of n + 1.                                                     *)
LEMMA SumExists ==
  ASSUME NEW S, IsFiniteSet(S), NEW f, \A x \in S : f[x] \in Int
  PROVE  \E g \in [SUBSET S -> Int] : AddsUp(g, f, SUBSET S)
<1>. DEFINE Small(n) == {s \in SUBSET S : Cardinality(s) <= n}
            T == {n \in Nat : \E g \in [Small(n) -> Int] : AddsUp(g, f, Small(n))}
<1>0. /\ Cardinality(S) \in Nat
      /\ \A s \in SUBSET S : /\ IsFiniteSet(s) /\ Cardinality(s) \in Nat
                             /\ Cardinality(s) <= Cardinality(S)
  BY FS_Subset, FS_CardinalityType
<1>1. \A s \in SUBSET S : s # {} => /\ Some(s) \in s
                                    /\ s \ {Some(s)} \in SUBSET S
                                    /\ Cardinality(s \ {Some(s)}) = Cardinality(s) - 1
  BY <1>0, FS_RemoveElement DEF Some
<1>2. 0 \in T
  <2>. DEFINE g == [s \in Small(0) |-> 0]
  <2>1. \A s \in Small(0) : s = {}
    BY <1>0, FS_EmptySet
  <2>2. g \in [Small(0) -> Int]
    OBVIOUS
  <2>3. AddsUp(g, f, Small(0))
    BY <2>1 DEF AddsUp
  <2>. QED BY <2>2, <2>3
<1>3. ASSUME NEW n \in 0 .. Cardinality(S) - 1, n \in T PROVE n + 1 \in T
  <2>1. PICK g \in [Small(n) -> Int] : AddsUp(g, f, Small(n))
    BY <1>3
  <2>. DEFINE v(s) == IF s = {} THEN 0 ELSE f[Some(s)] + g[s \ {Some(s)}]
              h == [s \in Small(n + 1) |-> v(s)]
  <2>2. \A s \in Small(n + 1) : s # {} => s \ {Some(s)} \in Small(n)
    BY <1>0, <1>1
  <2>3. h \in [Small(n + 1) -> Int]
    BY <1>1, <2>2
  <2>4. \A s \in Small(n) : s \in Small(n + 1) /\ g[s] = v(s)
    <3>1. \A s \in Small(n) : s \in Small(n + 1)
      BY <1>0
    <3>2. \A s \in Small(n) : g[s] = v(s)
      <4>. HIDE DEF Small
      <4>. QED BY <2>1 DEF AddsUp
    <3>. QED BY <3>1, <3>2
  <2>5. \A s \in Small(n) : h[s] = g[s]
    BY <2>4
  <2>6. \A s \in Small(n + 1) :
           h[s] = IF s = {} THEN 0 ELSE f[Some(s)] + h[s \ {Some(s)}]
    BY <2>2, <2>5
  <2>7. AddsUp(h, f, Small(n + 1))
    <3>. HIDE DEF v, Small
    <3>1. h = [s \in Small(n + 1) |-> h[s]]
      OBVIOUS
    <3>. QED BY <2>6, <3>1, Zenon DEF AddsUp
  <2>8. n + 1 \in Nat
    OBVIOUS
  <2>. HIDE DEF h, Small
  <2>. QED BY <2>3, <2>7, <2>8
<1>4. Cardinality(S) \in T
  <2>. HIDE DEF T
  <2>1. 0 .. Cardinality(S) \subseteq T
    BY <1>0, <1>2, <1>3, UpTo
  <2>. QED BY <1>0, <2>1
<1>5. Small(Cardinality(S)) = SUBSET S
  BY <1>0
<1>. QED BY <1>4, <1>5

(* Two solutions agree on the sets that both are for. *)
LEMMA SumUnique ==
  ASSUME NEW S, IsFiniteSet(S), NEW f, NEW e, \A x \in S : f[x] = e[x],
         NEW R, S \subseteq R,
         NEW g, Adds(g, f, S), NEW h, Adds(h, e, R)
  PROVE  \A s \in SUBSET S : g[s] = h[s]
<1>. DEFINE Bad == {s \in SUBSET S : g[s] # h[s]}
            C == {Cardinality(s) : s \in Bad}
<1>. SUFFICES ASSUME Bad # {} PROVE FALSE
  OBVIOUS
<1>0. \A s \in SUBSET S : IsFiniteSet(s) /\ Cardinality(s) \in Nat
  BY FS_Subset, FS_CardinalityType
<1>1. PICK n \in C : \A m \in C : n <= m
  <2>1. C \in SUBSET Nat /\ C # {}
    BY <1>0
  <2>. HIDE DEF C
  <2>. QED BY <2>1, LeastNumber
<1>2. PICK s \in Bad : n = Cardinality(s)
  BY <1>1
<1>3. \A t \in SUBSET S : Cardinality(t) < Cardinality(s) => g[t] = h[t]
  BY <1>0, <1>1, <1>2
<1>4. /\ g[s] = IF s = {} THEN 0 ELSE f[Some(s)] + g[s \ {Some(s)}]
      /\ h[s] = IF s = {} THEN 0 ELSE e[Some(s)] + h[s \ {Some(s)}]
  BY DEF Adds, AddsUp
<1>5. s # {}
  BY <1>4
<1>6. Some(s) \in S /\ Cardinality(s \ {Some(s)}) < Cardinality(s)
  <2>1. Some(s) \in s
    BY <1>5 DEF Some
  <2>. QED BY <1>0, <2>1, FS_RemoveElement
<1>7. g[s \ {Some(s)}] = h[s \ {Some(s)}]
  BY <1>3, <1>6
<1>. QED BY <1>4, <1>5, <1>6, <1>7

(* Sum is the solution. *)
LEMMA SumIs ==
  ASSUME NEW S, IsFiniteSet(S), NEW f, \A x \in S : f[x] \in Int,
         NEW g, Adds(g, f, S)
  PROVE  \A s \in SUBSET S : Sum(f, s) = g[s]
<1>. TAKE s \in SUBSET S
<1>. DEFINE I == CHOOSE i : Adds(i, f, s)
<1>0. IsFiniteSet(s)
  BY FS_Subset
<1>1. Adds(I, f, s)
  BY <1>0, SumExists DEF Adds
<1>2. Sum(f, s) = I[s]
  BY DEF Sum, MapThenSumSet, MapThenFoldSet, Adds, AddsUp, Some
<1>. HIDE DEF I
<1>3. \A t \in SUBSET s : I[t] = g[t]
  <2>1. s \subseteq S /\ \A x \in s : f[x] = f[x]
    OBVIOUS
  <2>. QED BY <1>0, <1>1, <2>1, SumUnique
<1>. QED BY <1>2, <1>3

(* The sum of nothing, and the sum of a set and of the set without one of  *)
(* its elements, whichever it is.                                          *)
LEMMA SumOf ==
  ASSUME NEW S, IsFiniteSet(S), NEW f, \A x \in S : f[x] \in Int
  PROVE  /\ Sum(f, S) \in Int
         /\ S = {} => Sum(f, S) = 0
         /\ \A x \in S : Sum(f, S) = f[x] + Sum(f, S \ {x})
<1>1. PICK g \in [SUBSET S -> Int] : Adds(g, f, S)
  BY SumExists DEF Adds
<1>2. \A s \in SUBSET S : Sum(f, s) = g[s]
  BY <1>1, SumIs
<1>3. \A s \in SUBSET S : g[s] = IF s = {} THEN 0 ELSE f[Some(s)] + g[s \ {Some(s)}]
  BY <1>1 DEF Adds, AddsUp
<1>. DEFINE Bad == {s \in SUBSET S : \E x \in s : g[s] # f[x] + g[s \ {x}]}
            C == {Cardinality(s) : s \in Bad}
<1>4. Bad = {}
  <2>. SUFFICES ASSUME Bad # {} PROVE FALSE
    OBVIOUS
  <2>0. \A s \in SUBSET S : IsFiniteSet(s) /\ Cardinality(s) \in Nat
    BY FS_Subset, FS_CardinalityType
  <2>1. PICK n \in C : \A m \in C : n <= m
    <3>1. C \in SUBSET Nat /\ C # {}
      BY <2>0
    <3>. HIDE DEF C
    <3>. QED BY <3>1, LeastNumber
  <2>2. PICK s \in Bad : n = Cardinality(s) /\ s \in SUBSET S
    BY <2>1
  <2>3. ASSUME NEW t \in SUBSET S, Cardinality(t) < Cardinality(s), NEW x \in t
        PROVE  g[t] = f[x] + g[t \ {x}]
    <3>1. Cardinality(t) \notin C
      <4>. HIDE DEF C, Bad
      <4>. QED BY <2>0, <2>1, <2>2, <2>3
    <3>2. t \notin Bad
      BY <3>1
    <3>. QED BY <3>2
  <2>4. PICK x \in s : g[s] # f[x] + g[s \ {x}]
    OBVIOUS
  <2>. DEFINE c == Some(s)
              s1 == s \ {c}
              s2 == s \ {x}
              s3 == s1 \ {x}
  <2>5. c \in s /\ g[s] = f[c] + g[s1] /\ x # c
    BY <1>3, <2>4 DEF Some
  <2>. HIDE DEF c
  <2>6. Cardinality(s1) < Cardinality(s) /\ Cardinality(s2) < Cardinality(s)
    BY <2>0, <2>5, FS_RemoveElement
  <2>7. g[s1] = f[x] + g[s3]
    BY <2>3, <2>5, <2>6
  <2>8. g[s2] = f[c] + g[s2 \ {c}]
    BY <2>3, <2>5, <2>6
  <2>9. s2 \ {c} = s3
    OBVIOUS
  <2>10. f[c] \in Int /\ f[x] \in Int /\ g[s3] \in Int
    BY <2>5
  <2>11. g[s] # f[x] + g[s2] /\ g[s2] = f[c] + g[s3]
    BY <2>4, <2>8, <2>9
  <2>. HIDE DEF s1, s2, s3
  <2>12. \A u, v, w \in Int : u + (v + w) = v + (u + w)
    OBVIOUS
  <2>. QED BY <2>5, <2>7, <2>10, <2>11, <2>12
<1>5. \A x \in S : g[S] = f[x] + g[S \ {x}]
  BY <1>4
<1>6. S \in SUBSET S /\ \A x \in S : S \ {x} \in SUBSET S
  OBVIOUS
<1>7. /\ Sum(f, S) = g[S] /\ g[S] \in Int
      /\ \A x \in S : Sum(f, S \ {x}) = g[S \ {x}]
      /\ S = {} => g[S] = 0
  BY <1>1, <1>2, <1>3, <1>6
<1>. QED BY <1>5, <1>7

(* The sum depends on the values alone. *)
LEMMA SumSame ==
  ASSUME NEW S, IsFiniteSet(S), NEW f, \A x \in S : f[x] \in Int,
         NEW e, \A x \in S : e[x] = f[x]
  PROVE  Sum(e, S) = Sum(f, S)
<1>0. S \in SUBSET S /\ \A x \in S : e[x] \in Int
  OBVIOUS
<1>1. PICK g \in [SUBSET S -> Int] : Adds(g, f, S)
  BY SumExists DEF Adds
<1>2. PICK h \in [SUBSET S -> Int] : Adds(h, e, S)
  BY <1>0, SumExists DEF Adds
<1>3. Sum(f, S) = g[S]
  BY <1>0, <1>1, SumIs
<1>4. Sum(e, S) = h[S]
  BY <1>0, <1>2, SumIs
<1>5. \A s \in SUBSET S : g[s] = h[s]
  <2>1. S \subseteq S /\ \A x \in S : f[x] = e[x]
    OBVIOUS
  <2>. QED BY <1>1, <1>2, <2>1, SumUnique
<1>. QED BY <1>0, <1>3, <1>4, <1>5

(* One value changes the sum by as much as it changes itself. *)
LEMMA SumChange ==
  ASSUME NEW S, IsFiniteSet(S), NEW f, \A y \in S : f[y] \in Int,
         NEW x \in S, NEW e, e[x] \in Int, \A y \in S : y # x => e[y] = f[y]
  PROVE  Sum(e, S) = Sum(f, S) - f[x] + e[x]
<1>. DEFINE R == S \ {x}
<1>1. IsFiniteSet(R) /\ \A y \in S : e[y] \in Int
  BY FS_RemoveElement
<1>2. Sum(e, R) = Sum(f, R) /\ Sum(f, R) \in Int
  <2>1. \A y \in R : f[y] \in Int /\ e[y] = f[y]
    OBVIOUS
  <2>. HIDE DEF R
  <2>. QED BY <1>1, <2>1, SumSame, SumOf
<1>3. Sum(e, S) = e[x] + Sum(e, R) /\ Sum(f, S) = f[x] + Sum(f, R)
  BY <1>1, SumOf
<1>4. f[x] \in Int
  OBVIOUS
<1>. HIDE DEF R
<1>. QED BY <1>2, <1>3, <1>4

(* A sum is at least its least value times the number of values. *)
LEMMA SumAtLeast ==
  ASSUME NEW S, IsFiniteSet(S), NEW f, \A x \in S : f[x] \in Int,
         NEW b \in Int, \A x \in S : f[x] >= b
  PROVE  Sum(f, S) >= b * Cardinality(S)
<1>. DEFINE T == {n \in Nat : \A s \in SUBSET S :
                     Cardinality(s) = n => Sum(f, s) >= b * n}
<1>0. /\ Cardinality(S) \in Nat
      /\ \A s \in SUBSET S : /\ IsFiniteSet(s) /\ Cardinality(s) \in Nat
                             /\ \A x \in s : f[x] \in Int /\ f[x] >= b
  BY FS_Subset, FS_CardinalityType
<1>1. 0 \in T
  <2>1. \A s \in SUBSET S : Cardinality(s) = 0 => Sum(f, s) = 0
    BY <1>0, FS_EmptySet, SumOf
  <2>. QED BY <2>1
<1>2. ASSUME NEW n \in 0 .. Cardinality(S) - 1, n \in T PROVE n + 1 \in T
  <2>. SUFFICES ASSUME NEW s \in SUBSET S, Cardinality(s) = n + 1
       PROVE  Sum(f, s) >= b * (n + 1)
    OBVIOUS
  <2>1. PICK x \in s : TRUE
    BY FS_EmptySet
  <2>2. Cardinality(s \ {x}) = n /\ s \ {x} \in SUBSET S
    <3>1. IsFiniteSet(s)
      BY <1>0
    <3>2. Cardinality(s \ {x}) = Cardinality(s) - 1
      BY <2>1, <3>1, FS_RemoveElement
    <3>. HIDE DEF T
    <3>. QED BY <3>2
  <2>3. Sum(f, s) = f[x] + Sum(f, s \ {x})
    BY <1>0, SumOf
  <2>4. Sum(f, s \ {x}) >= b * n /\ Sum(f, s \ {x}) \in Int
    BY <1>0, <1>2, <2>2, SumOf
  <2>5. \A m \in Nat : b * (m + 1) = b * m + b /\ b * m \in Int
    OBVIOUS
  <2>6. f[x] \in Int /\ f[x] >= b
    BY <1>0
  <2>. QED BY <2>3, <2>4, <2>5, <2>6
<1>3. Cardinality(S) \in T
  <2>. HIDE DEF T
  <2>1. 0 .. Cardinality(S) \subseteq T
    BY <1>0, <1>1, <1>2, UpTo
  <2>. QED BY <1>0, <2>1
<1>. QED BY <1>3

(* A sum of ones and zeros counts the ones. *)
LEMMA SumCounts ==
  ASSUME NEW S, IsFiniteSet(S), NEW f, \A x \in S : f[x] \in {0, 1}
  PROVE  Sum(f, S) = Cardinality({x \in S : f[x] = 1})
<1>. DEFINE Ones(s) == {x \in s : f[x] = 1}
            T == {n \in Nat : \A s \in SUBSET S :
                     Cardinality(s) = n => Sum(f, s) = Cardinality(Ones(s))}
<1>0. /\ Cardinality(S) \in Nat
      /\ \A s \in SUBSET S : /\ IsFiniteSet(s) /\ Cardinality(s) \in Nat
                             /\ \A x \in s : f[x] \in Int
  BY FS_Subset, FS_CardinalityType
<1>4. \A s \in SUBSET S : IsFiniteSet(Ones(s)) /\ Cardinality(Ones(s)) \in Nat
  BY FS_Subset, FS_CardinalityType
<1>1. 0 \in T
  <2>1. ASSUME NEW s \in SUBSET S, Cardinality(s) = 0 PROVE Sum(f, s) = Cardinality(Ones(s))
    <3>1. s = {} /\ Ones(s) = {}
      BY <1>0, <2>1, FS_EmptySet
    <3>. QED BY <1>0, <3>1, FS_EmptySet, SumOf
  <2>. QED BY <2>1
<1>2. ASSUME NEW n \in 0 .. Cardinality(S) - 1, n \in T PROVE n + 1 \in T
  <2>. SUFFICES ASSUME NEW s \in SUBSET S, Cardinality(s) = n + 1
       PROVE  Sum(f, s) = Cardinality(Ones(s))
    OBVIOUS
  <2>1. PICK x \in s : TRUE
    BY FS_EmptySet
  <2>. DEFINE t == s \ {x}
  <2>2. Cardinality(t) = n /\ t \in SUBSET S
    <3>1. IsFiniteSet(s) /\ n \in Nat
      BY <1>0
    <3>2. Cardinality(s \ {x}) = Cardinality(s) - 1
      <4>. HIDE DEF Ones, T
      <4>. QED BY <3>1, FS_RemoveElement
    <3>. QED BY <3>1, <3>2
  <2>3. Sum(f, s) = f[x] + Sum(f, t)
    BY <1>0, SumOf
  <2>4. Sum(f, t) = Cardinality(Ones(t))
    BY <1>2, <2>2
  <2>5. Ones(t) = Ones(s) \ {x}
    OBVIOUS
  <2>6. Cardinality(Ones(t)) = IF x \in Ones(s) THEN Cardinality(Ones(s)) - 1
                                               ELSE Cardinality(Ones(s))
    <3>1. IsFiniteSet(Ones(s))
      BY <1>4
    <3>. HIDE DEF Ones
    <3>. QED BY <2>5, <3>1, FS_RemoveElement
  <2>7. f[x] = IF x \in Ones(s) THEN 1 ELSE 0
    OBVIOUS
  <2>8. Cardinality(Ones(s)) \in Nat
    BY <1>4
  <2>. HIDE DEF t, Ones
  <2>. QED BY <2>3, <2>4, <2>6, <2>7, <2>8
<1>3. Cardinality(S) \in T
  <2>. HIDE DEF T
  <2>1. 0 .. Cardinality(S) \subseteq T
    BY <1>0, <1>1, <1>2, UpTo
  <2>. QED BY <1>0, <2>1
<1>. QED BY <1>3

(* Greater values, and further ones not below zero, make a greater sum. *)
LEMMA SumBelow ==
  ASSUME NEW S, IsFiniteSet(S), NEW f, \A x \in S : f[x] \in Int,
         NEW R, R \subseteq S, NEW e, \A x \in R : e[x] \in Int /\ e[x] <= f[x],
         \A x \in S \ R : f[x] >= 0
  PROVE  Sum(e, R) <= Sum(f, S)
<1>. DEFINE In(s) == s \cap R
            T == {n \in Nat : \A s \in SUBSET S :
                     Cardinality(s) = n => Sum(e, In(s)) <= Sum(f, s)}
<1>0. /\ Cardinality(S) \in Nat
      /\ \A s \in SUBSET S : /\ IsFiniteSet(s) /\ Cardinality(s) \in Nat
                             /\ \A x \in s : f[x] \in Int
                             /\ IsFiniteSet(In(s))
                             /\ \A x \in In(s) : e[x] \in Int
  BY FS_Subset, FS_CardinalityType
<1>1. 0 \in T
  <2>1. ASSUME NEW s \in SUBSET S, Cardinality(s) = 0
        PROVE  Sum(e, In(s)) <= Sum(f, s)
    <3>1. s = {} /\ In(s) = {}
      BY <1>0, <2>1, FS_EmptySet
    <3>2. Sum(f, s) = 0 /\ Sum(e, In(s)) = 0
      <4>. HIDE DEF In
      <4>. QED BY <1>0, <3>1, SumOf
    <3>. QED BY <3>2
  <2>. QED BY <2>1
<1>2. ASSUME NEW n \in 0 .. Cardinality(S) - 1, n \in T PROVE n + 1 \in T
  <2>. SUFFICES ASSUME NEW s \in SUBSET S, Cardinality(s) = n + 1
       PROVE  Sum(e, In(s)) <= Sum(f, s)
    OBVIOUS
  <2>0. IsFiniteSet(s) /\ n \in Nat
    <3>. HIDE DEF In, T
    <3>. QED BY <1>0
  <2>1. PICK x \in s : TRUE
    <3>. HIDE DEF In, T
    <3>. QED BY <2>0, FS_EmptySet
  <2>. DEFINE t == s \ {x}
  <2>2. Cardinality(t) = n /\ t \in SUBSET S
    <3>1. Cardinality(s \ {x}) = Cardinality(s) - 1
      <4>. HIDE DEF In, T
      <4>. QED BY <2>0, FS_RemoveElement
    <3>. HIDE DEF In, T
    <3>. QED BY <2>0, <3>1
  <2>3. Sum(f, s) = f[x] + Sum(f, t)
    <3>. HIDE DEF In, T
    <3>. QED BY <1>0, SumOf
  <2>4. Sum(e, In(t)) <= Sum(f, t)
    BY <1>2, <2>2
  <2>5. Sum(f, t) \in Int /\ Sum(e, In(t)) \in Int /\ f[x] \in Int
    <3>. HIDE DEF In, T
    <3>. QED BY <1>0, <2>2, SumOf
  <2>6. CASE x \in R
    <3>1. In(t) = In(s) \ {x} /\ x \in In(s)
      BY <2>6
    <3>2. Sum(e, In(s)) = e[x] + Sum(e, In(t))
      <4>. HIDE DEF In, T, t
      <4>. QED BY <1>0, <3>1, SumOf
    <3>3. e[x] \in Int /\ e[x] <= f[x]
      BY <2>6
    <3>. HIDE DEF In, T, t
    <3>. QED BY <2>3, <2>4, <2>5, <3>2, <3>3
  <2>7. CASE x \notin R
    <3>1. In(t) = In(s) /\ f[x] >= 0
      BY <2>7
    <3>. HIDE DEF In, T, t
    <3>. QED BY <2>3, <2>4, <2>5, <3>1
  <2>. QED BY <2>6, <2>7
<1>3. Cardinality(S) \in T
  <2>. HIDE DEF T
  <2>1. 0 .. Cardinality(S) \subseteq T
    BY <1>0, <1>1, <1>2, UpTo
  <2>. QED BY <1>0, <2>1
<1>4. In(S) = R
  OBVIOUS
<1>. QED BY <1>3, <1>4

(* Some value is not above the average. *)
LEMMA SomeBelowAverage ==
  ASSUME NEW S, IsFiniteSet(S), S # {}, NEW f, \A x \in S : f[x] \in Int,
         NEW t \in Nat, Sum(f, S) <= t
  PROVE  \E x \in S : f[x] <= t \div Cardinality(S)
<1>. DEFINE n == Cardinality(S)
            q == t \div n
<1>. SUFFICES ASSUME \A x \in S : ~(f[x] <= q) PROVE FALSE
  OBVIOUS
<1>1. n \in Nat /\ n > 0
  BY FS_CardinalityType, FS_EmptySet
<1>. HIDE DEF n
<1>2. q \in Nat /\ t < n * (q + 1)
  BY <1>1
<1>. HIDE DEF q
<1>3. \A x \in S : f[x] >= q + 1
  BY <1>2
<1>4. Sum(f, S) >= (q + 1) * n
  BY <1>2, <1>3, SumAtLeast DEF n
<1>5. (q + 1) * n = n * (q + 1) /\ n * (q + 1) \in Int
  BY <1>1, <1>2
<1>6. Sum(f, S) \in Int
  BY SumOf
<1>. QED BY <1>2, <1>4, <1>5, <1>6
===============================================================================
