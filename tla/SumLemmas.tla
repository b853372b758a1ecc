------------------------------ MODULE SumLemmas ------------------------------
(***************************************************************************)
(* What SumFunctionOnSet computes: the sum of natural numbers over a finite*)
(* set, with the laws the proofs need.  The fold it is defined by picks the*)
(* elements in some order; the sum does not depend on it, because it is the*)
(* cardinality of the set that has f[x] pairs for each x.                  *)
(***************************************************************************)
EXTENDS Functions, FiniteSets, FiniteSetTheorems, TLAPS

Pick(s) == CHOOSE x \in s : TRUE

\* f[x] pairs for each x of T.
Pairs(f, T) == {p \in T \X Nat : 1 <= p[2] /\ p[2] <= f[p[1]]}

\* One step of the fold, from what g says of smaller sets.
SumStep(f, S, g) ==
  [s \in SUBSET S |-> IF s = {} THEN 0 ELSE f[Pick(s)] + g[s \ {Pick(s)}]]

\* Induction over the subsets of a finite set: a non-empty set of them has a
\* smallest member.
LEMMA SmallestSubset ==
  ASSUME NEW S, IsFiniteSet(S), NEW T, T \subseteq SUBSET S, T # {}
  PROVE  \E U \in T : \A V \in T : ~(V \subseteq U /\ V # U)
  <1>1. IsWellFoundedOn(StrictSubsetOrdering(S), SUBSET S)
    BY FS_StrictSubsetOrderingWellFounded, FS_FiniteSubsetsOfFinite
  <1>2. PICK U \in T : \A V \in T : ~(<<V, U>> \in StrictSubsetOrdering(S))
    BY <1>1, WFMin
  <1> QED
    BY <1>2 DEF StrictSubsetOrdering

\* The pairs of one element.
LEMMA OneElement ==
  ASSUME NEW x, NEW n \in Nat
  PROVE  /\ IsFiniteSet({x} \X (1..n))
         /\ Cardinality({x} \X (1..n)) = n
  <1>1. IsFiniteSet({x}) /\ Cardinality({x}) = 1
    BY FS_Singleton
  <1>2. IsFiniteSet(1..n) /\ Cardinality(1..n) = n
    BY FS_Interval
  <1>3. /\ IsFiniteSet({x} \X (1..n))
        /\ Cardinality({x} \X (1..n)) = Cardinality({x}) * Cardinality(1..n)
    BY <1>1, <1>2, FS_Product, Zenon
  <1>4. 1 * n = n
    OBVIOUS
  <1> QED
    BY <1>1, <1>2, <1>3, <1>4

\* One more element, and as many more pairs.
LEMMA PairsAdd ==
  ASSUME NEW f, NEW T, NEW x, x \notin T, f[x] \in Nat, IsFiniteSet(Pairs(f, T))
  PROVE  /\ IsFiniteSet(Pairs(f, T \cup {x}))
         /\ Cardinality(Pairs(f, T \cup {x})) = f[x] + Cardinality(Pairs(f, T))
  <1>1. Pairs(f, T \cup {x}) = Pairs(f, T) \cup ({x} \X (1..f[x]))
    BY DEF Pairs
  <1>2. Pairs(f, T) \cap ({x} \X (1..f[x])) = {}
    BY DEF Pairs
  <1>3. IsFiniteSet({x} \X (1..f[x])) /\ Cardinality({x} \X (1..f[x])) = f[x]
    BY OneElement
  <1>4. Cardinality(Pairs(f, T)) \in Nat /\ Cardinality({}) = 0
    BY FS_CardinalityType, FS_EmptySet
  <1> DEFINE A == Pairs(f, T)
             B == {x} \X (1..f[x])
  <1>5. /\ IsFiniteSet(A \cup B)
        /\ Cardinality(A \cup B) = Cardinality(A) + Cardinality(B) - Cardinality(A \cap B)
    <2> HIDE DEF B
    <2>1. IsFiniteSet(A) /\ IsFiniteSet(B)
      BY <1>3 DEF B
    <2> HIDE DEF A
    <2> QED
      BY <2>1, FS_Union, Zenon
  <1>6. Cardinality(A \cap B) = 0
    BY <1>2, <1>4
  <1>7. Pairs(f, T \cup {x}) = A \cup B /\ Cardinality(B) = f[x] /\ Cardinality(A) \in Nat
    BY <1>1, <1>3, <1>4
  <1> HIDE DEF A, B
  <1>8. Cardinality(A \cup B) = f[x] + Cardinality(A)
    BY <1>5, <1>6, <1>7
  <1> QED
    BY <1>5, <1>7, <1>8 DEF A

\* There are finitely many pairs.
LEMMA PairsFinite ==
  ASSUME NEW f, NEW S, IsFiniteSet(S), \A x \in S : f[x] \in Nat
  PROVE  \A T \in SUBSET S : IsFiniteSet(Pairs(f, T))
  <1> DEFINE Bad == {T \in SUBSET S : ~IsFiniteSet(Pairs(f, T))}
  <1>1. SUFFICES ASSUME Bad # {} PROVE FALSE
    OBVIOUS
  <1>2. PICK U \in Bad : \A V \in Bad : ~(V \subseteq U /\ V # U)
    <2>1. Bad \subseteq SUBSET S
      OBVIOUS
    <2> HIDE DEF Bad
    <2> QED
      BY <1>1, <2>1, SmallestSubset
  <1>3. U # {}
    <2>1. Pairs(f, {}) = {}
      BY DEF Pairs
    <2> QED
      BY <2>1, <1>2, FS_EmptySet
  <1>4. PICK x \in U : TRUE
    BY <1>3
  <1>5. IsFiniteSet(Pairs(f, U \ {x}))
    BY <1>2
  <1>6. IsFiniteSet(Pairs(f, (U \ {x}) \cup {x}))
    BY <1>2, <1>5, PairsAdd
  <1>7. (U \ {x}) \cup {x} = U
    OBVIOUS
  <1> QED
    BY <1>2, <1>6, <1>7

\* The sum is the number of pairs.
LEMMA SumIsCardinality ==
  ASSUME NEW f, NEW S, IsFiniteSet(S), \A x \in S : f[x] \in Nat
  PROVE  SumFunctionOnSet(f, S) = Cardinality(Pairs(f, S))
  <1> DEFINE iter == CHOOSE g : g = SumStep(f, S, g)
             count == [s \in SUBSET S |-> Cardinality(Pairs(f, s))]
  <1>1. SumFunctionOnSet(f, S) = iter[S]
    BY DEF SumFunctionOnSet, FoldFunctionOnSet, MapThenFoldSet, SumStep, Pick
  <1>2. \A s \in SUBSET S : Cardinality(Pairs(f, s)) =
          IF s = {} THEN 0
          ELSE f[Pick(s)] + Cardinality(Pairs(f, s \ {Pick(s)}))
    <2> SUFFICES ASSUME NEW s \in SUBSET S
                 PROVE  Cardinality(Pairs(f, s)) =
                          IF s = {} THEN 0
                          ELSE f[Pick(s)] + Cardinality(Pairs(f, s \ {Pick(s)}))
      OBVIOUS
    <2>1. CASE s = {}
      <3>1. Pairs(f, s) = {}
        BY <2>1 DEF Pairs
      <3> QED
        BY <2>1, <3>1, FS_EmptySet
    <2>2. CASE s # {}
      <3>1. Pick(s) \in s
        BY <2>2 DEF Pick
      <3>2. IsFiniteSet(Pairs(f, s \ {Pick(s)}))
        BY PairsFinite
      <3>3. s = (s \ {Pick(s)}) \cup {Pick(s)}
        BY <3>1
      <3> QED
        BY <2>2, <3>1, <3>2, <3>3, PairsAdd
    <2> QED
      BY <2>1, <2>2
  <1>3. count = SumStep(f, S, count)
    <2>1. \A s \in SUBSET S : s \ {Pick(s)} \in SUBSET S
      OBVIOUS
    <2> QED
      BY <1>2, <2>1 DEF SumStep
  <1>4. iter = SumStep(f, S, iter)
    <2> HIDE DEF count
    <2> QED
      BY <1>3
  <1> HIDE DEF iter
  <1>5. \A s \in SUBSET S : iter[s] = Cardinality(Pairs(f, s))
    <2> DEFINE Bad == {s \in SUBSET S : iter[s] # Cardinality(Pairs(f, s))}
    <2>1. SUFFICES ASSUME Bad # {} PROVE FALSE
      OBVIOUS
    <2>2. PICK U \in Bad : \A V \in Bad : ~(V \subseteq U /\ V # U)
      <3>1. Bad \subseteq SUBSET S
        OBVIOUS
      <3> HIDE DEF Bad
      <3> QED
        BY <2>1, <3>1, SmallestSubset
    <2>3. U \in SUBSET S /\ iter[U] # Cardinality(Pairs(f, U))
      BY <2>2
    <2>4. iter[U] = IF U = {} THEN 0 ELSE f[Pick(U)] + iter[U \ {Pick(U)}]
      BY <1>4, <2>3 DEF SumStep
    <2>5. U # {} => Pick(U) \in U
      BY DEF Pick
    <2>6. U # {} => iter[U \ {Pick(U)}] = Cardinality(Pairs(f, U \ {Pick(U)}))
      BY <2>2, <2>5
    <2> QED
      BY <1>2, <2>3, <2>4, <2>6
  <1> QED
    BY <1>1, <1>5

(***************************************************************************)
(* The laws of sums of functions with finite domains and natural values.   *)
(***************************************************************************)
\* The sum of a function is the number of its pairs.
LEMMA SumIs ==
  ASSUME NEW S, IsFiniteSet(S), NEW f \in [S -> Nat]
  PROVE  /\ SumFunction(f) = Cardinality(Pairs(f, S))
         /\ IsFiniteSet(Pairs(f, S))
  <1>1. DOMAIN f = S /\ \A x \in S : f[x] \in Nat
    OBVIOUS
  <1>2. SumFunction(f) = SumFunctionOnSet(f, S)
    BY <1>1 DEF SumFunction
  <1> QED
    BY <1>1, <1>2, SumIsCardinality, PairsFinite

\* It is a natural number.
LEMMA SumType ==
  ASSUME NEW S, IsFiniteSet(S), NEW f \in [S -> Nat]
  PROVE  SumFunction(f) \in Nat
  BY SumIs, FS_CardinalityType

\* Nothing adds up to nothing.
LEMMA SumZero ==
  ASSUME NEW S, IsFiniteSet(S), NEW f \in [S -> Nat], \A x \in S : f[x] = 0
  PROVE  SumFunction(f) = 0
  <1>1. Pairs(f, S) = {}
    BY DEF Pairs
  <1> QED
    BY <1>1, SumIs, FS_EmptySet

\* A larger function has a larger sum.
LEMMA SumLeq ==
  ASSUME NEW S, IsFiniteSet(S), NEW T, IsFiniteSet(T), S \subseteq T,
         NEW f \in [S -> Nat], NEW g \in [T -> Nat], \A x \in S : f[x] <= g[x]
  PROVE  SumFunction(f) <= SumFunction(g)
  <1>1. Pairs(f, S) \in SUBSET Pairs(g, T)
    <2> SUFFICES ASSUME NEW x \in S, NEW n \in Nat, n <= f[x] PROVE n <= g[x]
      BY DEF Pairs
    <2> QED
      BY DEF Pairs
  <1> QED
    BY <1>1, SumIs, FS_Subset

\* One more argument adds its value.
LEMMA SumExtend ==
  ASSUME NEW S, IsFiniteSet(S), NEW x, x \notin S, NEW f \in [S -> Nat],
         NEW g \in [S \cup {x} -> Nat], \A y \in S : g[y] = f[y]
  PROVE  SumFunction(g) = SumFunction(f) + g[x]
  <1>1. Pairs(g, S) = Pairs(f, S)
    BY DEF Pairs
  <1>2. IsFiniteSet(S \cup {x})
    BY FS_AddElement
  <1>3. SumFunction(f) = Cardinality(Pairs(f, S)) /\ IsFiniteSet(Pairs(f, S))
    BY SumIs
  <1>4. SumFunction(g) = Cardinality(Pairs(g, S \cup {x}))
    BY <1>2, SumIs
  <1>5. Cardinality(Pairs(g, S \cup {x})) = g[x] + Cardinality(Pairs(g, S))
    BY <1>1, <1>3, PairsAdd
  <1> QED
    BY <1>1, <1>3, <1>4, <1>5, FS_CardinalityType

\* A change of one value changes the sum by as much.
LEMMA SumChange ==
  ASSUME NEW S, IsFiniteSet(S), NEW x \in S, NEW f \in [S -> Nat],
         NEW g \in [S -> Nat], \A y \in S \ {x} : g[y] = f[y]
  PROVE  SumFunction(g) = SumFunction(f) + g[x] - f[x]
  <1> DEFINE R == S \ {x}
             h == [y \in R |-> f[y]]
  <1>1. IsFiniteSet(R) /\ x \notin R /\ R \cup {x} = S
    BY FS_RemoveElement
  <1>2. h \in [R -> Nat] /\ \A y \in R : h[y] = f[y] /\ h[y] = g[y]
    OBVIOUS
  <1> HIDE DEF h, R
  <1>3. SumFunction(f) = SumFunction(h) + f[x]
    BY <1>1, <1>2, SumExtend
  <1>4. SumFunction(g) = SumFunction(h) + g[x]
    BY <1>1, <1>2, SumExtend
  <1>5. SumFunction(h) \in Nat
    BY <1>1, <1>2, SumType
  <1> QED
    BY <1>3, <1>4, <1>5

\* The sum does not depend on what the arguments are called.
LEMMA SumRenamed ==
  ASSUME NEW S, IsFiniteSet(S), NEW T, IsFiniteSet(T), NEW b \in [S -> T],
         \A x, y \in S : b[x] = b[y] => x = y, \A z \in T : \E x \in S : b[x] = z,
         NEW f \in [S -> Nat], NEW g \in [T -> Nat], \A x \in S : g[b[x]] = f[x]
  PROVE  SumFunction(f) = SumFunction(g)
  <1> DEFINE P == Pairs(f, S)
             Q == Pairs(g, T)
             c == [p \in P |-> <<b[p[1]], p[2]>>]
  <1>1. c \in [P -> Q]
    BY DEF Pairs
  <1>2. \A p, q \in P : c[p] = c[q] => p = q
    BY DEF Pairs
  <1>3. \A q \in Q : \E p \in P : c[p] = q
    <2> SUFFICES ASSUME NEW q \in Q PROVE \E p \in P : c[p] = q
      OBVIOUS
    <2>1. PICK x \in S : b[x] = q[1]
      BY DEF Pairs
    <2>2. q = <<q[1], q[2]>> /\ q[2] \in Nat /\ 1 <= q[2] /\ q[2] <= g[q[1]]
      BY DEF Pairs
    <2>3. <<x, q[2]>> \in P
      BY <2>1, <2>2 DEF Pairs
    <2>4. c[<<x, q[2]>>] = q
      BY <2>1, <2>2, <2>3
    <2> QED
      BY <2>3, <2>4
  <1>4. IsFiniteSet(P) /\ IsFiniteSet(Q)
    BY SumIs
  <1> HIDE DEF P, Q, c
  <1>5. c \in Bijection(P, Q)
    BY <1>1, <1>2, <1>3 DEF Bijection, Injection, IsInjective, Surjection
  <1>6. Cardinality(P) = Cardinality(Q)
    BY <1>4, <1>5, FS_Bijection DEF ExistsBijection
  <1> QED
    BY <1>6, SumIs DEF P, Q

\* Terms that are zero can be left out.
LEMMA SumSupport ==
  ASSUME NEW S, IsFiniteSet(S), NEW T, T \subseteq S, NEW f \in [S -> Nat],
         NEW g \in [T -> Nat], \A x \in T : g[x] = f[x], \A x \in S \ T : f[x] = 0
  PROVE  SumFunction(g) = SumFunction(f)
  <1>1. IsFiniteSet(T)
    BY FS_Subset
  <1>2. Pairs(g, T) = Pairs(f, S)
    BY DEF Pairs
  <1> QED
    BY <1>1, <1>2, SumIs
=============================================================================
