----------------------------- MODULE FiniteSums -----------------------------
(***************************************************************************)
(* Induction over finite sets and over the naturals, for a set of the      *)
(* arguments a property holds of, and what SumFunctionOnSet of Functions   *)
(* computes: a recursive function over the subsets of its index set, in an *)
(* order nobody knows.                                                     *)
(***************************************************************************)
EXTENDS Integers, FiniteSets, Functions, FiniteSetTheorems, TLAPS

\* What holds of a set if it holds of its strict subsets holds of every finite set.
LEMMA SubsetInduction ==
  ASSUME NEW S, IsFiniteSet(S), NEW Good,
         \A T \in SUBSET S : (\A U \in SUBSET T : U # T => U \in Good) => T \in Good
  PROVE  S \in Good
<1> DEFINE Bad == (SUBSET S) \ Good
<1>1. SUFFICES ASSUME Bad # {} PROVE FALSE
  OBVIOUS
<1>2. IsWellFoundedOn(StrictSubsetOrdering(S), SUBSET S)
  BY FS_StrictSubsetOrderingWellFounded, FS_FiniteSubsetsOfFinite
<1>3. Bad \subseteq SUBSET S
  OBVIOUS
<1> HIDE DEF Bad
<1>4. PICK T \in Bad : \A U \in Bad : ~ (<<U, T>> \in StrictSubsetOrdering(S))
  BY <1>1, <1>2, <1>3, WFMin
<1> USE DEF Bad
<1>5. \A U \in SUBSET T : U # T => U \in Good
  BY <1>4 DEF StrictSubsetOrdering
<1> QED
  BY <1>4, <1>5

\* Every set of naturals has a least element.
LEMMA LeastNatural ==
  ASSUME NEW T \in SUBSET Nat, T # {}
  PROVE  \E n \in T : \A m \in T : n <= m
<1>1. PICK b \in T : TRUE
  OBVIOUS
<1> DEFINE B == {0..n : n \in {m \in T : m <= b}}
           S == 0..b
<1>2. IsFiniteSet(S)
  BY FS_Interval
<1>3. IsWellFoundedOn(StrictSubsetOrdering(S), SUBSET S)
  BY <1>2, FS_StrictSubsetOrderingWellFounded, FS_FiniteSubsetsOfFinite
<1>4. B \subseteq SUBSET S /\ B # {}
  BY <1>1
<1> HIDE DEF B, S
<1>5. PICK U \in B : \A V \in B : ~ (<<V, U>> \in StrictSubsetOrdering(S))
  BY <1>3, <1>4, WFMin
<1>6. PICK n \in T : n <= b /\ U = 0..n
  BY <1>5 DEF B
<1>7. ASSUME NEW m \in T, ~(n <= m) PROVE FALSE
  <2>1. m < n /\ m <= b /\ m \in Nat /\ n \in Nat
    BY <1>1, <1>6, <1>7
  <2>2. 0..m \in B
    BY <2>1 DEF B
  <2>3. 0..m \subseteq 0..n /\ n \in 0..n /\ n \notin 0..m
    BY <2>1
  <2>4. <<0..m, U>> \in StrictSubsetOrdering(S)
    BY <1>4, <1>6, <2>2, <2>3 DEF StrictSubsetOrdering
  <2> QED
    BY <1>5, <2>2, <2>4
<1> QED
  BY <1>7

LEMMA SetNatInduction ==
  ASSUME NEW Good, 0 \in Good, \A n \in Nat : n \in Good => n + 1 \in Good
  PROVE  \A n \in Nat : n \in Good
<1> DEFINE Bad == {n \in Nat : n \notin Good}
<1>1. SUFFICES ASSUME Bad # {} PROVE FALSE
  OBVIOUS
<1>2. PICK n \in Bad : \A m \in Bad : n <= m
  BY <1>1, LeastNatural
<1>3. n \in Nat /\ n # 0
  BY <1>2
<1>4. n - 1 \in Nat /\ n - 1 \notin Bad /\ (n - 1) + 1 = n
  BY <1>2, <1>3
<1> QED
  BY <1>2, <1>4

-----------------------------------------------------------------------------
(* The sum is well defined.                                                *)

Pick(s) == CHOOSE x \in s : TRUE

IsSum(g, fun, S) ==
  g = [s \in SUBSET S |-> IF s = {} THEN 0 ELSE fun[Pick(s)] + g[s \ {Pick(s)}]]

LEMMA PickIn == \A s : s # {} => Pick(s) \in s
BY DEF Pick

LEMMA SumDefined ==
  ASSUME NEW fun, NEW S
  PROVE  SumFunctionOnSet(fun, S) = (CHOOSE g : IsSum(g, fun, S))[S]
BY DEF SumFunctionOnSet, FoldFunctionOnSet, MapThenFoldSet, IsSum, Pick

LEMMA SumValue ==
  ASSUME NEW fun, NEW S, NEW g, IsSum(g, fun, S), NEW s \in SUBSET S
  PROVE  g[s] = IF s = {} THEN 0 ELSE fun[Pick(s)] + g[s \ {Pick(s)}]
BY DEF IsSum

LEMMA SumUnique ==
  ASSUME NEW fun, NEW R, NEW S, NEW g, NEW h, IsSum(g, fun, R), IsSum(h, fun, S),
         NEW V, IsFiniteSet(V), V \subseteq R, V \subseteq S
  PROVE  g[V] = h[V]
<1> DEFINE Good == {T \in SUBSET V : g[T] = h[T]}
<1>1. ASSUME NEW T \in SUBSET V, \A U \in SUBSET T : U # T => U \in Good
      PROVE  T \in Good
  <2>1. /\ g[T] = IF T = {} THEN 0 ELSE fun[Pick(T)] + g[T \ {Pick(T)}]
        /\ h[T] = IF T = {} THEN 0 ELSE fun[Pick(T)] + h[T \ {Pick(T)}]
    <3>1. T \in SUBSET R /\ T \in SUBSET S
      OBVIOUS
    <3>2. g[T] = IF T = {} THEN 0 ELSE fun[Pick(T)] + g[T \ {Pick(T)}]
      BY ONLY <3>1, IsSum(g, fun, R), SumValue
    <3>3. h[T] = IF T = {} THEN 0 ELSE fun[Pick(T)] + h[T \ {Pick(T)}]
      BY ONLY <3>1, IsSum(h, fun, S), SumValue
    <3> QED
      BY <3>2, <3>3
  <2>2. T # {} => T \ {Pick(T)} \in SUBSET T /\ T \ {Pick(T)} # T
    BY PickIn
  <2> QED
    BY <1>1, <2>1, <2>2
<1>2. V \in Good
  <2> HIDE DEF Good
  <2> QED
    BY <1>1, SubsetInduction
<1> QED
  BY <1>2

LEMMA SumExists ==
  ASSUME NEW fun, NEW S, IsFiniteSet(S)
  PROVE  \E g : IsSum(g, fun, S)
<1> DEFINE Good == {T \in SUBSET S : \E g : IsSum(g, fun, T)}
           Sub(T) == CHOOSE g : IsSum(g, fun, T)
<1>1. ASSUME NEW T \in SUBSET S, \A U \in SUBSET T : U # T => U \in Good
      PROVE  T \in Good
  <2> DEFINE G == [s \in SUBSET T |->
                     IF s = {} THEN 0 ELSE fun[Pick(s)] + Sub(s \ {Pick(s)})[s \ {Pick(s)}]]
  <2>1. \A U \in SUBSET T : U # T => IsSum(Sub(U), fun, U)
    BY <1>1
  <2>2. ASSUME NEW s \in SUBSET T, s # {}
        PROVE  G[s \ {Pick(s)}] = Sub(s \ {Pick(s)})[s \ {Pick(s)}]
    <3> DEFINE U == s \ {Pick(s)}
    <3>1. U \in SUBSET T /\ U # T /\ IsSum(Sub(U), fun, U)
      BY <2>1, <2>2, PickIn
    <3>2. Sub(U)[U] = IF U = {} THEN 0 ELSE fun[Pick(U)] + Sub(U)[U \ {Pick(U)}]
      <4>1. U \in SUBSET U
        OBVIOUS
      <4> HIDE DEF U, Sub
      <4> QED
        BY <3>1, <4>1, SumValue
    <3>3. G[U] = IF U = {} THEN 0 ELSE fun[Pick(U)] + Sub(U \ {Pick(U)})[U \ {Pick(U)}]
      BY <3>1
    <3>4. ASSUME U # {}
          PROVE  Sub(U)[U \ {Pick(U)}] = Sub(U \ {Pick(U)})[U \ {Pick(U)}]
      <4> DEFINE V == U \ {Pick(U)}
      <4>1. V \in SUBSET T /\ V # T /\ V \subseteq U /\ V \subseteq V
        BY <3>1, <3>4, PickIn
      <4>2. IsSum(Sub(V), fun, V)
        BY <2>1, <4>1
      <4>3. IsFiniteSet(V)
        BY <4>1, FS_Subset
      <4> HIDE DEF V, U, Sub
      <4>4. Sub(U)[V] = Sub(V)[V]
        BY <3>1, <4>1, <4>2, <4>3, SumUnique
      <4> QED
        BY <4>4 DEF V
    <3> QED
      BY <3>2, <3>3, <3>4
  <2>3. IsSum(G, fun, T)
    <3>1. G = [s \in SUBSET T |->
                 IF s = {} THEN 0 ELSE fun[Pick(s)] + G[s \ {Pick(s)}]]
      <4>1. ASSUME NEW s \in SUBSET T
            PROVE  G[s] = IF s = {} THEN 0 ELSE fun[Pick(s)] + G[s \ {Pick(s)}]
        <5>1. CASE s = {}
          BY <5>1
        <5>2. CASE s # {}
          <6>1. G[s] = fun[Pick(s)] + Sub(s \ {Pick(s)})[s \ {Pick(s)}]
            BY <5>2
          <6> HIDE DEF G
          <6> QED
            BY <2>2, <5>2, <6>1
        <5> QED
          BY <5>1, <5>2
      <4>2. G = [s \in SUBSET T |-> G[s]]
        OBVIOUS
      <4> HIDE DEF G
      <4> QED
        BY <4>1, <4>2
    <3> HIDE DEF G
    <3> QED
      BY <3>1 DEF IsSum
  <2> QED
    BY <2>3
<1>2. S \in Good
  <2> HIDE DEF Good
  <2> QED
    BY <1>1, SubsetInduction
<1> QED
  BY <1>2

\* The sum, by any function that satisfies its recursion.
LEMMA SumBy ==
  ASSUME NEW fun, NEW S, IsFiniteSet(S), NEW V \in SUBSET S, NEW g, IsSum(g, fun, S)
  PROVE  SumFunctionOnSet(fun, V) = g[V]
<1> DEFINE h == CHOOSE k : IsSum(k, fun, V)
<1>1. IsFiniteSet(V)
  BY FS_Subset
<1>2. IsSum(h, fun, V)
  BY <1>1, SumExists
<1>3. SumFunctionOnSet(fun, V) = h[V]
  BY SumDefined
<1> HIDE DEF h
<1> QED
  BY <1>1, <1>2, <1>3, SumUnique

LEMMA SumStep ==
  ASSUME NEW fun, NEW S, IsFiniteSet(S)
  PROVE  SumFunctionOnSet(fun, S) =
           IF S = {} THEN 0 ELSE fun[Pick(S)] + SumFunctionOnSet(fun, S \ {Pick(S)})
<1>1. PICK g : IsSum(g, fun, S)
  BY SumExists
<1>2. S \in SUBSET S /\ S \ {Pick(S)} \in SUBSET S
  OBVIOUS
<1>3. /\ SumFunctionOnSet(fun, S) = g[S]
      /\ SumFunctionOnSet(fun, S \ {Pick(S)}) = g[S \ {Pick(S)}]
  BY <1>1, <1>2, SumBy
<1>4. g[S] = IF S = {} THEN 0 ELSE fun[Pick(S)] + g[S \ {Pick(S)}]
  BY <1>1, <1>2, SumValue
<1> QED
  BY <1>3, <1>4

-----------------------------------------------------------------------------
(* What the order does not change.                                         *)

LEMMA SumType ==
  ASSUME NEW fun, NEW S, IsFiniteSet(S), \A x \in S : fun[x] \in Nat
  PROVE  SumFunctionOnSet(fun, S) \in Nat
<1> DEFINE Good == {T \in SUBSET S : SumFunctionOnSet(fun, T) \in Nat}
<1>1. ASSUME NEW T \in SUBSET S, \A U \in SUBSET T : U # T => U \in Good
      PROVE  T \in Good
  <2>1. IsFiniteSet(T)
    BY FS_Subset
  <2>2. SumFunctionOnSet(fun, T) =
          IF T = {} THEN 0 ELSE fun[Pick(T)] + SumFunctionOnSet(fun, T \ {Pick(T)})
    BY <2>1, SumStep
  <2>3. CASE T = {}
    BY <2>2, <2>3
  <2>4. CASE T # {}
    <3>1. Pick(T) \in T /\ T \ {Pick(T)} \in SUBSET T /\ T \ {Pick(T)} # T
      BY <2>4, PickIn
    <3>2. fun[Pick(T)] \in Nat /\ SumFunctionOnSet(fun, T \ {Pick(T)}) \in Nat
      BY <1>1, <3>1
    <3> QED
      BY <2>2, <2>4, <3>2
  <2> QED
    BY <2>3, <2>4
<1>2. S \in Good
  <2> HIDE DEF Good
  <2> QED
    BY <1>1, SubsetInduction
<1> QED
  BY <1>2

\* One more element adds its value.
LEMMA SumAdd ==
  ASSUME NEW fun, NEW S, IsFiniteSet(S), NEW x, x \notin S,
         \A y \in S \cup {x} : fun[y] \in Nat
  PROVE  SumFunctionOnSet(fun, S \cup {x}) = SumFunctionOnSet(fun, S) + fun[x]
<1> DEFINE Sum(T) == SumFunctionOnSet(fun, T)
           W == S \cup {x}
           Good == {T \in SUBSET W : \A z \in W \ T : Sum(T \cup {z}) = Sum(T) + fun[z]}
<1>1. IsFiniteSet(W)
  BY FS_AddElement
<1>2. ASSUME NEW T \in SUBSET W, \A U \in SUBSET T : U # T => U \in Good,
             NEW z \in W \ T
      PROVE  Sum(T \cup {z}) = Sum(T) + fun[z]
  <2> DEFINE A == T \cup {z}
             y == Pick(A)
  <2>1. IsFiniteSet(T) /\ IsFiniteSet(A) /\ A \in SUBSET W /\ A # {}
    BY <1>1, FS_Subset, FS_AddElement
  <2>2. y \in A
    <3> HIDE DEF A
    <3> QED
      BY <2>1, PickIn
  <2>3. Sum(A) = fun[y] + Sum(A \ {y})
    <3> HIDE DEF A
    <3> QED
      BY <2>1, SumStep
  <2> HIDE DEF y
  <2>4. IsFiniteSet(T \ {y})
    BY <2>1, FS_RemoveElement
  <2>5. \A w \in W : fun[w] \in Nat
    OBVIOUS
  <2>6. Sum(T) \in Nat /\ Sum(T \ {y}) \in Nat /\ fun[z] \in Nat /\ fun[y] \in Nat
    BY <2>1, <2>2, <2>4, <2>5, SumType
  <2>7. CASE y = z
    <3>1. A \ {y} = T
      BY <2>7
    <3>2. Sum(A) = fun[z] + Sum(T)
      BY <2>3, <2>7, <3>1
    <3>3. fun[z] + Sum(T) = Sum(T) + fun[z]
      <4> HIDE DEF Sum
      <4> QED
        BY <2>6
    <3> QED
      BY <3>2, <3>3
  <2>8. CASE y # z
    <3> DEFINE U == T \ {y}
    <3>1. /\ y \in T /\ U \in SUBSET T /\ U # T
          /\ A \ {y} = U \cup {z} /\ T = U \cup {y} /\ y \in W \ U /\ z \in W \ U
      BY <2>2, <2>8
    <3>2. U \in Good
      BY <1>2, <3>1
    <3>3. Sum(U \cup {z}) = Sum(U) + fun[z] /\ Sum(U \cup {y}) = Sum(U) + fun[y]
      BY <3>1, <3>2
    <3> HIDE DEF U, A, Sum
    <3>4. Sum(A) = fun[y] + (Sum(U) + fun[z]) /\ Sum(T) = Sum(U) + fun[y] /\ Sum(U) \in Nat
      BY <2>3, <2>6, <3>1, <3>3 DEF U
    <3> QED
      BY <2>6, <3>4 DEF A
  <2> QED
    BY <2>7, <2>8
<1>3. S \in Good
  <2>1. \A T \in SUBSET S : (\A U \in SUBSET T : U # T => U \in Good) => T \in Good
    BY <1>2
  <2> HIDE DEF Good
  <2> QED
    BY <2>1, SubsetInduction
<1>4. x \in W \ S
  OBVIOUS
<1> QED
  BY <1>3, <1>4

\* Only the summands matter.
LEMMA SumSame ==
  ASSUME NEW fun, NEW gun, NEW S, \A x \in S : fun[x] = gun[x]
  PROVE  SumFunctionOnSet(fun, S) = SumFunctionOnSet(gun, S)
<1>1. ASSUME NEW s \in SUBSET S, s # {} PROVE fun[Pick(s)] = gun[Pick(s)]
  BY <1>1, PickIn
<1>2. ASSUME NEW g
      PROVE  [s \in SUBSET S |-> IF s = {} THEN 0 ELSE fun[Pick(s)] + g[s \ {Pick(s)}]]
             = [s \in SUBSET S |-> IF s = {} THEN 0 ELSE gun[Pick(s)] + g[s \ {Pick(s)}]]
  BY <1>1
<1>3. \A g : IsSum(g, fun, S) <=> IsSum(g, gun, S)
  BY <1>2 DEF IsSum
<1>4. (CHOOSE g : IsSum(g, fun, S)) = (CHOOSE g : IsSum(g, gun, S))
  BY <1>3
<1> QED
  BY <1>4, SumDefined

LEMMA SumEmpty ==
  ASSUME NEW fun
  PROVE  SumFunctionOnSet(fun, {}) = 0
BY SumStep, FS_EmptySet

LEMMA SumUnion ==
  ASSUME NEW fun, NEW S, NEW T, IsFiniteSet(S), IsFiniteSet(T), S \cap T = {},
         \A x \in S \cup T : fun[x] \in Nat
  PROVE  SumFunctionOnSet(fun, S \cup T) = SumFunctionOnSet(fun, S) + SumFunctionOnSet(fun, T)
<1> DEFINE Sum(A) == SumFunctionOnSet(fun, A)
           Good == {A \in SUBSET T : Sum(S \cup A) = Sum(S) + Sum(A)}
<1>1. ASSUME NEW A \in SUBSET T, \A U \in SUBSET A : U # A => U \in Good
      PROVE  A \in Good
  <2>1. CASE A = {}
    <3>1. S \cup A = S /\ Sum(A) = 0 /\ Sum(S) \in Nat
      BY <2>1, SumEmpty, SumType
    <3> QED
      BY <2>1, <3>1
  <2>2. CASE A # {}
    <3>1. PICK y \in A : TRUE
      BY <2>2
    <3> DEFINE U == A \ {y}
    <3>2. /\ U \in SUBSET A /\ U # A /\ A = U \cup {y} /\ y \notin U /\ y \notin S \cup U
          /\ S \cup A = (S \cup U) \cup {y} /\ y \in T
      BY <3>1
    <3>3. IsFiniteSet(A) /\ IsFiniteSet(U) /\ IsFiniteSet(S \cup U)
      BY <3>2, FS_Subset, FS_RemoveElement, FS_Union
    <3>4. Sum(S \cup U) = Sum(S) + Sum(U)
      BY <1>1, <3>2
    <3>5. \A x \in (S \cup U) \cup {y} : fun[x] \in Nat
      BY <3>2
    <3>6. \A x \in U \cup {y} : fun[x] \in Nat
      BY <3>2
    <3> HIDE DEF U
    <3>7. Sum((S \cup U) \cup {y}) = Sum(S \cup U) + fun[y]
      BY <3>2, <3>3, <3>5, SumAdd
    <3>8. Sum(U \cup {y}) = Sum(U) + fun[y]
      BY <3>2, <3>3, <3>6, SumAdd
    <3>9. Sum(S) \in Nat /\ Sum(U) \in Nat /\ fun[y] \in Nat
      BY <3>3, <3>5, SumType
    <3> HIDE DEF Sum
    <3>10. Sum(S \cup A) = Sum(S) + Sum(A)
      BY <3>2, <3>4, <3>7, <3>8, <3>9
    <3> QED
      BY <3>10 DEF Sum
  <2> QED
    BY <2>1, <2>2
<1>2. T \in Good
  <2> HIDE DEF Good
  <2> QED
    BY <1>1, SubsetInduction
<1> QED
  BY <1>2
=============================================================================
