--------------------------------- MODULE Sums ---------------------------------
(***************************************************************************)
(* Sums over finite sets.  The sum of the library takes its elements in an  *)
(* order of its own choosing; these facts say that the order is of no        *)
(* matter.                                                                   *)
(***************************************************************************)
EXTENDS FiniteSetsExt, FiniteSetTheorems, TLAPS

\* The sum of f over S.
Sum(f, S) == SumFunctionOnSet(f, S)

\* A set of numbers that is not empty has a least element.
LEMMA LeastNumber ==
    ASSUME NEW N \in SUBSET Nat, N # {}
    PROVE  \E n \in N : \A m \in N : n <= m
<1>1. \E n \in N : \A m \in N : ~(<<m, n>> \in OpToRel(<, Nat))
  BY NatLessThanWellFounded, WFMin
<1>2. PICK n \in N : \A m \in N : ~(<<m, n>> \in OpToRel(<, Nat))
  BY <1>1
<1>3. \A m \in N : <<m, n>> \in Nat \X Nat /\ (<<m, n>> \in OpToRel(<, Nat) <=> m < n)
  BY DEF OpToRel
<1>4. ASSUME NEW m \in N PROVE n <= m
  <2>1. m \in Nat /\ n \in Nat /\ ~(m < n)
    BY <1>2, <1>3
  <2> QED BY <2>1
<1> QED BY <1>4

\* A set of finite sets that is not empty has a member that no other is
\* a part of.
LEMMA LeastSet ==
    ASSUME NEW S, IsFiniteSet(S), NEW C \in SUBSET (SUBSET S), C # {}
    PROVE  \E T \in C : \A U \in C : U \subseteq T => U = T
<1>1. FiniteSubsetsOf(S) = SUBSET S
  BY FS_FiniteSubsetsOfFinite
<1>2. IsWellFoundedOn(StrictSubsetOrdering(S), SUBSET S)
  BY <1>1, FS_StrictSubsetOrderingWellFounded
<1>3. \E T \in C : \A U \in C : ~(<<U, T>> \in StrictSubsetOrdering(S))
  BY <1>2, WFMin
<1> QED BY <1>3 DEF StrictSubsetOrdering

Pick(s) == CHOOSE x \in s : TRUE

\* g sums f over each of the subsets in D, from those with fewer elements.
Sums(g, f, D) ==
    g = [s \in D |-> IF s = {} THEN 0 ELSE f[Pick(s)] + g[s \ {Pick(s)}]]

\* An element is picked from the set.
LEMMA PickIsMember == \A s : s # {} => Pick(s) \in s
  BY DEF Pick

\* There is such a g.
LEMMA SumsExist ==
    ASSUME NEW S, IsFiniteSet(S), NEW f
    PROVE  \E g : Sums(g, f, SUBSET S)
<1> DEFINE Sub(n) == {s \in SUBSET S : Cardinality(s) <= n}
           Bad == {n \in Nat : ~\E g : Sums(g, f, Sub(n))}
<1>1. \A s \in SUBSET S : IsFiniteSet(s) /\ Cardinality(s) \in Nat
  BY FS_Subset, FS_CardinalityType
<1>2. SUFFICES Bad = {}
  <2>1. Cardinality(S) \in Nat
    BY FS_CardinalityType
  <2>2. Sub(Cardinality(S)) = SUBSET S
    BY FS_Subset
  <2> QED BY <2>1, <2>2
<1>3. SUFFICES ASSUME Bad # {} PROVE FALSE
  OBVIOUS
<1>4. PICK n \in Bad : \A m \in Bad : n <= m
  BY <1>3, LeastNumber
<1>5. CASE n = 0
  <2>1. Sub(0) = {{}}
    BY <1>1, FS_EmptySet
  <2>2. Sums([s \in Sub(0) |-> 0], f, Sub(0))
    BY <2>1 DEF Sums
  <2> QED BY <1>5, <2>2
<1>6. CASE n # 0
  <2>1. n - 1 \in Nat /\ n - 1 \notin Bad
    <3>1. n \in Nat
      BY <1>4
    <3> HIDE DEF Bad
    <3> QED BY <1>4, <1>6, <3>1
  <2>2. PICK h : Sums(h, f, Sub(n - 1))
    BY <2>1
  <2> DEFINE g == [s \in Sub(n) |-> IF s = {} THEN 0 ELSE f[Pick(s)] + h[s \ {Pick(s)}]]
  <2>3. \A s \in Sub(n) : s # {} => s \ {Pick(s)} \in Sub(n - 1)
    <3> SUFFICES ASSUME NEW s \in Sub(n), s # {} PROVE s \ {Pick(s)} \in Sub(n - 1)
      OBVIOUS
    <3>1. Cardinality(s \ {Pick(s)}) = Cardinality(s) - 1
      BY <1>1, PickIsMember, FS_RemoveElement
    <3> QED BY <1>1, <1>4, <3>1
  <2>4. \A s \in Sub(n - 1) : s \in Sub(n) /\ h[s] = g[s]
    <3> SUFFICES ASSUME NEW s \in Sub(n - 1) PROVE s \in Sub(n) /\ h[s] = g[s]
      OBVIOUS
    <3>1. s \in Sub(n)
      BY <1>1, <1>4
    <3>2. h[s] = IF s = {} THEN 0 ELSE f[Pick(s)] + h[s \ {Pick(s)}]
      BY <2>2 DEF Sums
    <3> QED BY <3>1, <3>2
  <2>5. g = [s \in Sub(n) |-> IF s = {} THEN 0 ELSE f[Pick(s)] + g[s \ {Pick(s)}]]
    <3>1. \A s \in Sub(n) : s # {} => h[s \ {Pick(s)}] = g[s \ {Pick(s)}]
      BY <2>3, <2>4
    <3> HIDE DEF Sub
    <3>2. \A s \in Sub(n) : g[s] = IF s = {} THEN 0 ELSE f[Pick(s)] + g[s \ {Pick(s)}]
      BY <3>1
    <3> DEFINE e == [s \in Sub(n) |-> IF s = {} THEN 0 ELSE f[Pick(s)] + g[s \ {Pick(s)}]]
    <3>3. \A s \in Sub(n) : g[s] = e[s]
      BY <3>2
    <3> QED BY <3>3
  <2>6. Sums(g, f, Sub(n))
    BY <2>5 DEF Sums
  <2> QED BY <1>4, <2>6
<1> QED BY <1>5, <1>6

\* Only one: two of them agree where both are defined.
LEMMA SumsAgree ==
    ASSUME NEW S, IsFiniteSet(S), NEW T \in SUBSET S, NEW f, NEW g, NEW h,
           Sums(g, f, SUBSET S), Sums(h, f, SUBSET T)
    PROVE  g[T] = h[T]
<1> DEFINE Bad == {U \in SUBSET T : g[U] # h[U]}
<1>1. SUFFICES ASSUME Bad # {} PROVE FALSE
  OBVIOUS
<1>2. IsFiniteSet(T)
  BY FS_Subset
<1>3. PICK U \in Bad : \A V \in Bad : V \subseteq U => V = U
  <2>1. Bad \in SUBSET (SUBSET T)
    OBVIOUS
  <2> HIDE DEF Bad
  <2> QED BY <1>1, <1>2, <2>1, LeastSet
<1>4. U \in SUBSET T /\ U \in SUBSET S
  BY <1>3
<1>5. /\ g[U] = IF U = {} THEN 0 ELSE f[Pick(U)] + g[U \ {Pick(U)}]
      /\ h[U] = IF U = {} THEN 0 ELSE f[Pick(U)] + h[U \ {Pick(U)}]
  BY <1>4 DEF Sums
<1>6. U # {} => U \ {Pick(U)} \notin Bad
  BY <1>3, PickIsMember
<1> QED BY <1>3, <1>4, <1>5, <1>6

\* What the library computes.
LEMMA SumDef ==
    ASSUME NEW S, NEW f
    PROVE  Sum(f, S) = (CHOOSE g : Sums(g, f, SUBSET S))[S]
  BY DEF Sum, SumFunctionOnSet, FoldFunctionOnSet, MapThenFoldSet, Sums, Pick

\* A sum is the picked element's value and the sum over the others.
LEMMA SumStep ==
    ASSUME NEW S, IsFiniteSet(S), NEW f
    PROVE  Sum(f, S) = IF S = {} THEN 0 ELSE f[Pick(S)] + Sum(f, S \ {Pick(S)})
<1> DEFINE g == CHOOSE g : Sums(g, f, SUBSET S)
           R == S \ {Pick(S)}
           h == CHOOSE h : Sums(h, f, SUBSET R)
<1>1. Sums(g, f, SUBSET S)
  BY SumsExist
<1>2. IsFiniteSet(R) /\ R \in SUBSET S
  BY FS_Subset
<1>3. Sums(h, f, SUBSET R)
  <2> HIDE DEF R
  <2> QED BY <1>2, SumsExist
<1>4. Sum(f, S) = g[S] /\ Sum(f, R) = h[R]
  BY SumDef
<1> HIDE DEF g, h
<1>5. g[R] = h[R]
  <2> HIDE DEF R
  <2> QED BY <1>1, <1>2, <1>3, SumsAgree
<1>6. g[S] = IF S = {} THEN 0 ELSE f[Pick(S)] + g[R]
  BY <1>1 DEF Sums
<1> QED BY <1>4, <1>5, <1>6

\* A sum of integers is an integer.
LEMMA SumType ==
    ASSUME NEW S, IsFiniteSet(S), NEW f, \A x \in S : f[x] \in Int
    PROVE  Sum(f, S) \in Int
<1> DEFINE Bad == {T \in SUBSET S : Sum(f, T) \notin Int}
<1>1. SUFFICES ASSUME Bad # {} PROVE FALSE
  OBVIOUS
<1>2. PICK T \in Bad : \A U \in Bad : U \subseteq T => U = T
  <2>1. Bad \in SUBSET (SUBSET S)
    OBVIOUS
  <2> HIDE DEF Bad
  <2> QED BY <1>1, <2>1, LeastSet
<1>3. T \in SUBSET S /\ Sum(f, T) \notin Int /\ IsFiniteSet(T)
  BY <1>2, FS_Subset
<1>4. T # {} /\ Sum(f, T) = f[Pick(T)] + Sum(f, T \ {Pick(T)})
  <2>1. Sum(f, T) = IF T = {} THEN 0 ELSE f[Pick(T)] + Sum(f, T \ {Pick(T)})
    BY <1>3, SumStep
  <2> QED BY <1>3, <2>1
<1>5. T \ {Pick(T)} \notin Bad /\ T \ {Pick(T)} \in SUBSET S /\ Pick(T) \in S
  BY <1>2, <1>3, <1>4, PickIsMember
<1> QED BY <1>3, <1>4, <1>5

\* Any element may be taken out first.
LEMMA SumTakeOut ==
    ASSUME NEW S, IsFiniteSet(S), NEW f, \A x \in S : f[x] \in Int, NEW e \in S
    PROVE  Sum(f, S) = f[e] + Sum(f, S \ {e})
<1> DEFINE Bad == {T \in SUBSET S : \E x \in T : Sum(f, T) # f[x] + Sum(f, T \ {x})}
<1>1. SUFFICES ASSUME Bad # {} PROVE FALSE
  OBVIOUS
<1>2. PICK T \in Bad : \A U \in Bad : U \subseteq T => U = T
  <2>1. Bad \in SUBSET (SUBSET S)
    OBVIOUS
  <2> HIDE DEF Bad
  <2> QED BY <1>1, <2>1, LeastSet
<1>3. T \in SUBSET S /\ \A U \in SUBSET T : IsFiniteSet(U) /\ Sum(f, U) \in Int
  <2>1. T \in SUBSET S
    BY <1>2
  <2>2. ASSUME NEW U \in SUBSET T PROVE IsFiniteSet(U) /\ Sum(f, U) \in Int
    <3>1. U \in SUBSET S
      BY <2>1
    <3>2. IsFiniteSet(U)
      BY <3>1, FS_Subset
    <3> QED BY <3>1, <3>2, SumType
  <2> QED BY <2>1, <2>2
<1>4. PICK x \in T : Sum(f, T) # f[x] + Sum(f, T \ {x})
  BY <1>2
<1> DEFINE y == Pick(T)
<1>5. y \in T
  BY <1>4, PickIsMember
<1>6. Sum(f, T) = f[y] + Sum(f, T \ {y})
  BY <1>3, <1>4, SumStep
<1> HIDE DEF y
<1>7. x # y
  BY <1>4, <1>6
<1>8. Sum(f, T \ {y}) = f[x] + Sum(f, (T \ {y}) \ {x})
  <2>1. T \ {y} \notin Bad
    BY <1>2, <1>5
  <2>2. T \ {y} \in SUBSET S /\ x \in T \ {y}
    BY <1>3, <1>7
  <2> QED BY <2>1, <2>2
<1>9. Sum(f, T \ {x}) = f[y] + Sum(f, (T \ {x}) \ {y})
  <2>1. T \ {x} \notin Bad
    BY <1>2, <1>4
  <2>2. T \ {x} \in SUBSET S /\ y \in T \ {x}
    BY <1>3, <1>5, <1>7
  <2> QED BY <2>1, <2>2
<1>10. (T \ {x}) \ {y} = (T \ {y}) \ {x} /\ (T \ {y}) \ {x} \in SUBSET T
  OBVIOUS
<1>11. f[x] \in Int /\ f[y] \in Int /\ Sum(f, (T \ {y}) \ {x}) \in Int
  BY <1>3, <1>5, <1>10
<1> QED BY <1>4, <1>6, <1>8, <1>9, <1>10, <1>11

\* Adding an element adds its value.
LEMMA SumAdd ==
    ASSUME NEW S, IsFiniteSet(S), NEW f, NEW e, e \notin S,
           \A x \in S \cup {e} : f[x] \in Int
    PROVE  Sum(f, S \cup {e}) = f[e] + Sum(f, S)
<1>1. IsFiniteSet(S \cup {e}) /\ (S \cup {e}) \ {e} = S
  BY FS_AddElement
<1> QED BY <1>1, SumTakeOut

\* Only the values count.
LEMMA SumSame ==
    ASSUME NEW S, IsFiniteSet(S), NEW f, NEW g, \A x \in S : f[x] = g[x]
    PROVE  Sum(f, S) = Sum(g, S)
<1> DEFINE Bad == {T \in SUBSET S : Sum(f, T) # Sum(g, T)}
<1>1. SUFFICES ASSUME Bad # {} PROVE FALSE
  OBVIOUS
<1>2. PICK T \in Bad : \A U \in Bad : U \subseteq T => U = T
  <2>1. Bad \in SUBSET (SUBSET S)
    OBVIOUS
  <2> HIDE DEF Bad
  <2> QED BY <1>1, <2>1, LeastSet
<1>3. T \in SUBSET S /\ IsFiniteSet(T) /\ Sum(f, T) # Sum(g, T)
  BY <1>2, FS_Subset
<1>4. /\ Sum(f, T) = IF T = {} THEN 0 ELSE f[Pick(T)] + Sum(f, T \ {Pick(T)})
      /\ Sum(g, T) = IF T = {} THEN 0 ELSE g[Pick(T)] + Sum(g, T \ {Pick(T)})
  BY <1>3, SumStep
<1>5. T # {} => Pick(T) \in S /\ T \ {Pick(T)} \notin Bad /\ T \ {Pick(T)} \in SUBSET S
  BY <1>2, <1>3, PickIsMember
<1> QED BY <1>3, <1>4, <1>5

\* More of what is not negative is not less.
LEMMA SumMore ==
    ASSUME NEW S, IsFiniteSet(S), NEW f, \A x \in S : f[x] \in Int, NEW T \in SUBSET S,
           \A x \in S \ T : f[x] >= 0
    PROVE  Sum(f, T) <= Sum(f, S)
<1> DEFINE Bad == {U \in SUBSET S : T \subseteq U /\ ~(Sum(f, T) <= Sum(f, U))}
<1>1. SUFFICES ASSUME Bad # {} PROVE FALSE
  OBVIOUS
<1>2. PICK U \in Bad : \A V \in Bad : V \subseteq U => V = U
  <2>1. Bad \in SUBSET (SUBSET S)
    OBVIOUS
  <2> HIDE DEF Bad
  <2> QED BY <1>1, <2>1, LeastSet
<1>3. \A V \in SUBSET S : IsFiniteSet(V) /\ Sum(f, V) \in Int
  <2> SUFFICES ASSUME NEW V \in SUBSET S PROVE IsFiniteSet(V) /\ Sum(f, V) \in Int
    OBVIOUS
  <2>1. IsFiniteSet(V)
    BY FS_Subset
  <2> QED BY <2>1, SumType
<1>4. U \in SUBSET S /\ T \subseteq U /\ ~(Sum(f, T) <= Sum(f, U))
  BY <1>2
<1>5. PICK x \in U : x \notin T
  BY <1>3, <1>4
<1>6. Sum(f, U) = f[x] + Sum(f, U \ {x})
  BY <1>3, <1>4, <1>5, SumTakeOut
<1>7. U \ {x} \notin Bad /\ U \ {x} \in SUBSET S /\ T \subseteq U \ {x}
  BY <1>2, <1>4, <1>5
<1>8. Sum(f, T) \in Int /\ Sum(f, U) \in Int /\ Sum(f, U \ {x}) \in Int
      /\ f[x] \in Int /\ f[x] >= 0
  BY <1>3, <1>4, <1>5, <1>7
<1> QED BY <1>4, <1>6, <1>7, <1>8
===============================================================================
