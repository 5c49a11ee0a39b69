---------------------------- MODULE SetTheorems ----------------------------
(***************************************************************************)
(* Finite sets: sums of integers over them, as SumFunctionOnSet computes   *)
(* them, and pages of keys in ascending order, as a range of a map cut off *)
(* by take(limit) gives them.  A sum takes the elements in an order that   *)
(* CHOOSE fixes, and the lemmas say that the order does not matter; a page *)
(* has no gap, and one that is not full is the last.                       *)
(*                                                                         *)
(* Induction goes by minimal counterexample: of a set of finite sets that  *)
(* fail to do something, one has no subset that fails.                     *)
(***************************************************************************)
EXTENDS Integers, Functions, FiniteSetTheorems, TLAPS

Pick(s) == CHOOSE x \in s : TRUE

Plus(a, b) == a + b

\* The value at s of the function that SumFunctionOnSet applies.
Step(it, f, s) == IF s = {} THEN 0 ELSE Plus(f[Pick(s)], it[s \ {Pick(s)}])

Solves(it, f, S) == it = [s \in SUBSET S |-> Step(it, f, s)]

Solution(f, S) == CHOOSE it : Solves(it, f, S)

\* A nonempty set of subsets of a finite set has a minimal element.
LEMMA MinimalSubset ==
  ASSUME NEW S, IsFiniteSet(S), NEW C \in SUBSET (SUBSET S), C # {}
  PROVE  \E T \in C : \A U \in C : U \subseteq T => U = T
  <1>1. C \subseteq FiniteSubsetsOf(S)
    BY FS_FiniteSubsetsOfFinite
  <1>2. PICK T \in C : \A U \in C : ~(<<U, T>> \in StrictSubsetOrdering(S))
    BY <1>1, FS_StrictSubsetOrderingWellFounded, WFMin, Zenon
  <1>3. ASSUME NEW U \in C, U \subseteq T, U # T
        PROVE  FALSE
    BY <1>2, <1>3 DEF StrictSubsetOrdering
  <1>. QED
    BY <1>3

\* The sum is the value of a solution.
LEMMA SumIsSolution ==
  ASSUME NEW f, NEW S
  PROVE  SumFunctionOnSet(f, S) = Solution(f, S)[S]
  BY Zenon DEF SumFunctionOnSet, FoldFunctionOnSet, MapThenFoldSet, Solves, Solution, Pick,
               Plus, Step

LEMMA Picked ==
  ASSUME NEW S, S # {}
  PROVE  Pick(S) \in S
  BY Zenon DEF Pick

\* The values of a solution.
LEMMA SolutionValues ==
  ASSUME NEW f, NEW S, NEW g, Solves(g, f, S), NEW T \in SUBSET S
  PROVE  g[T] = Step(g, f, T)
  <1>. DEFINE h == [s \in SUBSET S |-> Step(g, f, s)]
  <1>1. g = h
    BY Zenon DEF Solves
  <1>2. h[T] = Step(g, f, T)
    OBVIOUS
  <1>. QED
    BY <1>1, <1>2, Zenon

\* Two solutions agree where they meet.
LEMMA SolutionsAgree ==
  ASSUME NEW f, NEW S, IsFiniteSet(S), NEW R, NEW g, NEW h,
         Solves(g, f, S), Solves(h, f, R), NEW T \in SUBSET S, T \in SUBSET R
  PROVE  g[T] = h[T]
  <1>1. ASSUME NEW C \in SUBSET (SUBSET S), C # {},
               \A U \in SUBSET S : U \in C <=> U \in SUBSET R /\ g[U] # h[U]
        PROVE  FALSE
    <2>1. PICK U \in C : \A W \in C : W \subseteq U => W = U
      BY <1>1, MinimalSubset
    <2>2. U \in SUBSET S /\ U \in SUBSET R /\ g[U] # h[U]
      BY <1>1, <2>1
    <2>3. g[U] = Step(g, f, U) /\ h[U] = Step(h, f, U)
      BY <2>2, SolutionValues, Zenon
    <2>4. CASE U = {}
      BY <2>2, <2>3, <2>4 DEF Step
    <2>5. CASE U # {}
      <3>1. PICK W : W = U \ {Pick(U)}
        OBVIOUS
      <3>2. W \in SUBSET S /\ W \in SUBSET R /\ W \subseteq U /\ W # U
        BY <2>2, <2>5, <3>1, Picked
      <3>3. g[W] = h[W]
        BY <1>1, <2>1, <3>2, Zenon
      <3>. QED
        BY <2>2, <2>3, <2>5, <3>1, <3>3, Zenon DEF Step
    <2>. QED
      BY <2>4, <2>5
  <1>. QED
    <2>1. ASSUME g[T] # h[T]
          PROVE  FALSE
      <3>1. PICK C : C = {U \in SUBSET S : U \in SUBSET R /\ g[U] # h[U]}
        OBVIOUS
      <3>2. C \in SUBSET (SUBSET S) /\ T \in C
        BY <2>1, <3>1
      <3>3. \A U \in SUBSET S : U \in C <=> U \in SUBSET R /\ g[U] # h[U]
        BY <3>1
      <3>. QED
        BY <1>1, <3>2, <3>3
    <2>. QED
      BY <2>1

\* Every finite set has a solution: what the solutions of its subsets say
\* fits together.
LEMMA SolutionExists ==
  ASSUME NEW f, NEW S, IsFiniteSet(S)
  PROVE  Solves(Solution(f, S), f, S)
  <1>1. ASSUME NEW C \in SUBSET (SUBSET S), C # {},
               \A U \in SUBSET S : U \in C <=> ~ \E g : Solves(g, f, U)
        PROVE  FALSE
    <2>1. PICK T \in C : \A U \in C : U \subseteq T => U = T
      BY <1>1, MinimalSubset
    <2>2. T \in SUBSET S /\ ~ \E g : Solves(g, f, T)
      BY <1>1, <2>1
    <2>3. ASSUME NEW U \in SUBSET T, U # T
          PROVE  Solves(Solution(f, U), f, U) /\ IsFiniteSet(U)
      <3>1. U \in SUBSET S /\ U \notin C
        BY <2>1, <2>2, <2>3
      <3>2. \E g : Solves(g, f, U)
        BY <1>1, <3>1
      <3>3. IsFiniteSet(U)
        BY <3>1, FS_Subset
      <3>. QED
        BY <3>2, <3>3, Zenon DEF Solution
    <2>4. PICK v : v = [U \in SUBSET T |-> Solution(f, U)[U]]
      OBVIOUS
    <2>5. PICK g : g = [U \in SUBSET T |-> Step(v, f, U)]
      OBVIOUS
    <2>6. ASSUME NEW U \in SUBSET T, U # T
          PROVE  v[U] = Step(v, f, U)
      <3>1. Solves(Solution(f, U), f, U) /\ IsFiniteSet(U) /\ U \in SUBSET U
        BY <2>3, <2>6
      <3>2. v[U] = Step(Solution(f, U), f, U)
        <4>1. v[U] = Solution(f, U)[U]
          BY <2>4
        <4>2. PICK s : s = Solution(f, U)
          OBVIOUS
        <4>3. Solves(s, f, U) /\ U \in SUBSET U
          BY <3>1, <4>2
        <4>4. s[U] = Step(s, f, U)
          BY <4>3, SolutionValues
        <4>. QED
          BY <4>1, <4>2, <4>4, Zenon
      <3>3. CASE U = {}
        BY <3>2, <3>3 DEF Step
      <3>4. CASE U # {}
        <4>1. PICK W : W = U \ {Pick(U)}
          OBVIOUS
        <4>2. W \in SUBSET U /\ W \in SUBSET W /\ W \in SUBSET T /\ W # T
          BY <2>6, <3>4, <4>1, Picked
        <4>3. Solves(Solution(f, W), f, W)
          BY <2>3, <4>2
        <4>4. Solution(f, U)[W] = Solution(f, W)[W]
          BY <3>1, <4>2, <4>3, SolutionsAgree
        <4>5. v[W] = Solution(f, W)[W]
          BY <2>4, <4>2
        <4>. QED
          BY <3>2, <3>4, <4>1, <4>4, <4>5, Zenon DEF Step
      <3>. QED
        BY <3>3, <3>4
    <2>7. ASSUME NEW U \in SUBSET T
          PROVE  g[U] = Step(g, f, U)
      <3>1. g[U] = Step(v, f, U)
        BY <2>5
      <3>2. CASE U = {}
        BY <3>1, <3>2 DEF Step
      <3>3. CASE U # {}
        <4>1. PICK W : W = U \ {Pick(U)}
          OBVIOUS
        <4>2. W \in SUBSET T /\ W # T
          BY <3>3, <4>1, Picked
        <4>3. v[W] = g[W]
          BY <2>5, <2>6, <4>2
        <4>. QED
          BY <3>1, <3>3, <4>1, <4>3, Zenon DEF Step
      <3>. QED
        BY <3>2, <3>3
    <2>8. Solves(g, f, T)
      <3>1. PICK h : h = [U \in SUBSET T |-> Step(g, f, U)]
        OBVIOUS
      <3>2. \A U \in SUBSET T : h[U] = g[U]
        BY <2>7, <3>1
      <3>3. h = g
        BY <2>5, <3>1, <3>2
      <3>. QED
        BY <3>1, <3>3, Zenon DEF Solves
    <2>. QED
      BY <2>2, <2>8
  <1>2. \E g : Solves(g, f, S)
    <2>1. ASSUME ~ \E g : Solves(g, f, S)
          PROVE  FALSE
      <3>1. PICK C : C = {U \in SUBSET S : ~ \E g : Solves(g, f, U)}
        OBVIOUS
      <3>2. C \in SUBSET (SUBSET S) /\ S \in C
        BY <2>1, <3>1
      <3>3. \A U \in SUBSET S : U \in C <=> ~ \E g : Solves(g, f, U)
        BY <3>1
      <3>. QED
        BY <1>1, <3>2, <3>3
    <2>. QED
      BY <2>1
  <1>. QED
    BY <1>2, Zenon DEF Solution

\* The sum, one element at a time.
LEMMA SumUnfold ==
  ASSUME NEW f, NEW S, IsFiniteSet(S)
  PROVE  /\ S = {} => SumFunctionOnSet(f, S) = 0
         /\ S # {} => SumFunctionOnSet(f, S)
                        = Plus(f[Pick(S)], SumFunctionOnSet(f, S \ {Pick(S)}))
  <1>1. Solves(Solution(f, S), f, S) /\ S \in SUBSET S
    BY SolutionExists
  <1>2. SumFunctionOnSet(f, S) = Step(Solution(f, S), f, S)
    BY <1>1, SumIsSolution, SolutionValues, Zenon
  <1>3. CASE S = {}
    BY <1>2, <1>3, Zenon DEF Step
  <1>4. CASE S # {}
    <2>1. PICK W : W = S \ {Pick(S)}
      OBVIOUS
    <2>2. W \in SUBSET S /\ W \in SUBSET W
      BY <2>1
    <2>3. IsFiniteSet(W)
      BY <2>2, FS_Subset
    <2>4. Solves(Solution(f, W), f, W)
      BY <2>3, SolutionExists
    <2>5. Solution(f, S)[W] = Solution(f, W)[W]
      BY <1>1, <2>2, <2>4, SolutionsAgree
    <2>. QED
      BY <1>2, <1>4, <2>1, <2>5, SumIsSolution, Zenon DEF Step
  <1>. QED
    BY <1>3, <1>4

-----------------------------------------------------------------------------
(* What the sum is *)

\* A sum of integers is one; of naturals, a natural.
LEMMA SumType ==
  ASSUME NEW f, NEW S, IsFiniteSet(S), \A x \in S : f[x] \in Int
  PROVE  /\ SumFunctionOnSet(f, S) \in Int
         /\ (\A x \in S : f[x] >= 0) => SumFunctionOnSet(f, S) >= 0
  <1>. DEFINE Typed(U) == /\ SumFunctionOnSet(f, U) \in Int
                          /\ (\A x \in U : f[x] >= 0) => SumFunctionOnSet(f, U) >= 0
  <1>1. ASSUME NEW C \in SUBSET (SUBSET S), C # {},
               \A U \in SUBSET S : U \in C <=> ~Typed(U)
        PROVE  FALSE
    <2>. HIDE DEF Typed
    <2>1. PICK T \in C : \A U \in C : U \subseteq T => U = T
      BY <1>1, MinimalSubset
    <2>2. T \in SUBSET S /\ ~Typed(T) /\ IsFiniteSet(T)
      BY <1>1, <2>1, FS_Subset
    <2>3. CASE T = {}
      BY <2>2, <2>3, SumUnfold DEF Typed
    <2>4. CASE T # {}
      <3>1. PICK W : W = T \ {Pick(T)}
        OBVIOUS
      <3>2. PICK x : x = Pick(T)
        OBVIOUS
      <3>3. x \in T /\ W \subseteq T /\ W # T /\ W \in SUBSET S
        BY <2>2, <2>4, <3>1, <3>2, Picked
      <3>4. Typed(W)
        BY <1>1, <2>1, <3>3
      <3>5. SumFunctionOnSet(f, T) = Plus(f[x], SumFunctionOnSet(f, W))
        BY <2>2, <2>4, <3>1, <3>2, SumUnfold, Zenon
      <3>6. f[x] \in Int
        BY <2>2, <3>3
      <3>. QED
        BY <2>2, <3>3, <3>4, <3>5, <3>6 DEF Typed, Plus
    <2>. QED
      BY <2>3, <2>4
  <1>2. Typed(S)
    <2>. HIDE DEF Typed
    <2>1. ASSUME ~Typed(S)
          PROVE  FALSE
      <3>1. PICK C : C = {U \in SUBSET S : ~Typed(U)}
        OBVIOUS
      <3>2. C \in SUBSET (SUBSET S) /\ S \in C
        BY <2>1, <3>1
      <3>3. \A U \in SUBSET S : U \in C <=> ~Typed(U)
        BY <3>1
      <3>. QED
        BY <1>1, <3>2, <3>3
    <2>. QED
      BY <2>1
  <1>. QED
    BY <1>2

\* Any element can be taken first.
LEMMA SumRemove ==
  ASSUME NEW f, NEW S, IsFiniteSet(S), \A x \in S : f[x] \in Int, NEW a \in S
  PROVE  SumFunctionOnSet(f, S) = f[a] + SumFunctionOnSet(f, S \ {a})
  <1>. DEFINE First(U) == \A b \in U :
                SumFunctionOnSet(f, U) = f[b] + SumFunctionOnSet(f, U \ {b})
  <1>1. ASSUME NEW C \in SUBSET (SUBSET S), C # {},
               \A U \in SUBSET S : U \in C <=> ~First(U)
        PROVE  FALSE
    <2>. HIDE DEF First
    <2>1. PICK T \in C : \A U \in C : U \subseteq T => U = T
      BY <1>1, MinimalSubset
    <2>2. T \in SUBSET S /\ ~First(T) /\ IsFiniteSet(T)
      BY <1>1, <2>1, FS_Subset
    <2>3. PICK b \in T : SumFunctionOnSet(f, T) # f[b] + SumFunctionOnSet(f, T \ {b})
      BY <2>2 DEF First
    <2>4. PICK y : y = Pick(T)
      OBVIOUS
    <2>5. y \in T /\ f[y] \in Int /\ f[b] \in Int
      BY <2>2, <2>3, <2>4, Picked
    <2>6. SumFunctionOnSet(f, T) = f[y] + SumFunctionOnSet(f, T \ {y})
      BY <2>2, <2>3, <2>4, SumUnfold, Zenon DEF Plus
    <2>7. y # b
      BY <2>3, <2>6
    <2>8. \A c \in T : First(T \ {c})
      BY <1>1, <2>1, <2>2
    <2>9. SumFunctionOnSet(f, T \ {y}) = f[b] + SumFunctionOnSet(f, (T \ {y}) \ {b})
      BY <2>3, <2>5, <2>7, <2>8 DEF First
    <2>10. SumFunctionOnSet(f, T \ {b}) = f[y] + SumFunctionOnSet(f, (T \ {b}) \ {y})
      BY <2>3, <2>5, <2>7, <2>8 DEF First
    <2>11. (T \ {y}) \ {b} = (T \ {b}) \ {y}
      OBVIOUS
    <2>12. SumFunctionOnSet(f, (T \ {y}) \ {b}) \in Int
      <3>1. /\ (T \ {y}) \ {b} \subseteq S
            /\ \A x \in (T \ {y}) \ {b} : f[x] \in Int
        BY <2>2
      <3>2. IsFiniteSet((T \ {y}) \ {b})
        BY <3>1, FS_Subset
      <3>. QED
        BY <3>1, <3>2, SumType
    <2>13. PICK k \in Int : k = SumFunctionOnSet(f, (T \ {y}) \ {b})
      BY <2>12
    <2>14. /\ SumFunctionOnSet(f, T) = f[y] + (f[b] + k)
           /\ SumFunctionOnSet(f, T \ {b}) = f[y] + k
      BY <2>6, <2>9, <2>10, <2>11, <2>13, Zenon
    <2>15. f[y] + (f[b] + k) = f[b] + (f[y] + k)
      BY <2>5
    <2>. QED
      BY <2>3, <2>14, <2>15, Zenon
  <1>2. First(S)
    <2>. HIDE DEF First
    <2>1. ASSUME ~First(S)
          PROVE  FALSE
      <3>1. PICK C : C = {U \in SUBSET S : ~First(U)}
        OBVIOUS
      <3>2. C \in SUBSET (SUBSET S) /\ S \in C
        BY <2>1, <3>1
      <3>3. \A U \in SUBSET S : U \in C <=> ~First(U)
        BY <3>1
      <3>. QED
        BY <1>1, <3>2, <3>3
    <2>. QED
      BY <2>1
  <1>. QED
    BY <1>2

\* Only the values on the set matter.
LEMMA SumCongruence ==
  ASSUME NEW f, NEW g, NEW S, IsFiniteSet(S), \A x \in S : f[x] = g[x]
  PROVE  SumFunctionOnSet(f, S) = SumFunctionOnSet(g, S)
  <1>. DEFINE Same(U) == SumFunctionOnSet(f, U) = SumFunctionOnSet(g, U)
  <1>1. ASSUME NEW C \in SUBSET (SUBSET S), C # {},
               \A U \in SUBSET S : U \in C <=> ~Same(U)
        PROVE  FALSE
    <2>. HIDE DEF Same
    <2>1. PICK T \in C : \A U \in C : U \subseteq T => U = T
      BY <1>1, MinimalSubset
    <2>2. T \in SUBSET S /\ ~Same(T) /\ IsFiniteSet(T)
      BY <1>1, <2>1, FS_Subset
    <2>3. CASE T = {}
      BY <2>2, <2>3, SumUnfold DEF Same
    <2>4. CASE T # {}
      <3>1. PICK W : W = T \ {Pick(T)}
        OBVIOUS
      <3>2. PICK x : x = Pick(T)
        OBVIOUS
      <3>3. x \in T /\ W \subseteq T /\ W # T /\ W \in SUBSET S
        BY <2>2, <2>4, <3>1, <3>2, Picked
      <3>4. Same(W) /\ f[x] = g[x]
        BY <1>1, <2>1, <2>2, <3>3
      <3>5. /\ SumFunctionOnSet(f, T) = Plus(f[x], SumFunctionOnSet(f, W))
            /\ SumFunctionOnSet(g, T) = Plus(g[x], SumFunctionOnSet(g, W))
        BY <2>2, <2>4, <3>1, <3>2, SumUnfold, Zenon
      <3>. QED
        BY <2>2, <3>4, <3>5, Zenon DEF Same
    <2>. QED
      BY <2>3, <2>4
  <1>2. Same(S)
    <2>. HIDE DEF Same
    <2>1. ASSUME ~Same(S)
          PROVE  FALSE
      <3>1. PICK C : C = {U \in SUBSET S : ~Same(U)}
        OBVIOUS
      <3>2. C \in SUBSET (SUBSET S) /\ S \in C
        BY <2>1, <3>1
      <3>3. \A U \in SUBSET S : U \in C <=> ~Same(U)
        BY <3>1
      <3>. QED
        BY <1>1, <3>2, <3>3
    <2>. QED
      BY <2>1
  <1>. QED
    BY <1>2

\* The sum over two sets with nothing in common.
LEMMA SumUnion ==
  ASSUME NEW f, NEW S, NEW R, IsFiniteSet(S), IsFiniteSet(R), S \cap R = {},
         \A x \in S \cup R : f[x] \in Int
  PROVE  SumFunctionOnSet(f, R \cup S) = SumFunctionOnSet(f, R) + SumFunctionOnSet(f, S)
  <1>. DEFINE Adds(U) == SumFunctionOnSet(f, R \cup U)
                           = SumFunctionOnSet(f, R) + SumFunctionOnSet(f, U)
  <1>1. ASSUME NEW C \in SUBSET (SUBSET S), C # {},
               \A U \in SUBSET S : U \in C <=> ~Adds(U)
        PROVE  FALSE
    <2>. HIDE DEF Adds
    <2>1. PICK T \in C : \A U \in C : U \subseteq T => U = T
      BY <1>1, MinimalSubset
    <2>2. T \in SUBSET S /\ ~Adds(T) /\ IsFiniteSet(T)
      BY <1>1, <2>1, FS_Subset
    <2>3. PICK r : r = SumFunctionOnSet(f, R)
      OBVIOUS
    <2>4. r \in Int
      BY <2>3, SumType
    <2>5. CASE T = {}
      <3>1. SumFunctionOnSet(f, T) = 0 /\ R \cup T = R
        BY <2>2, <2>5, SumUnfold
      <3>2. SumFunctionOnSet(f, R \cup T) = r
        BY <2>3, <3>1, Zenon
      <3>3. r = r + 0
        BY <2>4
      <3>4. Adds(T)
        BY <2>3, <3>1, <3>2, <3>3, Zenon DEF Adds
      <3>. QED
        BY <2>2, <3>4
    <2>6. ASSUME NEW a \in T
          PROVE  FALSE
      <3>1. Adds(T \ {a})
        BY <1>1, <2>1, <2>2
      <3>2. PICK W : W = T \ {a}
        OBVIOUS
      <3>3. IsFiniteSet(W) /\ W \in SUBSET S
        BY <2>2, <3>2, FS_Subset
      <3>4. PICK w : w = SumFunctionOnSet(f, W)
        OBVIOUS
      <3>5. w \in Int /\ f[a] \in Int
        BY <2>2, <3>3, <3>4, SumType
      <3>6. SumFunctionOnSet(f, T) = f[a] + w
        BY <2>2, <3>2, <3>4, SumRemove
      <3>7. SumFunctionOnSet(f, R \cup W) = r + w
        BY <2>3, <3>1, <3>2, <3>4, Zenon DEF Adds
      <3>8. (R \cup T) \ {a} = R \cup W
        BY <2>2, <3>2
      <3>9. IsFiniteSet(R \cup T)
        BY <2>2, FS_Union
      <3>10. SumFunctionOnSet(f, R \cup T) = f[a] + SumFunctionOnSet(f, (R \cup T) \ {a})
        BY <2>2, <3>9, SumRemove
      <3>11. SumFunctionOnSet(f, R \cup T) = f[a] + (r + w)
        BY <3>7, <3>8, <3>10, Zenon
      <3>. QED
        BY <2>2, <2>3, <2>4, <3>5, <3>6, <3>11 DEF Adds
    <2>. QED
      BY <2>5, <2>6
  <1>2. Adds(S)
    <2>. HIDE DEF Adds
    <2>1. ASSUME ~Adds(S)
          PROVE  FALSE
      <3>1. PICK C : C = {U \in SUBSET S : ~Adds(U)}
        OBVIOUS
      <3>2. C \in SUBSET (SUBSET S) /\ S \in C
        BY <2>1, <3>1
      <3>3. \A U \in SUBSET S : U \in C <=> ~Adds(U)
        BY <3>1
      <3>. QED
        BY <1>1, <3>2, <3>3
    <2>. QED
      BY <2>1
  <1>. QED
    BY <1>2

-----------------------------------------------------------------------------
(* Pages *)

\* The keys among rest with less than limit keys before them.
PageOf(rest, limit) == {k \in rest : Cardinality({j \in rest : j < k}) < limit}

\* A set of subsets has a minimal element, in other words.
LEMMA MinimalOf ==
  ASSUME NEW S, IsFiniteSet(S), NEW C, \A U \in C : U \subseteq S, C # {}
  PROVE  \E T \in C : \A U \in C : U \subseteq T => U = T
  <1>1. C \in SUBSET (SUBSET S)
    OBVIOUS
  <1>. QED
    BY <1>1, MinimalSubset

\* A finite set of keys has a least and a greatest one.
LEMMA LeastKey ==
  ASSUME NEW S \in SUBSET Int, IsFiniteSet(S), S # {}
  PROVE  \E k \in S : \A j \in S : k <= j
  <1>0. \A i \in S : i \in Int
    OBVIOUS
  <1>1. PICK C : C = {{j \in S : j < k} : k \in S}
    OBVIOUS
  <1>2. (\A U \in C : U \subseteq S) /\ C # {}
    BY <1>1
  <1>3. PICK T \in C : \A U \in C : U \subseteq T => U = T
    BY <1>2, MinimalOf
  <1>4. PICK k \in S : T = {j \in S : j < k}
    BY <1>1, <1>3
  <1>5. ASSUME NEW j \in S, j < k
        PROVE  FALSE
    <2>1. PICK U : U = {i \in S : i < j}
      OBVIOUS
    <2>2. U \in C
      BY <1>1, <2>1
    <2>3. U \subseteq T
      <3>1. ASSUME NEW i \in U PROVE i \in T
        <4>1. i \in S /\ i \in Int /\ j \in Int /\ k \in Int
          BY <1>0, <2>1
        <4>. QED
          BY <1>4, <1>5, <2>1, <4>1
      <3>. QED
        BY <3>1
    <2>4. j \in T /\ j \notin U
      BY <1>4, <1>5, <2>1
    <2>. QED
      BY <1>3, <2>2, <2>3, <2>4
  <1>6. \A j \in S : k <= j
    BY <1>5
  <1>. QED
    BY <1>6

LEMMA GreatestKey ==
  ASSUME NEW S \in SUBSET Int, IsFiniteSet(S), S # {}
  PROVE  \E k \in S : \A j \in S : j <= k
  <1>0. \A i \in S : i \in Int
    OBVIOUS
  <1>1. PICK C : C = {{j \in S : j > k} : k \in S}
    OBVIOUS
  <1>2. (\A U \in C : U \subseteq S) /\ C # {}
    BY <1>1
  <1>3. PICK T \in C : \A U \in C : U \subseteq T => U = T
    BY <1>2, MinimalOf
  <1>4. PICK k \in S : T = {j \in S : j > k}
    BY <1>1, <1>3
  <1>5. ASSUME NEW j \in S, j > k
        PROVE  FALSE
    <2>1. PICK U : U = {i \in S : i > j}
      OBVIOUS
    <2>2. U \in C
      BY <1>1, <2>1
    <2>3. U \subseteq T
      <3>1. ASSUME NEW i \in U PROVE i \in T
        <4>1. i \in S /\ i \in Int /\ j \in Int /\ k \in Int
          BY <1>0, <2>1
        <4>. QED
          BY <1>4, <1>5, <2>1, <4>1
      <3>. QED
        BY <3>1
    <2>4. j \in T /\ j \notin U
      BY <1>4, <1>5, <2>1
    <2>. QED
      BY <1>3, <2>2, <2>3, <2>4
  <1>6. \A j \in S : j <= k
    BY <1>5
  <1>. QED
    BY <1>6

\* A page holds every key before one of its own.
LEMMA PageHasNoGap ==
  ASSUME NEW rest \in SUBSET Int, IsFiniteSet(rest), NEW limit \in Nat,
         NEW k \in PageOf(rest, limit), NEW j \in rest, j < k
  PROVE  j \in PageOf(rest, limit)
  <1>1. PICK before : before = {i \in rest : i < j}
    OBVIOUS
  <1>2. PICK upto : upto = {i \in rest : i < k}
    OBVIOUS
  <1>3. k \in rest /\ Cardinality(upto) < limit
    BY <1>2 DEF PageOf
  <1>4. upto \in SUBSET rest /\ before \in SUBSET upto
    <2>1. \A i \in rest : i \in Int
      OBVIOUS
    <2>2. k \in Int /\ j \in Int /\ upto \subseteq rest
      BY <1>2, <1>3, <2>1
    <2>3. \A i \in rest : i < j => i < k
      BY <2>1, <2>2
    <2>. QED
      BY <1>1, <1>2, <2>2, <2>3
  <1>5. IsFiniteSet(upto) /\ IsFiniteSet(before)
    BY <1>4, FS_Subset
  <1>6. Cardinality(before) <= Cardinality(upto)
    BY <1>4, <1>5, FS_Subset
  <1>7. Cardinality(before) \in Nat /\ Cardinality(upto) \in Nat
    BY <1>5, FS_CardinalityType
  <1>8. Cardinality(before) < limit
    BY <1>3, <1>6, <1>7
  <1>. QED
    BY <1>1, <1>8 DEF PageOf

\* A page that is not full holds all that is left.
LEMMA ShortPageIsLast ==
  ASSUME NEW rest \in SUBSET Int, IsFiniteSet(rest), NEW limit \in Nat,
         Cardinality(PageOf(rest, limit)) < limit
  PROVE  PageOf(rest, limit) = rest
  <1>1. PICK page : page = PageOf(rest, limit)
    OBVIOUS
  <1>2. page \subseteq rest
    BY <1>1 DEF PageOf
  <1>3. ASSUME rest \ page # {}
        PROVE  FALSE
    <2>1. rest \ page \in SUBSET rest /\ rest \ page \in SUBSET Int
      OBVIOUS
    <2>2. IsFiniteSet(rest \ page)
      BY <2>1, FS_Subset
    <2>3. PICK k \in rest \ page : \A j \in rest \ page : k <= j
      BY <1>3, <2>1, <2>2, LeastKey
    <2>4. PICK before : before = {j \in rest : j < k}
      OBVIOUS
    <2>5. before \in SUBSET page
      <3>1. \A i \in rest : i \in Int
        OBVIOUS
      <3>2. \A i \in rest : i < k => i \in page
        BY <2>3, <3>1
      <3>. QED
        BY <2>4, <3>2
    <2>6. IsFiniteSet(page)
      BY <1>2, FS_Subset
    <2>7. IsFiniteSet(before) /\ Cardinality(before) <= Cardinality(page)
      BY <2>5, <2>6, FS_Subset
    <2>8. Cardinality(before) \in Nat /\ Cardinality(page) \in Nat
      BY <2>6, <2>7, FS_CardinalityType
    <2>9. Cardinality(before) < limit
      BY <1>1, <2>7, <2>8
    <2>10. k \in page
      BY <1>1, <2>4, <2>9 DEF PageOf
    <2>. QED
      BY <2>10
  <1>. QED
    BY <1>1, <1>2, <1>3
=============================================================================
