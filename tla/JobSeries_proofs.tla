-------------------------- MODULE JobSeries_proofs --------------------------
(***************************************************************************)
(* Proofs about the resolver and a series of jobs, for every value of the  *)
(* constants: any jobs, inputs, answers and bounds of the numbers.         *)
(*                                                                         *)
(* The resolver recurs through values and conditions.  A recursive         *)
(* function is the one that satisfies its equation if there is one, and    *)
(* there is because they are finite trees (RecursionExists): what is       *)
(* nested has a lesser Depth.  From the equations, by the least            *)
(* counterexample: with distinct names everything comes to at most one     *)
(* result, and evaluation from left to right to the only possible one.     *)
(*                                                                         *)
(* Hydration and update functions change nothing of a variable but its     *)
(* value (and its query), so that a job keeps its names, kinds and         *)
(* references; what an update prints, the variable's kind parses.  Of the  *)
(* references in a text each variable takes its own out, and puts none in. *)
(* A path is walked from field to field, as its meaning is followed from   *)
(* step to step.                                                           *)
(***************************************************************************)
EXTENDS JobSeries, SequenceTheorems, WellFoundedInduction, TLAPS

-----------------------------------------------------------------------------
(* Recursion *)

\* A set of natural numbers has a least one.
LEMMA LeastNatural ==
  ASSUME NEW S \in SUBSET Nat, S # {}
  PROVE  \E n \in S : \A m \in S : n <= m
  <1>1. PICK n \in S : \A m \in S : ~(<<m, n>> \in OpToRel(<, Nat))
    BY NatLessThanWellFounded, WFMin, Zenon
  <1>2. \A m \in S : ~(m < n)
    BY <1>1 DEF OpToRel
  <1>. QED
    BY <1>2

\* f solves the equation B for the arguments nested less than n deep.
SolvesTo(f, B, S, depth, n) == \A s \in S : depth[s] < n => f[s] = B[<<f, s>>]

\* B looks at its first argument only where it is nested less deep.
Descends(B, S, R, depth) ==
  \A g, h \in [S -> R], s \in S :
    (\A t \in S : depth[t] < depth[s] => g[t] = h[t]) => B[<<g, s>>] = B[<<h, s>>]

\* Two solutions agree as far as both go.
LEMMA SolutionsAgree ==
  ASSUME NEW S, NEW R, NEW depth \in [S -> Nat], NEW B, Descends(B, S, R, depth),
         NEW n \in Nat, NEW m \in Nat, n <= m, NEW g \in [S -> R], NEW h \in [S -> R],
         SolvesTo(g, B, S, depth, n), SolvesTo(h, B, S, depth, m),
         NEW s \in S, depth[s] < n
  PROVE  g[s] = h[s]
  <1>. DEFINE Differ == {k \in Nat : \E t \in S : depth[t] = k /\ k < n /\ g[t] # h[t]}
  <1>1. ASSUME NEW k \in Differ, \A j \in Differ : k <= j
        PROVE  FALSE
    <2>1. PICK t \in S : depth[t] = k /\ k < n /\ g[t] # h[t]
      OBVIOUS
    <2>2. ASSUME NEW u \in S, depth[u] < depth[t]
          PROVE  g[u] = h[u]
      BY <1>1, <2>1, <2>2
    <2>3. B[<<g, t>>] = B[<<h, t>>]
      BY <2>2, Zenon DEF Descends
    <2>4. depth[t] < n /\ depth[t] < m
      BY <2>1
    <2>. QED
      BY <2>1, <2>3, <2>4 DEF SolvesTo
  <1>2. Differ = {}
    <2>. SUFFICES ASSUME Differ # {} PROVE FALSE
      OBVIOUS
    <2>1. Differ \in SUBSET Nat
      OBVIOUS
    <2>. HIDE DEF Differ
    <2>. QED
      BY <1>1, <2>1, LeastNatural
  <1>. QED
    BY <1>2

\* A recursion with arguments in S and results in R.
Recursion(S, R, depth, B) ==
  /\ R # {}
  /\ depth \in [S -> Nat]
  /\ B \in [[S -> R] \X S -> R]
  /\ Descends(B, S, R, depth)

\* A recursion that descends defines a function.
LEMMA RecursionExists ==
  ASSUME NEW S, NEW R, NEW depth, NEW B, Recursion(S, R, depth, B)
  PROVE  \E f \in [S -> R] : f = [s \in S |-> B[<<f, s>>]]
  <1>. R # {} /\ depth \in [S -> Nat] /\ B \in [[S -> R] \X S -> R] /\ Descends(B, S, R, depth)
    BY DEF Recursion
  <1>. DEFINE Unsolved == {n \in Nat : ~ \E f \in [S -> R] : SolvesTo(f, B, S, depth, n)}
  <1>1. Unsolved = {}
    <2>. SUFFICES ASSUME Unsolved # {} PROVE FALSE
      OBVIOUS
    <2>1. PICK n \in Unsolved : \A m \in Unsolved : n <= m
      <3>1. Unsolved \in SUBSET Nat
        OBVIOUS
      <3>. HIDE DEF Unsolved
      <3>. QED
        BY <3>1, LeastNatural
    <2>2. n # 0
      <3>1. PICK r \in R : TRUE
        OBVIOUS
      <3>2. [s \in S |-> r] \in [S -> R]
        OBVIOUS
      <3>3. SolvesTo([s \in S |-> r], B, S, depth, 0)
        BY DEF SolvesTo
      <3>. QED
        BY <3>2, <3>3
    <2>3. PICK f \in [S -> R] : SolvesTo(f, B, S, depth, n - 1)
      <3>1. n \in Nat /\ n - 1 \in Nat /\ ~(n <= n - 1)
        BY <2>2
      <3>2. n - 1 \notin Unsolved
        BY <2>1, <3>1
      <3>. QED
        BY <3>1, <3>2
    <2>. DEFINE g == [s \in S |-> B[<<f, s>>]]
    <2>4. g \in [S -> R]
      OBVIOUS
    <2>5. ASSUME NEW s \in S, depth[s] < n
          PROVE  g[s] = B[<<g, s>>]
      <3>1. ASSUME NEW t \in S, depth[t] < depth[s]
            PROVE  f[t] = g[t]
        <4>1. depth[t] < n - 1
          BY <2>5, <3>1
        <4>. QED
          BY <2>3, <4>1 DEF SolvesTo
      <3>. HIDE DEF g
      <3>2. B[<<f, s>>] = B[<<g, s>>]
        BY <2>4, <3>1, Zenon DEF Descends
      <3>. QED
        BY <3>2 DEF g
    <2>6. SolvesTo(g, B, S, depth, n)
      <3>. HIDE DEF g
      <3>. QED
        BY <2>5 DEF SolvesTo
    <2>. QED
      BY <2>1, <2>4, <2>6
  <1>. DEFINE Upto(n) == CHOOSE f \in [S -> R] : SolvesTo(f, B, S, depth, n)
  <1>2. ASSUME NEW n \in Nat
        PROVE  Upto(n) \in [S -> R] /\ SolvesTo(Upto(n), B, S, depth, n)
    <2>1. \E f \in [S -> R] : SolvesTo(f, B, S, depth, n)
      BY <1>1
    <2>. QED
      BY <2>1, Zenon
  <1>. HIDE DEF Upto
  <1>. DEFINE f == [s \in S |-> Upto(depth[s] + 1)[s]]
  <1>3. f \in [S -> R]
    BY <1>2
  <1>4. ASSUME NEW s \in S
        PROVE  f[s] = B[<<f, s>>]
    <2>. DEFINE h == Upto(depth[s] + 1)
    <2>0. depth[s] \in Nat /\ depth[s] + 1 \in Nat
      OBVIOUS
    <2>1. h \in [S -> R] /\ SolvesTo(h, B, S, depth, depth[s] + 1)
      BY <1>2, <2>0, Zenon
    <2>2. ASSUME NEW t \in S, depth[t] < depth[s]
          PROVE  h[t] = f[t]
      <3>. DEFINE k == Upto(depth[t] + 1)
      <3>0. depth[t] \in Nat /\ depth[t] + 1 \in Nat
        OBVIOUS
      <3>1. k \in [S -> R] /\ SolvesTo(k, B, S, depth, depth[t] + 1)
        BY <1>2, <3>0, Zenon
      <3>2. depth[t] + 1 <= depth[s] + 1 /\ depth[t] < depth[t] + 1
        BY <2>0, <2>2, <3>0
      <3>3. f[t] = k[t]
        OBVIOUS
      <3>. HIDE DEF h, k, f
      <3>4. k[t] = h[t]
        BY <2>0, <2>1, <3>0, <3>1, <3>2, SolutionsAgree
      <3>. QED
        BY <3>3, <3>4
    <2>3. f[s] = h[s]
      OBVIOUS
    <2>. HIDE DEF h, f
    <2>4. B[<<h, s>>] = B[<<f, s>>]
      BY <1>3, <2>1, <2>2, Zenon DEF Descends
    <2>5. h[s] = B[<<h, s>>]
      BY <2>1 DEF SolvesTo
    <2>. QED
      BY <2>3, <2>4, <2>5
  <1>5. f = [s \in S |-> B[<<f, s>>]]
    BY <1>3, <1>4
  <1>. QED
    BY <1>3, <1>5

-----------------------------------------------------------------------------
(* Numeric values *)

\* A value comes to what those nested in it come to.
LEMMA NumValuesUnfold ==
  ASSUME NEW kind, NEW known, NEW e, NEW v \in Values
  PROVE  /\ NumValues(kind, known, e)[v]
              = InRange(kind, NumValue(kind, v, NumValues(kind, known, e), known, e))
         /\ NumValues(kind, known, e)[v] \in SUBSET Numbers(kind)
  <1>. DEFINE R == SUBSET Numbers(kind)
              depth == [t \in Values |-> Depth(t)]
              B == [p \in [Values -> R] \X Values |->
                      InRange(kind, NumValue(kind, p[2], p[1], known, e))]
  <1>1. B \in [[Values -> R] \X Values -> R]
    BY DEF InRange
  <1>2. depth \in [Values -> Nat]
    BY ValuesAssumption
  <1>3. Descends(B, Values, R, depth)
    <2>1. SUFFICES ASSUME NEW g \in [Values -> R], NEW h \in [Values -> R], NEW s \in Values,
                          \A t \in Values : depth[t] < depth[s] => g[t] = h[t]
                   PROVE  NumValue(kind, s, g, known, e) = NumValue(kind, s, h, known, e)
      BY DEF Descends
    <2>2. CASE s.is \in {"Simple", "Ref", "Env"}
      BY <2>2 DEF NumValue
    <2>3. CASE s.is = "Fn"
      <3>1. g[s.right] = h[s.right]
        BY <2>1, <2>3, ValuesAssumption
      <3>. QED
        BY <2>3, <3>1 DEF NumValue
    <2>4. CASE s.is = "Expr"
      <3>1. g[s.right] = h[s.right] /\ g[s.left] = h[s.left]
        BY <2>1, <2>4, ValuesAssumption
      <3>. QED
        BY <2>4, <3>1 DEF NumValue
    <2>. QED
      BY <2>2, <2>3, <2>4, ValuesAssumption
  <1>4. Recursion(Values, R, depth, B)
    BY <1>1, <1>2, <1>3 DEF Recursion
  <1>5. PICK f \in [Values -> R] : f = [s \in Values |-> B[<<f, s>>]]
    <2>. HIDE DEF B, depth, R
    <2>. QED
      BY <1>4, RecursionExists
  <1>6. f = [s \in Values |-> InRange(kind, NumValue(kind, s, f, known, e))]
    BY <1>5
  <1>7. NumValues(kind, known, e)
          = [s \in Values |->
               InRange(kind, NumValue(kind, s, NumValues(kind, known, e), known, e))]
    BY <1>6, Zenon DEF NumValues
  <1>. QED
    BY <1>7 DEF InRange

-----------------------------------------------------------------------------
(* Conditions *)

\* What FirstOther finds.
LEMMA FirstOtherFound ==
  ASSUME NEW b, NEW results, DOMAIN results \in SUBSET Nat
  PROVE  \/ (\A i \in DOMAIN results : results[i] = {b}) /\ FirstOther(b, results) = {b}
         \/ \E i \in DOMAIN results :
              /\ results[i] # {b}
              /\ \A j \in DOMAIN results : j < i => results[j] = {b}
              /\ FirstOther(b, results) = results[i]
  <1>. DEFINE others == {i \in DOMAIN results : results[i] # {b}}
  <1>1. CASE others = {}
    <2>1. FirstOther(b, results) = {b}
      BY <1>1 DEF FirstOther
    <2>. QED
      BY <1>1, <2>1
  <1>2. CASE others # {}
    <2>1. \E i \in others : \A j \in others : i <= j
      <3>1. others \in SUBSET Nat
        OBVIOUS
      <3>. HIDE DEF others
      <3>. QED
        BY <1>2, <3>1, LeastNatural
    <2>2. Min(others) \in others /\ \A j \in others : Min(others) <= j
      <3>. HIDE DEF others
      <3>. QED
        BY <2>1 DEF Min
    <2>3. FirstOther(b, results) = results[Min(others)]
      BY <1>2 DEF FirstOther
    <2>4. ASSUME NEW j \in DOMAIN results, j < Min(others)
          PROVE  results[j] = {b}
      <3>1. j \in Nat /\ Min(others) \in Nat /\ ~(Min(others) <= j)
        BY <2>2, <2>4
      <3>2. j \notin others
        BY <2>2, <3>1
      <3>. QED
        BY <3>2
    <2>. QED
      BY <2>2, <2>3, <2>4
  <1>. QED
    BY <1>1, <1>2

\* The numbers of condition c's parts.
LEMMA ConditionParts ==
  ASSUME NEW c \in Conditions
  PROVE  /\ c.is \in {"And", "Or", "Not", "Expr"}
         /\ c.is \in {"And", "Or"} =>
              /\ DOMAIN c.conds \in SUBSET Nat
              /\ \A i \in DOMAIN c.conds :
                   c.conds[i] \in Conditions /\ Depth(c.conds[i]) < Depth(c)
         /\ c.is = "Not" => c.cond \in Conditions /\ Depth(c.cond) < Depth(c)
  <1>1. ASSUME c.is \in {"And", "Or"}
        PROVE  /\ DOMAIN c.conds \in SUBSET Nat
               /\ \A i \in DOMAIN c.conds :
                    c.conds[i] \in Conditions /\ Depth(c.conds[i]) < Depth(c)
    <2>1. c.conds \in Seq(Conditions)
      BY <1>1, ConditionsAssumption
    <2>2. DOMAIN c.conds = 1..Len(c.conds) /\ Len(c.conds) \in Nat
      BY <2>1
    <2>3. \A i \in DOMAIN c.conds : c.conds[i] \in Conditions
      BY <2>1, <2>2
    <2>. QED
      BY <1>1, <2>2, <2>3, ConditionsAssumption
  <1>. QED
    BY <1>1, ConditionsAssumption

\* A comparison comes to a truth value,
LEMMA CompareIsTruth ==
  ASSUME NEW op \in NumOps, NEW l, NEW r
  PROVE  Compare(op, l, r) \in BOOLEAN
  <1>1. CASE op = "Eq"
    BY <1>1 DEF Compare
  <1>2. CASE op = "Neq"
    BY <1>2 DEF Compare
  <1>3. CASE op = "Lt"
    BY <1>3 DEF Compare
  <1>4. CASE op = "Lte"
    BY <1>4 DEF Compare
  <1>5. CASE op = "Gt"
    BY <1>5 DEF Compare
  <1>6. CASE op = "Gte"
    BY <1>6 DEF Compare
  <1>. QED
    BY <1>1, <1>2, <1>3, <1>4, <1>5, <1>6 DEF NumOps

\* Of a set of conditions one is nested least.
LEMMA LeastNested ==
  ASSUME NEW C \in SUBSET Conditions, C # {}
  PROVE  \E c \in C : \A d \in C : Depth(c) <= Depth(d)
  <1>. DEFINE depths == {Depth(c) : c \in C}
  <1>1. depths \in SUBSET Nat /\ depths # {}
    BY ConditionsAssumption
  <1>. HIDE DEF depths
  <1>2. PICK n \in depths : \A m \in depths : n <= m
    BY <1>1, LeastNatural
  <1>. QED
    BY <1>2 DEF depths

\* ... and so does an expression, if it comes to anything,
LEMMA ExprIsTruth ==
  ASSUME NEW c \in Conditions, c.is = "Expr", NEW known, NEW e
  PROVE  ResolveExpr(c.expr, known, e) \in SUBSET BOOLEAN
  <1>. DEFINE x == c.expr
  <1>0. x.of \in NumericKinds \cup {"String", "Time", "BlockHeight", "Bool"}
    BY ConditionsAssumption
  <1>1. CASE x.of \in NumericKinds
    <2>1. x.op \in NumOps
      BY <1>1, ConditionsAssumption
    <2>2. ASSUME NEW l, NEW r PROVE Compare(x.op, l, r) \in BOOLEAN
      BY <2>1, CompareIsTruth
    <2>3. x.of \notin {"String", "Time", "BlockHeight", "Bool"}
      BY <1>1 DEF NumericKinds
    <2>. QED
      BY <1>1, <2>2, <2>3 DEF ResolveExpr
  <1>2. CASE x.of = "String"
    <2>1. x.op \in StringOps
      BY <1>2, ConditionsAssumption
    <2>2. ASSUME NEW l, NEW r PROVE CompareText(x.op, l, r) \in BOOLEAN
      BY <2>1 DEF CompareText, StringOps, IsPrefix, IsSuffix
    <2>. QED
      BY <1>2, <2>2 DEF ResolveExpr, NumericKinds
  <1>3. CASE x.of \in {"Time", "BlockHeight"}
    <2>1. x.op \in NumOps
      BY <1>3, ConditionsAssumption
    <2>2. Compare(x.op, e[x.of], x.comparator) \in BOOLEAN
      BY <2>1, CompareIsTruth
    <2>. QED
      BY <1>3, <2>2 DEF ResolveExpr, NumericKinds
  <1>4. CASE x.of = "Bool"
    <2>1. ASSUME NEW text PROVE Parse("Bool", text) \in SUBSET BOOLEAN
      BY DEF Parse
    <2>. QED
      BY <1>4, <2>1 DEF ResolveExpr, NumericKinds, Referenced
  <1>. QED
    BY <1>0, <1>1, <1>2, <1>3, <1>4

\* The truth values of all conditions.
Truths(known, e) == [c \in Conditions |-> ResolveCond(c, known, e)]

\* ... and a condition, given those nested in it.
LEMMA HoldsIsTruth ==
  ASSUME NEW c \in Conditions, NEW known, NEW e, NEW f,
         \A t \in Conditions : Depth(t) < Depth(c) => f[t] \in SUBSET BOOLEAN
  PROVE  Holds(c, f, known, e) \in SUBSET BOOLEAN
  <1>. DEFINE results == [i \in DOMAIN c.conds |-> f[c.conds[i]]]
  <1>0. c.is \in {"And", "Or"} =>
          /\ DOMAIN results \in SUBSET Nat
          /\ \A i \in DOMAIN results : results[i] \in SUBSET BOOLEAN
    BY ConditionParts
  <1>1. CASE c.is = "And"
    <2>1. Holds(c, f, known, e) = FirstOther(TRUE, results)
      BY <1>1 DEF Holds
    <2>2. DOMAIN results \in SUBSET Nat /\ \A i \in DOMAIN results : results[i] \in SUBSET BOOLEAN
      BY <1>0, <1>1
    <2>. HIDE DEF results
    <2>3. \/ FirstOther(TRUE, results) = {TRUE}
          \/ \E i \in DOMAIN results : FirstOther(TRUE, results) = results[i]
      BY <2>2, FirstOtherFound, ZenonT(60)
    <2>. QED
      BY <2>1, <2>2, <2>3, Zenon
  <1>2. CASE c.is = "Or"
    <2>1. Holds(c, f, known, e) = FirstOther(FALSE, results)
      BY <1>2 DEF Holds
    <2>2. DOMAIN results \in SUBSET Nat /\ \A i \in DOMAIN results : results[i] \in SUBSET BOOLEAN
      BY <1>0, <1>2
    <2>. HIDE DEF results
    <2>3. \/ FirstOther(FALSE, results) = {FALSE}
          \/ \E i \in DOMAIN results : FirstOther(FALSE, results) = results[i]
      BY <2>2, FirstOtherFound, ZenonT(60)
    <2>. QED
      BY <2>1, <2>2, <2>3, Zenon
  <1>3. CASE c.is = "Not"
    <2>1. f[c.cond] \in SUBSET BOOLEAN
      BY <1>3, ConditionParts
    <2>. QED
      BY <1>3, <2>1 DEF Holds
  <1>4. CASE c.is = "Expr"
    BY <1>4, ExprIsTruth DEF Holds
  <1>. QED
    BY <1>1, <1>2, <1>3, <1>4, ConditionParts

\* A condition comes to what those nested in it come to.
LEMMA TruthsUnfold ==
  ASSUME NEW known, NEW e, NEW c \in Conditions
  PROVE  /\ Truths(known, e) \in [Conditions -> SUBSET BOOLEAN]
         /\ Truths(known, e)[c] = ResolveCond(c, known, e)
         /\ ResolveCond(c, known, e) = Holds(c, Truths(known, e), known, e)
         /\ ResolveCond(c, known, e) \in SUBSET BOOLEAN
  <1>. DEFINE R == SUBSET BOOLEAN
              depth == [t \in Conditions |-> Depth(t)]
              B == [p \in [Conditions -> R] \X Conditions |-> Holds(p[2], p[1], known, e)]
  <1>1. B \in [[Conditions -> R] \X Conditions -> R]
    BY HoldsIsTruth
  <1>2. depth \in [Conditions -> Nat]
    BY ConditionsAssumption
  <1>3. Descends(B, Conditions, R, depth)
    <2>1. SUFFICES ASSUME NEW g \in [Conditions -> R], NEW h \in [Conditions -> R],
                          NEW s \in Conditions,
                          \A t \in Conditions : depth[t] < depth[s] => g[t] = h[t]
                   PROVE  Holds(s, g, known, e) = Holds(s, h, known, e)
      BY DEF Descends
    <2>2. CASE s.is \in {"And", "Or"}
      <3>1. [i \in DOMAIN s.conds |-> g[s.conds[i]]] = [i \in DOMAIN s.conds |-> h[s.conds[i]]]
        BY <2>1, <2>2, ConditionParts
      <3>. QED
        BY <2>2, <3>1 DEF Holds
    <2>3. CASE s.is = "Not"
      <3>1. g[s.cond] = h[s.cond]
        BY <2>1, <2>3, ConditionParts
      <3>. QED
        BY <2>3, <3>1 DEF Holds
    <2>4. CASE s.is = "Expr"
      BY <2>4 DEF Holds
    <2>. QED
      BY <2>2, <2>3, <2>4, ConditionParts
  <1>4. Recursion(Conditions, R, depth, B)
    BY <1>1, <1>2, <1>3 DEF Recursion
  <1>5. PICK f \in [Conditions -> R] : f = [s \in Conditions |-> B[<<f, s>>]]
    <2>. HIDE DEF B, depth, R
    <2>. QED
      BY <1>4, RecursionExists
  <1>6. f = [s \in Conditions |-> Holds(s, f, known, e)]
    BY <1>5
  <1>. DEFINE all == CHOOSE g : g = [s \in Conditions |-> Holds(s, g, known, e)]
  <1>7. all = [s \in Conditions |-> Holds(s, all, known, e)]
    BY <1>6, Zenon
  <1>8. \A s : ResolveCond(s, known, e) = all[s]
    BY Zenon DEF ResolveCond
  <1>. HIDE DEF all
  <1>9. Truths(known, e) = all
    BY <1>7, <1>8 DEF Truths
  <1>10. all \in [Conditions -> SUBSET BOOLEAN]
    <2>. DEFINE bad == {t \in Conditions : all[t] \notin SUBSET BOOLEAN}
    <2>1. ASSUME NEW t \in bad, \A s \in bad : Depth(t) <= Depth(s)
          PROVE  FALSE
      <3>1. \A s \in Conditions : Depth(s) < Depth(t) => all[s] \in SUBSET BOOLEAN
        BY <2>1, ConditionsAssumption
      <3>2. Holds(t, all, known, e) \in SUBSET BOOLEAN
        BY <3>1, HoldsIsTruth
      <3>. QED
        BY <1>7, <3>2
    <2>2. bad = {}
      <3>1. bad \in SUBSET Conditions
        OBVIOUS
      <3>. HIDE DEF bad
      <3>. QED
        BY <2>1, <3>1, LeastNested
    <2>. QED
      BY <1>7, <2>2
  <1>. QED
    BY <1>7, <1>8, <1>9, <1>10

-----------------------------------------------------------------------------
(* At most one result *)

Single(S) == \A x, y \in S : x = y

\* No two variables have one name.
Distinct(known) == \A v, w \in known : v.name = w.name => v = w

\* Distinct names have one value each,
LEMMA ReferencedSingle ==
  ASSUME NEW kind, NEW name, NEW known, Distinct(known)
  PROVE  Single(ValueOf(name, known)) /\ Single(Referenced(kind, name, known))
  <1>1. Single(ValueOf(name, known))
    BY DEF Single, ValueOf, Distinct
  <1>2. ASSUME NEW text PROVE Single(Parse(kind, text))
    <2>1. CASE kind = "Bool"
      <3>1. \A b, d \in BOOLEAN : Truth(b) = Truth(d) => b = d
        BY DEF Truth
      <3>. QED
        BY <2>1, <3>1 DEF Single, Parse
    <2>2. CASE kind # "Bool"
      BY <2>2 DEF Single, Parse, InRange
    <2>. QED
      BY <2>1, <2>2
  <1>. QED
    BY <1>1, <1>2 DEF Single, Referenced

\* ... an operation has one result,
LEMMA ApplySingle ==
  ASSUME NEW kind, NEW op \in ValueOps, NEW l, NEW r
  PROVE  Single(Apply(kind, op, l, r))
  <1>1. CASE op = "Add"
    BY <1>1 DEF Apply, Single
  <1>2. CASE op = "Sub"
    BY <1>2 DEF Apply, Single
  <1>3. CASE op = "Mul"
    BY <1>3 DEF Apply, Single
  <1>4. CASE op = "Div"
    BY <1>4 DEF Apply, Single
  <1>5. CASE op = "Mod"
    BY <1>5 DEF Apply, Single
  <1>. QED
    BY <1>1, <1>2, <1>3, <1>4, <1>5 DEF ValueOps

\* ... a function has one result,
LEMMA ApplyFnSingle ==
  ASSUME NEW kind, NEW op \in ValueFns, NEW n
  PROVE  Single(ApplyFn(kind, op, n))
  <1>1. CASE op = "Abs"
    BY <1>1 DEF ApplyFn, Single
  <1>2. CASE op = "Neg"
    BY <1>2 DEF ApplyFn, Single
  <1>3. CASE op = "Floor"
    BY <1>3 DEF ApplyFn, Single
  <1>4. CASE op = "Ceil"
    BY <1>4 DEF ApplyFn, Single
  <1>5. CASE op = "Sqrt"
    BY <1>5 DEF ApplyFn, Single
  <1>. QED
    BY <1>1, <1>2, <1>3, <1>4, <1>5 DEF ValueFns

\* ... a numeric value comes to at most one number,
LEMMA NumberSingle ==
  ASSUME NEW kind, NEW known, NEW e, Distinct(known), NEW v \in Values
  PROVE  Single(NumValues(kind, known, e)[v])
  <1>. DEFINE value == NumValues(kind, known, e)
              bad == {t \in Values : ~Single(value[t])}
              depths == {Depth(t) : t \in bad}
  <1>1. ASSUME NEW t \in Values, \A s \in Values : Depth(s) < Depth(t) => Single(value[s])
        PROVE  Single(NumValue(kind, t, value, known, e))
    <2>. HIDE DEF value
    <2>1. CASE t.is = "Simple"
      BY <2>1 DEF NumValue, Single
    <2>2. CASE t.is = "Ref"
      BY <2>2, ReferencedSingle DEF NumValue
    <2>3. CASE t.is = "Env"
      BY <2>3 DEF NumValue, Single
    <2>4. CASE t.is = "Fn"
      <3>1. t.right \in Values /\ Depth(t.right) < Depth(t) /\ t.op \in ValueFns
        BY <2>4, ValuesAssumption
      <3>2. Single(value[t.right])
        BY <1>1, <3>1
      <3>3. Single(UNION {ApplyFn(kind, t.op, n) : n \in value[t.right]})
        BY <3>1, <3>2, ApplyFnSingle DEF Single
      <3>4. NumValue(kind, t, value, known, e)
              \in {{}, UNION {ApplyFn(kind, t.op, n) : n \in value[t.right]}}
        BY <2>4 DEF NumValue
      <3>. QED
        BY <3>3, <3>4 DEF Single
    <2>5. CASE t.is = "Expr"
      <3>1. /\ t.right \in Values /\ Depth(t.right) < Depth(t) /\ t.op \in ValueOps
            /\ t.left \in Values /\ Depth(t.left) < Depth(t)
        BY <2>5, ValuesAssumption
      <3>2. Single(value[t.right]) /\ Single(value[t.left])
        BY <1>1, <3>1
      <3>3. Single(UNION {Apply(kind, t.op, l, r) : l \in value[t.left], r \in value[t.right]})
        BY <3>1, <3>2, ApplySingle DEF Single
      <3>4. NumValue(kind, t, value, known, e)
              = UNION {Apply(kind, t.op, l, r) : l \in value[t.left], r \in value[t.right]}
        BY <2>5 DEF NumValue
      <3>. QED
        BY <3>3, <3>4
    <2>. QED
      BY <2>1, <2>2, <2>3, <2>4, <2>5, ValuesAssumption
  <1>2. ASSUME NEW t \in bad, \A s \in bad : Depth(t) <= Depth(s)
        PROVE  FALSE
    <2>1. \A s \in Values : Depth(s) < Depth(t) => Single(value[s])
      <3>. HIDE DEF value
      <3>. QED
        BY <1>2, ValuesAssumption
    <2>2. Single(NumValue(kind, t, value, known, e))
      BY <1>1, <2>1
    <2>3. value[t] = InRange(kind, NumValue(kind, t, value, known, e))
      BY NumValuesUnfold
    <2>. QED
      BY <2>2, <2>3 DEF Single, InRange
  <1>3. bad = {}
    <2>. SUFFICES ASSUME bad # {} PROVE FALSE
      OBVIOUS
    <2>1. depths \in SUBSET Nat /\ depths # {}
      BY ValuesAssumption
    <2>2. PICK n \in depths : \A m \in depths : n <= m
      <3>. HIDE DEF depths
      <3>. QED
        BY <2>1, LeastNatural
    <2>. HIDE DEF bad
    <2>. QED
      BY <1>2, <2>2
  <1>. QED
    BY <1>3

\* ... and an expression to at most one truth value.
LEMMA ExprSingle ==
  ASSUME NEW c \in Conditions, c.is = "Expr", NEW known, NEW e, Distinct(known)
  PROVE  Single(ResolveExpr(c.expr, known, e))
  <1>. DEFINE x == c.expr
  <1>0. x.of \in NumericKinds \cup {"String", "Time", "BlockHeight", "Bool"}
    BY ConditionsAssumption
  <1>1. CASE x.of \in NumericKinds
    <2>. DEFINE value == NumValues(x.of, known, e)
    <2>1. Single(value[x.left]) /\ Single(value[x.right])
      BY <1>1, NumberSingle, ConditionsAssumption
    <2>2. ResolveExpr(x, known, e)
            = {Compare(x.op, l, r) : l \in value[x.left], r \in value[x.right]}
      BY <1>1 DEF ResolveExpr, NumericKinds
    <2>. HIDE DEF value
    <2>3. ASSUME NEW y \in ResolveExpr(x, known, e), NEW z \in ResolveExpr(x, known, e)
          PROVE  y = z
      <3>1. PICK l1 \in value[x.left], r1 \in value[x.right] : y = Compare(x.op, l1, r1)
        BY <2>2
      <3>2. PICK l2 \in value[x.left], r2 \in value[x.right] : z = Compare(x.op, l2, r2)
        BY <2>2
      <3>3. l1 = l2 /\ r1 = r2
        BY <2>1 DEF Single
      <3>. QED
        BY <3>1, <3>2, <3>3
    <2>. QED
      BY <2>3 DEF Single
  <1>2. CASE x.of = "String"
    <2>1. Single(TextValue(x.left, known)) /\ Single(TextValue(x.right, known))
      BY ReferencedSingle DEF TextValue, Single
    <2>2. ResolveExpr(x, known, e) = {CompareText(x.op, l, r) :
                                        l \in TextValue(x.left, known),
                                        r \in TextValue(x.right, known)}
      BY <1>2 DEF ResolveExpr, NumericKinds
    <2>3. ASSUME NEW y \in ResolveExpr(x, known, e), NEW z \in ResolveExpr(x, known, e)
          PROVE  y = z
      <3>1. PICK l1 \in TextValue(x.left, known), r1 \in TextValue(x.right, known) :
                   y = CompareText(x.op, l1, r1)
        BY <2>2
      <3>2. PICK l2 \in TextValue(x.left, known), r2 \in TextValue(x.right, known) :
                   z = CompareText(x.op, l2, r2)
        BY <2>2
      <3>3. l1 = l2 /\ r1 = r2
        BY <2>1 DEF Single
      <3>. QED
        BY <3>1, <3>2, <3>3
    <2>. QED
      BY <2>3 DEF Single
  <1>3. CASE x.of \in {"Time", "BlockHeight"}
    BY <1>3 DEF ResolveExpr, NumericKinds, Single
  <1>4. CASE x.of = "Bool"
    BY <1>4, ReferencedSingle DEF ResolveExpr, NumericKinds
  <1>. QED
    BY <1>0, <1>1, <1>2, <1>3, <1>4

-----------------------------------------------------------------------------
(* What conditions can come to *)

\* The truth values a condition can have are those its parts allow.
LEMMA PossibleUnfold ==
  ASSUME NEW known, NEW e, NEW c \in Conditions
  PROVE  PossibleTruths(known, e)[c] = Possibly(c, PossibleTruths(known, e), known, e)
  <1>. DEFINE R == SUBSET BOOLEAN
              depth == [t \in Conditions |-> Depth(t)]
              B == [p \in [Conditions -> R] \X Conditions |-> Possibly(p[2], p[1], known, e)]
  <1>1. ASSUME NEW f \in [Conditions -> R], NEW t \in Conditions
        PROVE  Possibly(t, f, known, e) \in SUBSET BOOLEAN
    <2>1. CASE t.is = "And"
      BY <2>1 DEF Possibly
    <2>2. CASE t.is = "Or"
      BY <2>2 DEF Possibly
    <2>3. CASE t.is = "Not"
      BY <2>3 DEF Possibly
    <2>4. CASE t.is = "Expr"
      BY <2>4, ExprIsTruth DEF Possibly
    <2>. QED
      BY <2>1, <2>2, <2>3, <2>4, ConditionParts
  <1>2. B \in [[Conditions -> R] \X Conditions -> R]
    BY <1>1
  <1>3. depth \in [Conditions -> Nat]
    BY ConditionsAssumption
  <1>4. Descends(B, Conditions, R, depth)
    <2>1. SUFFICES ASSUME NEW g \in [Conditions -> R], NEW h \in [Conditions -> R],
                          NEW s \in Conditions,
                          \A t \in Conditions : depth[t] < depth[s] => g[t] = h[t]
                   PROVE  Possibly(s, g, known, e) = Possibly(s, h, known, e)
      BY DEF Descends
    <2>2. ASSUME s.is \in {"And", "Or"}
          PROVE  \A i \in DOMAIN s.conds : g[s.conds[i]] = h[s.conds[i]]
      BY <2>1, <2>2, ConditionParts
    <2>3. CASE s.is = "And"
      BY <2>2, <2>3 DEF Possibly
    <2>4. CASE s.is = "Or"
      BY <2>2, <2>4 DEF Possibly
    <2>5. CASE s.is = "Not"
      <3>1. g[s.cond] = h[s.cond]
        BY <2>1, <2>5, ConditionParts
      <3>. QED
        BY <2>5, <3>1 DEF Possibly
    <2>6. CASE s.is = "Expr"
      BY <2>6 DEF Possibly
    <2>. QED
      BY <2>3, <2>4, <2>5, <2>6, ConditionParts
  <1>5. Recursion(Conditions, R, depth, B)
    BY <1>2, <1>3, <1>4 DEF Recursion
  <1>6. PICK f \in [Conditions -> R] : f = [s \in Conditions |-> B[<<f, s>>]]
    <2>. HIDE DEF B, depth, R
    <2>. QED
      BY <1>5, RecursionExists
  <1>7. f = [s \in Conditions |-> Possibly(s, f, known, e)]
    BY <1>6
  <1>8. PossibleTruths(known, e)
          = [s \in Conditions |-> Possibly(s, PossibleTruths(known, e), known, e)]
    BY <1>7, Zenon DEF PossibleTruths
  <1>. QED
    BY <1>8

ExpressionsOf(c, nested) ==
  CASE c.is = "Expr" -> {c.expr}
    [] c.is = "Not" -> nested[c.cond]
    [] OTHER -> UNION {nested[c.conds[i]] : i \in DOMAIN c.conds}

\* The expressions of a condition are those of its parts.
LEMMA ExpressionsUnfold ==
  ASSUME NEW c \in Conditions
  PROVE  /\ c.is \in {"And", "Or"} =>
              Expressions[c] = UNION {Expressions[c.conds[i]] : i \in DOMAIN c.conds}
         /\ c.is = "Not" => Expressions[c] = Expressions[c.cond]
         /\ c.is = "Expr" => Expressions[c] = {c.expr}
  <1>. DEFINE R == SUBSET {t.expr : t \in Conditions}
              depth == [t \in Conditions |-> Depth(t)]
              B == [p \in [Conditions -> R] \X Conditions |-> ExpressionsOf(p[2], p[1])]
  <1>1. ASSUME NEW f \in [Conditions -> R], NEW t \in Conditions
        PROVE  ExpressionsOf(t, f) \in R
    <2>1. CASE t.is \in {"And", "Or"}
      <3>1. \A i \in DOMAIN t.conds : f[t.conds[i]] \in R
        BY <2>1, ConditionParts
      <3>. QED
        BY <2>1, <3>1 DEF ExpressionsOf
    <2>2. CASE t.is = "Not"
      BY <2>2, ConditionParts DEF ExpressionsOf
    <2>3. CASE t.is = "Expr"
      BY <2>3 DEF ExpressionsOf
    <2>. QED
      BY <2>1, <2>2, <2>3, ConditionParts
  <1>2. B \in [[Conditions -> R] \X Conditions -> R]
    BY <1>1
  <1>3. depth \in [Conditions -> Nat]
    BY ConditionsAssumption
  <1>4. Descends(B, Conditions, R, depth)
    <2>1. SUFFICES ASSUME NEW g \in [Conditions -> R], NEW h \in [Conditions -> R],
                          NEW s \in Conditions,
                          \A t \in Conditions : depth[t] < depth[s] => g[t] = h[t]
                   PROVE  ExpressionsOf(s, g) = ExpressionsOf(s, h)
      BY DEF Descends
    <2>2. CASE s.is \in {"And", "Or"}
      <3>1. \A i \in DOMAIN s.conds : g[s.conds[i]] = h[s.conds[i]]
        BY <2>1, <2>2, ConditionParts
      <3>2. {g[s.conds[i]] : i \in DOMAIN s.conds} = {h[s.conds[i]] : i \in DOMAIN s.conds}
        BY <3>1
      <3>. QED
        BY <2>2, <3>2, Zenon DEF ExpressionsOf
    <2>3. CASE s.is = "Not"
      BY <2>1, <2>3, ConditionParts DEF ExpressionsOf
    <2>4. CASE s.is = "Expr"
      BY <2>4 DEF ExpressionsOf
    <2>. QED
      BY <2>2, <2>3, <2>4, ConditionParts
  <1>5. Recursion(Conditions, R, depth, B)
    BY <1>2, <1>3, <1>4 DEF Recursion
  <1>6. PICK f \in [Conditions -> R] : f = [s \in Conditions |-> B[<<f, s>>]]
    <2>. HIDE DEF B, depth, R
    <2>. QED
      BY <1>5, RecursionExists
  <1>7. \E g : g = [s \in Conditions |-> ExpressionsOf(s, g)]
    BY <1>6
  <1>8. Expressions = CHOOSE g : g = [s \in Conditions |-> ExpressionsOf(s, g)]
    BY DEF Expressions, ExpressionsOf
  <1>9. Expressions = [s \in Conditions |-> ExpressionsOf(s, Expressions)]
    <2>. QED
      BY <1>7, <1>8, Zenon
  <1>10. Expressions[c] = ExpressionsOf(c, Expressions)
    <2>. QED
      BY <1>9
  <1>. QED
    BY <1>10 DEF ExpressionsOf

\* What evaluation from left to right comes to is all the condition can be.
Decided(c, known, e) ==
  LET r == ResolveCond(c, known, e) IN
  /\ Single(r)
  /\ r = {} => \E x \in Expressions[c] : ResolveExpr(x, known, e) = {}
  /\ r # {} => PossibleTruths(known, e)[c] = r

\* At most one truth value.
LEMMA TruthSet ==
  ASSUME NEW S \in SUBSET BOOLEAN, Single(S)
  PROVE  S = {} \/ S = {TRUE} \/ S = {FALSE}
  BY Zenon DEF Single

\* A conjunction of decided conditions is decided,
LEMMA AndDecided ==
  ASSUME NEW known, NEW e, NEW c \in Conditions, c.is = "And",
         \A i \in DOMAIN c.conds : Decided(c.conds[i], known, e)
  PROVE  Decided(c, known, e)
  <1>. DEFINE r == ResolveCond(c, known, e)
              possible == PossibleTruths(known, e)
              results == [i \in DOMAIN c.conds |-> Truths(known, e)[c.conds[i]]]
  <1>1. /\ DOMAIN c.conds \in SUBSET Nat
        /\ \A i \in DOMAIN c.conds : c.conds[i] \in Conditions
    BY ConditionParts
  <1>2. r = FirstOther(TRUE, results)
    BY TruthsUnfold DEF Holds
  <1>3. ASSUME NEW i \in DOMAIN c.conds
        PROVE  /\ results[i] = ResolveCond(c.conds[i], known, e)
               /\ results[i] = {} \/ results[i] = {TRUE} \/ results[i] = {FALSE}
               /\ results[i] # {} => possible[c.conds[i]] = results[i]
               /\ results[i] = {} =>
                    \E x \in Expressions[c.conds[i]] : ResolveExpr(x, known, e) = {}
    <2>1. results[i] = ResolveCond(c.conds[i], known, e) /\ results[i] \in SUBSET BOOLEAN
      BY <1>1, TruthsUnfold
    <2>. HIDE DEF results, possible
    <2>2. Single(results[i])
      BY <2>1 DEF Decided
    <2>3. results[i] = {} \/ results[i] = {TRUE} \/ results[i] = {FALSE}
      BY <2>1, <2>2, TruthSet, Zenon
    <2>4. results[i] # {} => possible[c.conds[i]] = results[i]
      BY <2>1 DEF Decided, possible
    <2>5. results[i] = {} => \E x \in Expressions[c.conds[i]] : ResolveExpr(x, known, e) = {}
      BY <2>1 DEF Decided
    <2>. QED
      BY <2>1, <2>3, <2>4, <2>5, Zenon
  <1>4. possible[c] = {b \in BOOLEAN :
                         IF b THEN \A i \in DOMAIN c.conds : TRUE \in possible[c.conds[i]]
                         ELSE \E i \in DOMAIN c.conds : FALSE \in possible[c.conds[i]]}
    <2>1. possible[c] = Possibly(c, possible, known, e)
      BY PossibleUnfold
    <2>. HIDE DEF possible
    <2>2. Possibly(c, possible, known, e)
            = {b \in BOOLEAN :
                 IF b THEN \A i \in DOMAIN c.conds : TRUE \in possible[c.conds[i]]
                 ELSE \E i \in DOMAIN c.conds : FALSE \in possible[c.conds[i]]}
      BY SMT DEF Possibly
    <2>. QED
      BY <2>1, <2>2
  <1>5. DOMAIN results = DOMAIN c.conds
    OBVIOUS
  <1>. HIDE DEF r, possible, results
  <1>6. CASE (\A i \in DOMAIN c.conds : results[i] = {TRUE}) /\ r = {TRUE}
    <2>1. ASSUME NEW i \in DOMAIN c.conds PROVE possible[c.conds[i]] = {TRUE}
      BY <1>3, <1>6, Zenon
    <2>2. possible[c] = {TRUE}
      BY <1>4, <2>1, Zenon
    <2>3. Single(r) /\ r # {}
      BY <1>6, Zenon DEF Single
    <2>. QED
      BY <1>6, <2>2, <2>3, Zenon DEF Decided, r, possible
  <1>7. ASSUME NEW i \in DOMAIN c.conds, results[i] # {TRUE}, r = results[i]
        PROVE  Decided(c, known, e)
    <2>1. CASE r = {}
      <3>1. PICK x \in Expressions[c.conds[i]] : ResolveExpr(x, known, e) = {}
        BY <1>3, <1>7, <2>1
      <3>2. x \in Expressions[c]
        BY <3>1, ExpressionsUnfold
      <3>. QED
        BY <2>1, <3>1, <3>2 DEF Decided, Single, r
    <2>2. CASE r = {FALSE}
      <3>1. possible[c.conds[i]] = {FALSE}
        BY <1>3, <1>7, <2>2, Zenon
      <3>2. possible[c] = {FALSE}
        BY <1>4, <3>1, Zenon
      <3>3. Single(r) /\ r # {}
        BY <2>2, Zenon DEF Single
      <3>. QED
        BY <2>2, <3>2, <3>3, Zenon DEF Decided, r, possible
    <2>. QED
      BY <1>3, <1>7, <2>1, <2>2, Zenon
  <1>8. \/ (\A i \in DOMAIN c.conds : results[i] = {TRUE}) /\ r = {TRUE}
        \/ \E i \in DOMAIN c.conds : results[i] # {TRUE} /\ r = results[i]
    BY <1>1, <1>2, <1>5, FirstOtherFound, Zenon
  <1>. QED
    BY <1>6, <1>7, <1>8, Zenon
\* ... a disjunction,
LEMMA OrDecided ==
  ASSUME NEW known, NEW e, NEW c \in Conditions, c.is = "Or",
         \A i \in DOMAIN c.conds : Decided(c.conds[i], known, e)
  PROVE  Decided(c, known, e)
  <1>. DEFINE r == ResolveCond(c, known, e)
              possible == PossibleTruths(known, e)
              results == [i \in DOMAIN c.conds |-> Truths(known, e)[c.conds[i]]]
  <1>1. /\ DOMAIN c.conds \in SUBSET Nat
        /\ \A i \in DOMAIN c.conds : c.conds[i] \in Conditions
    BY ConditionParts
  <1>2. r = FirstOther(FALSE, results)
    BY TruthsUnfold DEF Holds
  <1>3. ASSUME NEW i \in DOMAIN c.conds
        PROVE  /\ results[i] = ResolveCond(c.conds[i], known, e)
               /\ results[i] = {} \/ results[i] = {TRUE} \/ results[i] = {FALSE}
               /\ results[i] # {} => possible[c.conds[i]] = results[i]
               /\ results[i] = {} =>
                    \E x \in Expressions[c.conds[i]] : ResolveExpr(x, known, e) = {}
    <2>1. results[i] = ResolveCond(c.conds[i], known, e) /\ results[i] \in SUBSET BOOLEAN
      BY <1>1, TruthsUnfold
    <2>. HIDE DEF results, possible
    <2>2. Single(results[i])
      BY <2>1 DEF Decided
    <2>3. results[i] = {} \/ results[i] = {TRUE} \/ results[i] = {FALSE}
      BY <2>1, <2>2, TruthSet, Zenon
    <2>4. results[i] # {} => possible[c.conds[i]] = results[i]
      BY <2>1 DEF Decided, possible
    <2>5. results[i] = {} => \E x \in Expressions[c.conds[i]] : ResolveExpr(x, known, e) = {}
      BY <2>1 DEF Decided
    <2>. QED
      BY <2>1, <2>3, <2>4, <2>5, Zenon
  <1>4. possible[c] = {b \in BOOLEAN :
                         IF b THEN \E i \in DOMAIN c.conds : TRUE \in possible[c.conds[i]]
                         ELSE \A i \in DOMAIN c.conds : FALSE \in possible[c.conds[i]]}
    <2>1. possible[c] = Possibly(c, possible, known, e)
      BY PossibleUnfold
    <2>. HIDE DEF possible
    <2>2. Possibly(c, possible, known, e)
            = {b \in BOOLEAN :
                 IF b THEN \E i \in DOMAIN c.conds : TRUE \in possible[c.conds[i]]
                 ELSE \A i \in DOMAIN c.conds : FALSE \in possible[c.conds[i]]}
      BY SMT DEF Possibly
    <2>. QED
      BY <2>1, <2>2
  <1>5. DOMAIN results = DOMAIN c.conds
    OBVIOUS
  <1>. HIDE DEF r, possible, results
  <1>6. CASE (\A i \in DOMAIN c.conds : results[i] = {FALSE}) /\ r = {FALSE}
    <2>1. ASSUME NEW i \in DOMAIN c.conds PROVE possible[c.conds[i]] = {FALSE}
      BY <1>3, <1>6, Zenon
    <2>2. possible[c] = {FALSE}
      BY <1>4, <2>1, Zenon
    <2>3. Single(r) /\ r # {}
      BY <1>6, Zenon DEF Single
    <2>. QED
      BY <1>6, <2>2, <2>3, Zenon DEF Decided, r, possible
  <1>7. ASSUME NEW i \in DOMAIN c.conds, results[i] # {FALSE}, r = results[i]
        PROVE  Decided(c, known, e)
    <2>1. CASE r = {}
      <3>1. PICK x \in Expressions[c.conds[i]] : ResolveExpr(x, known, e) = {}
        BY <1>3, <1>7, <2>1
      <3>2. x \in Expressions[c]
        BY <3>1, ExpressionsUnfold
      <3>. QED
        BY <2>1, <3>1, <3>2 DEF Decided, Single, r
    <2>2. CASE r = {TRUE}
      <3>1. possible[c.conds[i]] = {TRUE}
        BY <1>3, <1>7, <2>2, Zenon
      <3>2. possible[c] = {TRUE}
        BY <1>4, <3>1, Zenon
      <3>3. Single(r) /\ r # {}
        BY <2>2, Zenon DEF Single
      <3>. QED
        BY <2>2, <3>2, <3>3, Zenon DEF Decided, r, possible
    <2>. QED
      BY <1>3, <1>7, <2>1, <2>2, Zenon
  <1>8. \/ (\A i \in DOMAIN c.conds : results[i] = {FALSE}) /\ r = {FALSE}
        \/ \E i \in DOMAIN c.conds : results[i] # {FALSE} /\ r = results[i]
    BY <1>1, <1>2, <1>5, FirstOtherFound, Zenon
  <1>. QED
    BY <1>6, <1>7, <1>8, Zenon

\* ... a negation,
LEMMA NotDecided ==
  ASSUME NEW known, NEW e, NEW c \in Conditions, c.is = "Not", Decided(c.cond, known, e)
  PROVE  Decided(c, known, e)
  <1>. DEFINE r == ResolveCond(c, known, e)
              q == ResolveCond(c.cond, known, e)
              possible == PossibleTruths(known, e)
  <1>1. c.cond \in Conditions
    BY ConditionParts
  <1>2. r = {~b : b \in q}
    <2>1. r = Holds(c, Truths(known, e), known, e) /\ Truths(known, e)[c.cond] = q
      BY <1>1, TruthsUnfold
    <2>2. Holds(c, Truths(known, e), known, e) = {~b : b \in Truths(known, e)[c.cond]}
      BY DEF Holds
    <2>. HIDE DEF r, q
    <2>. QED
      BY <2>1, <2>2
  <1>3. possible[c] = {~b : b \in possible[c.cond]}
    <2>1. possible[c] = Possibly(c, possible, known, e)
      BY PossibleUnfold
    <2>. HIDE DEF possible
    <2>. QED
      BY <2>1 DEF Possibly
  <1>4. q \in SUBSET BOOLEAN /\ Single(q)
    BY <1>1, TruthsUnfold DEF Decided
  <1>5. /\ q = {} => \E x \in Expressions[c.cond] : ResolveExpr(x, known, e) = {}
        /\ q # {} => possible[c.cond] = q
    BY DEF Decided
  <1>. HIDE DEF r, q, possible
  <1>6. CASE q = {}
    <2>1. r = {}
      BY <1>2, <1>6
    <2>2. Expressions[c] = Expressions[c.cond]
      BY ExpressionsUnfold
    <2>. QED
      BY <1>5, <1>6, <2>1, <2>2 DEF Decided, Single, r
  <1>7. CASE q # {}
    <2>1. possible[c] = r
      BY <1>2, <1>3, <1>5, <1>7
    <2>2. q = {TRUE} \/ q = {FALSE}
      BY <1>4, <1>7, TruthSet, Zenon
    <2>3. r = {TRUE} \/ r = {FALSE}
      BY <1>2, <2>2, Zenon
    <2>4. Single(r) /\ r # {}
      BY <2>3, Zenon DEF Single
    <2>. QED
      BY <2>1, <2>4 DEF Decided, r, possible
  <1>. QED
    BY <1>6, <1>7

\* ... an expression,
LEMMA ExprDecided ==
  ASSUME NEW known, NEW e, NEW c \in Conditions, c.is = "Expr", Distinct(known)
  PROVE  Decided(c, known, e)
  <1>. DEFINE r == ResolveExpr(c.expr, known, e)
              possible == PossibleTruths(known, e)
  <1>1. ResolveCond(c, known, e) = r
    BY TruthsUnfold DEF Holds
  <1>2. possible[c] = IF r = {} THEN BOOLEAN ELSE r
    <2>1. possible[c] = Possibly(c, possible, known, e)
      BY PossibleUnfold
    <2>. HIDE DEF possible
    <2>. QED
      BY <2>1 DEF Possibly
  <1>3. Single(r)
    BY ExprSingle
  <1>4. c.expr \in Expressions[c]
    BY ExpressionsUnfold
  <1>. QED
    BY <1>1, <1>2, <1>3, <1>4 DEF Decided

\* ... and so all conditions are.
LEMMA AllDecided ==
  ASSUME NEW known, NEW e, Distinct(known), NEW c \in Conditions
  PROVE  Decided(c, known, e)
  <1>. DEFINE bad == {d \in Conditions : ~Decided(d, known, e)}
  <1>1. ASSUME NEW d \in bad, \A t \in bad : Depth(d) <= Depth(t)
        PROVE  FALSE
    <2>1. ASSUME NEW t \in Conditions, Depth(t) < Depth(d)
          PROVE  Decided(t, known, e)
      <3>1. Depth(t) \in Nat /\ Depth(d) \in Nat /\ ~(Depth(d) <= Depth(t))
        BY <2>1, ConditionsAssumption
      <3>. QED
        BY <1>1, <3>1
    <2>2. CASE d.is = "And"
      BY <2>1, <2>2, AndDecided, ConditionParts
    <2>3. CASE d.is = "Or"
      BY <2>1, <2>3, OrDecided, ConditionParts
    <2>4. CASE d.is = "Not"
      BY <2>1, <2>4, NotDecided, ConditionParts
    <2>5. CASE d.is = "Expr"
      BY <2>5, ExprDecided
    <2>. QED
      BY <2>2, <2>3, <2>4, <2>5, ConditionParts
  <1>2. bad = {}
    <2>1. bad \in SUBSET Conditions
      OBVIOUS
    <2>. HIDE DEF bad
    <2>. QED
      BY <1>1, <2>1, LeastNested
  <1>. QED
    BY <1>2

-----------------------------------------------------------------------------
(* Variables *)

\* The same variable, with another value or another query.
SameVariable(v, w) ==
  /\ DOMAIN v = DOMAIN w
  /\ \A field \in DOMAIN v \ {"value", "init_fn"} : v[field] = w[field]

\* The same variables in the same order.
SameVariables(vs, ws) ==
  /\ vs \in Seq(Range(vs))
  /\ Len(vs) = Len(ws)
  /\ \A i \in 1..Len(ws) : SameVariable(vs[i], ws[i])

\* The elements of a sequence.
LEMMA SequenceParts ==
  ASSUME NEW s, s \in Seq(Range(s))
  PROVE  /\ Len(s) \in Nat /\ DOMAIN s = 1..Len(s)
         /\ \A i \in 1..Len(s) : s[i] \in Range(s)
  BY DEF Range

\* A function of 1..n is a sequence.
LEMMA IsSequence ==
  ASSUME NEW n \in Nat, NEW s, s = [i \in 1..n |-> s[i]]
  PROVE  s \in Seq(Range(s)) /\ Len(s) = n /\ DOMAIN s = 1..n
  <1>1. DOMAIN s = 1..n
    BY Zenon
  <1>2. s \in [1..n -> Range(s)]
    <2>1. \A i \in 1..n : s[i] \in Range(s)
      BY <1>1 DEF Range
    <2>. HIDE DEF Range
    <2>. QED
      BY <2>1
  <1>3. s \in Seq(Range(s))
    BY <1>2, SeqDef
  <1>. QED
    BY <1>1, <1>3

\* The same variable has the same name, kind and update functions.
LEMMA SameTypes ==
  ASSUME NEW v, NEW w, IsVariable(w), SameVariable(v, w)
  PROVE  /\ IsVariable(v)
         /\ v.is = w.is /\ v.name = w.name /\ v.kind = w.kind /\ v.encode = w.encode
         /\ v.update_fn = w.update_fn
         /\ w.is # "Static" => v.reinitialize = w.reinitialize
  <1>1. {"is", "name", "kind", "value", "encode", "update_fn"} \subseteq DOMAIN w
    BY DEF IsVariable
  <1>2. /\ v["is"] = w["is"] /\ v["name"] = w["name"] /\ v["kind"] = w["kind"]
        /\ v["encode"] = w["encode"] /\ v["update_fn"] = w["update_fn"]
    BY <1>1 DEF SameVariable
  <1>3. IsVariable(v)
    BY <1>1, <1>2 DEF IsVariable, SameVariable
  <1>4. w.is # "Static" => v["reinitialize"] = w["reinitialize"]
    BY DEF SameVariable, IsVariable
  <1>. QED
    BY <1>2, <1>3, <1>4

\* A new value makes no new variable.
LEMMA EditedSame ==
  ASSUME NEW v, IsVariable(v), NEW x
  PROVE  /\ SameVariable(v, v)
         /\ SameVariable([v EXCEPT !.value = x], v)
         /\ [v EXCEPT !.value = x].value = x
  BY DEF SameVariable, IsVariable

\* Hydration changes the value, and the query, of a variable only.
LEMMA HydrateVarSame ==
  ASSUME NEW v, IsVariable(v), NEW before, NEW inputs, NEW e,
         NEW w \in HydrateVar(v, before, inputs, e)
  PROVE  SameVariable(w, v)
  <1>1. CASE v.is = "Static"
    <2>1. w = [v EXCEPT !.value = ReplaceInString(@, before)]
      BY <1>1 DEF HydrateVar
    <2>. QED
      BY <2>1, EditedSame
  <1>2. CASE v.is = "External"
    <2>1. w = v \/ \E x : w = [v EXCEPT !.value = x]
      BY <1>2 DEF HydrateVar
    <2>. QED
      BY <2>1, EditedSame
  <1>3. CASE v.is = "Query"
    <2>1. w = v \/ \E x, y : w = [v EXCEPT !.init_fn = y, !.value = x]
      BY <1>3 DEF HydrateVar
    <2>2. ASSUME NEW x, NEW y, w = [v EXCEPT !.init_fn = y, !.value = x]
          PROVE  SameVariable(w, v)
      BY <2>2 DEF SameVariable, IsVariable
    <2>. QED
      BY <2>1, <2>2, EditedSame
  <1>. QED
    BY <1>1, <1>2, <1>3 DEF IsVariable

\* What comes of n variables, given what comes of one less.
Extended(f, n, vs, inputs, e) ==
  IF n = 0 THEN {<<>>}
  ELSE UNION {{Append(before, v) : v \in HydrateVar(vs[n], before, inputs, e)} :
                before \in f[n - 1]}

\* Hydration goes from one variable to the next.
LEMMA HydrateVarsUnfold ==
  ASSUME NEW vs, NEW inputs, NEW e, Len(vs) \in Nat
  PROVE  \E f : /\ f = [n \in 0..Len(vs) |-> Extended(f, n, vs, inputs, e)]
                /\ HydrateVars(vs, inputs, e) = f[Len(vs)]
  <1>. DEFINE Solved(m) == \E f : f = [n \in 0..m |-> Extended(f, n, vs, inputs, e)]
              bad == {m \in Nat : ~Solved(m)}
  <1>1. ASSUME NEW m \in bad, \A k \in bad : m <= k
        PROVE  FALSE
    <2>1. CASE m = 0
      <3>. DEFINE g == [n \in 0..0 |-> {<<>>}]
      <3>1. g = [n \in 0..0 |-> Extended(g, n, vs, inputs, e)]
        BY DEF Extended
      <3>. HIDE DEF g
      <3>. QED
        BY <2>1, <3>1
    <2>2. CASE m # 0
      <3>1. m \in Nat /\ m - 1 \in Nat /\ ~(m <= m - 1)
        BY <2>2
      <3>2. Solved(m - 1)
        BY <1>1, <3>1
      <3>3. PICK f : f = [n \in 0..(m - 1) |-> Extended(f, n, vs, inputs, e)]
        BY <3>2
      <3>. DEFINE g == [n \in 0..m |-> Extended(f, n, vs, inputs, e)]
      <3>4. ASSUME NEW n \in 0..m
            PROVE  Extended(f, n, vs, inputs, e) = Extended(g, n, vs, inputs, e)
        <4>1. CASE n = 0
          BY <4>1 DEF Extended
        <4>2. CASE n # 0
          <5>1. n - 1 \in 0..(m - 1) /\ n - 1 \in 0..m
            BY <3>1, <4>2
          <5>2. f[n - 1] = Extended(f, n - 1, vs, inputs, e)
            BY <3>3, <5>1
          <5>3. g[n - 1] = Extended(f, n - 1, vs, inputs, e)
            BY <5>1
          <5>. HIDE DEF g
          <5>4. f[n - 1] = g[n - 1]
            BY <5>2, <5>3
          <5>. QED
            BY <4>2, <5>4 DEF Extended
        <4>. QED
          BY <4>1, <4>2
      <3>5. g = [n \in 0..m |-> Extended(g, n, vs, inputs, e)]
        BY <3>4, Zenon
      <3>. HIDE DEF g
      <3>. QED
        BY <3>5
    <2>. QED
      BY <2>1, <2>2
  <1>2. bad = {}
    <2>1. bad \in SUBSET Nat
      OBVIOUS
    <2>. HIDE DEF bad
    <2>. QED
      BY <1>1, <2>1, LeastNatural
  <1>3. Solved(Len(vs))
    BY <1>2
  <1>. DEFINE all == CHOOSE f : f = [n \in 0..Len(vs) |-> Extended(f, n, vs, inputs, e)]
  <1>4. all = [n \in 0..Len(vs) |-> Extended(all, n, vs, inputs, e)]
    BY <1>3, Zenon
  <1>5. HydrateVars(vs, inputs, e) = all[Len(vs)]
    BY DEF HydrateVars, Extended
  <1>. HIDE DEF all
  <1>. QED
    BY <1>4, <1>5

\* The variables before one.
Before(us, i) == [k \in 1..(i - 1) |-> us[k]]

\* Hydration changes values and queries only, each given those before it.
LEMMA HydrateVarsSame ==
  ASSUME NEW vs, vs \in Seq(Range(vs)), \A v \in Range(vs) : IsVariable(v), NEW inputs, NEW e,
         NEW ws \in HydrateVars(vs, inputs, e)
  PROVE  /\ SameVariables(ws, vs)
         /\ \A i \in 1..Len(vs) : ws[i] \in HydrateVar(vs[i], Before(ws, i), inputs, e)
  <1>1. /\ Len(vs) \in Nat
        /\ \A i \in 1..Len(vs) : vs[i] \in Range(vs)
    BY SequenceParts
  <1>2. PICK f : /\ f = [n \in 0..Len(vs) |-> Extended(f, n, vs, inputs, e)]
                 /\ HydrateVars(vs, inputs, e) = f[Len(vs)]
    BY <1>1, HydrateVarsUnfold
  <1>. DEFINE Fits(us, n) == /\ us \in Seq(Range(us)) /\ Len(us) = n
                             /\ \A i \in 1..n : SameVariable(us[i], vs[i])
                             /\ \A i \in 1..n :
                                  us[i] \in HydrateVar(vs[i], Before(us, i), inputs, e)
              bad == {n \in 0..Len(vs) : ~ \A us \in f[n] : Fits(us, n)}
  <1>3. ASSUME NEW n \in bad, \A k \in bad : n <= k
        PROVE  FALSE
    <2>0. n \in 0..Len(vs) /\ f[n] = Extended(f, n, vs, inputs, e)
      BY <1>2
    <2>. SUFFICES ASSUME NEW us \in f[n] PROVE Fits(us, n)
      OBVIOUS
    <2>1. CASE n = 0
      <3>1. us = <<>>
        BY <2>0, <2>1 DEF Extended
      <3>. QED
        BY <2>1, <3>1
    <2>2. CASE n # 0
      <3>1. n - 1 \in 0..Len(vs) /\ ~(n <= n - 1) /\ n \in 1..Len(vs)
        BY <1>1, <2>0, <2>2
      <3>2. PICK before \in f[n - 1] : \E v \in HydrateVar(vs[n], before, inputs, e) :
                   us = Append(before, v)
        BY <2>0, <2>2 DEF Extended
      <3>. PICK v \in HydrateVar(vs[n], before, inputs, e) : us = Append(before, v)
        BY <3>2
      <3>3. Fits(before, n - 1)
        BY <1>3, <3>1
      <3>4. SameVariable(v, vs[n])
        BY <1>1, <3>1, HydrateVarSame
      <3>5. Len(before) = n - 1 /\ n \in Nat
        BY <3>1, <3>3
      <3>6. us = [i \in 1..n |-> IF i = n THEN v ELSE before[i]]
        <4>. DEFINE all == Range(before) \cup {v}
        <4>1. before \in Seq(all) /\ v \in all
          BY <3>3, SeqMonotonic
        <4>. HIDE DEF all
        <4>2. /\ us \in Seq(all) /\ Len(us) = n
              /\ \A i \in 1..Len(before) : us[i] = before[i]
              /\ us[n] = v
          BY <3>5, <4>1, AppendProperties
        <4>3. us \in [1..n -> all]
          BY <4>2, LenProperties
        <4>4. ASSUME NEW i \in 1..n
              PROVE  us[i] = IF i = n THEN v ELSE before[i]
          <5>1. i # n => i \in 1..Len(before)
            BY <3>5
          <5>. QED
            BY <4>2, <5>1
        <4>. QED
          BY <4>3, <4>4
      <3>7. us \in Seq(Range(us)) /\ Len(us) = n
        <4>1. us = [i \in 1..n |-> us[i]]
          BY <3>6, Zenon
        <4>. QED
          BY <3>5, <4>1, IsSequence
      <3>8. ASSUME NEW i \in 1..n PROVE SameVariable(us[i], vs[i])
        <4>1. CASE i = n
          BY <3>4, <3>6, <4>1
        <4>2. CASE i # n
          <5>1. i \in 1..(n - 1)
            BY <3>5, <4>2
          <5>. QED
            BY <3>3, <3>6, <4>2, <5>1
        <4>. QED
          BY <4>1, <4>2
      <3>9. ASSUME NEW i \in 1..n
            PROVE  us[i] \in HydrateVar(vs[i], Before(us, i), inputs, e)
        <4>1. CASE i = n
          <5>1. before = [k \in 1..(n - 1) |-> before[k]]
            BY <3>3, <3>5, SequenceParts
          <5>2. \A k \in 1..(n - 1) : us[k] = before[k]
            BY <3>5, <3>6
          <5>3. Before(us, n) = [k \in 1..(n - 1) |-> before[k]]
            BY <5>2, Zenon DEF Before
          <5>4. us[n] = v
            BY <3>1, <3>6
          <5>. QED
            BY <4>1, <5>1, <5>3, <5>4
        <4>2. CASE i # n
          <5>1. i \in 1..(n - 1)
            BY <3>5, <4>2
          <5>2. \A k \in 1..(i - 1) : us[k] = before[k]
            BY <3>5, <3>6, <5>1
          <5>3. Before(us, i) = Before(before, i)
            BY <5>2, Zenon DEF Before
          <5>4. us[i] = before[i]
            BY <3>6, <4>2
          <5>. QED
            BY <3>3, <5>1, <5>3, <5>4
        <4>. QED
          BY <4>1, <4>2
      <3>. QED
        BY <3>7, <3>8, <3>9
    <2>. QED
      BY <2>1, <2>2
  <1>4. bad = {}
    <2>1. bad \in SUBSET Nat
      BY <1>1
    <2>. HIDE DEF bad
    <2>. QED
      BY <1>3, <2>1, LeastNatural
  <1>5. Fits(ws, Len(vs))
    BY <1>1, <1>2, <1>4
  <1>. QED
    BY <1>5 DEF SameVariables

-----------------------------------------------------------------------------
(* Update functions *)

\* What a kind prints, it reads.
LEMMA ParseFormat ==
  /\ \A b \in BOOLEAN : Len(Format("Bool", b)) = 1 /\ Parse("Bool", Format("Bool", b)) = {b}
  /\ \A kind \in NumericKinds : \A n \in Numbers(kind) :
       Len(Format(kind, n)) = 1 /\ Parse(kind, Format(kind, n)) = {n}
  <1>1. ASSUME NEW b \in BOOLEAN
        PROVE  Len(Format("Bool", b)) = 1 /\ Parse("Bool", Format("Bool", b)) = {b}
    <2>1. Format("Bool", b) = <<Truth(b)>>
      BY DEF Format
    <2>2. \A d \in BOOLEAN : Truth(b) = Truth(d) => b = d
      BY DEF Truth
    <2>3. Parse("Bool", <<Truth(b)>>) = {d \in BOOLEAN : Truth(b) = Truth(d)}
      BY DEF Parse
    <2>. QED
      BY <2>1, <2>2, <2>3
  <1>2. ASSUME NEW kind \in {"Uint", "Int"}, NEW n \in Numbers(kind)
        PROVE  Len(Format(kind, n)) = 1 /\ Parse(kind, Format(kind, n)) = {n}
    <2>1. Format(kind, n) = <<Num(n)>>
      BY DEF Format
    <2>2. DOMAIN Num(n) = {"num"} /\ Num(n).num = n
      BY DEF Num
    <2>3. Parse(kind, <<Num(n)>>) = InRange(kind, {n})
      BY <2>2 DEF Parse
    <2>. QED
      BY <2>1, <2>3 DEF InRange
  <1>3. ASSUME NEW n \in Numbers("Decimal")
        PROVE  /\ Len(Format("Decimal", n)) = 1
               /\ Parse("Decimal", Format("Decimal", n)) = {n}
    <2>1. n \in Nat /\ Scale \in Nat \ {0}
      BY NumbersAssumption DEF Numbers
    <2>2. CASE n % Scale = 0
      <3>1. Format("Decimal", n) = <<Num(n \div Scale)>>
        BY <2>2 DEF Format
      <3>2. DOMAIN Num(n \div Scale) = {"num"} /\ Num(n \div Scale).num = n \div Scale
        BY DEF Num
      <3>3. (n \div Scale) * Scale = n
        BY <2>1, <2>2
      <3>4. Parse("Decimal", <<Num(n \div Scale)>>) = InRange("Decimal", {n})
        BY <3>2, <3>3 DEF Parse
      <3>. QED
        BY <3>1, <3>4 DEF InRange
    <2>3. CASE n % Scale # 0
      <3>1. Format("Decimal", n) = <<Dec(n)>>
        BY <2>3 DEF Format
      <3>2. DOMAIN Dec(n) = {"dec"} /\ Dec(n).dec = n
        BY DEF Dec
      <3>3. Parse("Decimal", <<Dec(n)>>) = InRange("Decimal", {n})
        BY <3>2 DEF Parse
      <3>. QED
        BY <3>1, <3>3 DEF InRange
    <2>. QED
      BY <2>2, <2>3
  <1>. QED
    BY <1>1, <1>2, <1>3 DEF NumericKinds

\* The kind of an update function's result.
KindOf(fn) == IF fn.of \in {"Timestamp", "BlockHeight"} THEN "Int" ELSE fn.of

\* An update changes the value only, to one of the variable's kind.
LEMMA UpdateVarSame ==
  ASSUME NEW v, IsVariable(v), NEW known, NEW s, NEW e, NEW w \in UpdateVar(v, known, s, e)
  PROVE  SameVariable(w, v) /\ (VarValid(v) => VarValid(w))
  <1>1. CASE s \notin DOMAIN v.update_fn
    BY <1>1, EditedSame DEF UpdateVar
  <1>2. CASE s \in DOMAIN v.update_fn
    <2>. DEFINE fn == v.update_fn[s]
    <2>1. PICK text \in UpdatedValue(fn, known, e) : w = [v EXCEPT !.value = text]
      BY <1>2 DEF UpdateVar
    <2>2. v.kind = KindOf(fn)
      BY <1>2 DEF UpdateVar, KindMatches, KindOf
    <2>3. fn.of \in NumericKinds \cup {"Timestamp", "BlockHeight", "Bool"}
          /\ (fn.of # "Bool" => fn.value \in Values)
      BY <1>2 DEF IsVariable
    <2>. HIDE DEF fn
    <2>4. Len(text) = 1 /\ Parse(v.kind, text) # {}
      <3>1. CASE fn.of = "Bool"
        <4>1. PICK b \in Referenced("Bool", fn.name, known) : text = Format("Bool", b)
          BY <2>1, <3>1 DEF UpdatedValue
        <4>2. b \in BOOLEAN
          BY DEF Referenced, Parse
        <4>3. v.kind = "Bool"
          BY <2>2, <3>1 DEF KindOf
        <4>. QED
          BY <4>1, <4>2, <4>3, ParseFormat
      <3>2. CASE fn.of # "Bool"
        <4>1. KindOf(fn) \in NumericKinds
          BY <2>3, <3>2 DEF KindOf, NumericKinds
        <4>2. PICK n \in NumValues(KindOf(fn), known, e)[fn.value] : text = Format(KindOf(fn), n)
          BY <2>1, <3>2 DEF UpdatedValue, KindOf
        <4>3. n \in Numbers(KindOf(fn))
          BY <2>3, <3>2, NumValuesUnfold
        <4>. QED
          BY <2>2, <4>1, <4>2, <4>3, ParseFormat
      <3>. QED
        BY <3>1, <3>2
    <2>5. SameVariable(w, v) /\ w.value = text
      BY <2>1, EditedSame
    <2>6. text # <<>>
      BY <2>4
    <2>7. /\ w.is = v.is /\ w.kind = v.kind /\ w.update_fn = v.update_fn
          /\ v.is # "Static" => w.reinitialize = v.reinitialize
      BY <2>5, SameTypes
    <2>8. VarValid(v) => VarValid(w)
      <3>. SUFFICES ASSUME VarValid(v) PROVE VarValid(w)
        OBVIOUS
      <3>1. w.is # "Static" /\ w.reinitialize => DOMAIN w.update_fn = {}
        BY <2>7 DEF VarValid
      <3>2. Parse(w.kind, w.value) # {} /\ w.value # <<>>
        BY <2>4, <2>5, <2>6, <2>7
      <3>. QED
        BY <3>1, <3>2 DEF VarValid
    <2>. QED
      BY <2>5, <2>8
  <1>. QED
    BY <1>1, <1>2

\* An update changes values only, each to what the variables as they were say.
LEMMA ApplyVarFnSame ==
  ASSUME NEW vs, vs \in Seq(Range(vs)), \A v \in Range(vs) : IsVariable(v), NEW s, NEW e,
         NEW us \in ApplyVarFn(vs, s, e)
  PROVE  /\ SameVariables(us, vs)
         /\ \A i \in 1..Len(vs) : us[i] \in UpdateVar(vs[i], Range(vs), s, e)
  <1>. DEFINE updated == [i \in DOMAIN vs |-> UpdateVar(vs[i], Range(vs), s, e)]
  <1>1. Len(vs) \in Nat /\ DOMAIN vs = 1..Len(vs) /\ \A i \in 1..Len(vs) : vs[i] \in Range(vs)
    BY SequenceParts
  <1>2. /\ \A i \in DOMAIN vs : updated[i] # {}
        /\ us = [i \in DOMAIN vs |-> CHOOSE v \in updated[i] : TRUE]
    <2>1. ApplyVarFn(vs, s, e) =
            IF \E i \in DOMAIN vs : updated[i] = {} THEN {}
            ELSE {[i \in DOMAIN vs |-> CHOOSE v \in updated[i] : TRUE]}
      BY DEF ApplyVarFn
    <2>. HIDE DEF updated
    <2>. QED
      BY <2>1
  <1>3. \A i \in 1..Len(vs) : us[i] \in updated[i]
    <2>. HIDE DEF updated
    <2>. QED
      BY <1>1, <1>2
  <1>4. \A i \in 1..Len(vs) : us[i] \in UpdateVar(vs[i], Range(vs), s, e)
    BY <1>1, <1>3
  <1>5. us = [i \in 1..Len(vs) |-> us[i]]
    <2>. DEFINE Chosen(i) == CHOOSE v \in updated[i] : TRUE
    <2>1. us = [i \in 1..Len(vs) |-> Chosen(i)]
      BY <1>1, <1>2, Zenon
    <2>. HIDE DEF updated, Chosen
    <2>. QED
      BY <2>1
  <1>6. us \in Seq(Range(us)) /\ Len(us) = Len(vs)
    BY <1>1, <1>5, IsSequence
  <1>7. \A i \in 1..Len(vs) : SameVariable(us[i], vs[i])
    BY <1>1, <1>4, UpdateVarSame
  <1>. QED
    BY <1>4, <1>6, <1>7 DEF SameVariables

\* The same variables, one by one.
LEMMA SameVariablesTypes ==
  ASSUME NEW us, NEW vs, vs \in Seq(Range(vs)), \A v \in Range(vs) : IsVariable(v),
         SameVariables(us, vs)
  PROVE  /\ us \in Seq(Range(us)) /\ DOMAIN us = DOMAIN vs /\ DOMAIN vs = 1..Len(vs)
         /\ \A v \in Range(us) : IsVariable(v)
         /\ \A i \in DOMAIN vs : /\ SameVariable(us[i], vs[i])
                                 /\ IsVariable(vs[i]) /\ IsVariable(us[i])
                                 /\ us[i].name = vs[i].name /\ us[i].kind = vs[i].kind
                                 /\ us[i].encode = vs[i].encode
  <1>1. us \in Seq(Range(us)) /\ Len(us) = Len(vs)
    BY DEF SameVariables
  <1>2. DOMAIN us = 1..Len(vs) /\ DOMAIN vs = 1..Len(vs)
    BY <1>1, SequenceParts
  <1>3. \A i \in DOMAIN vs : IsVariable(vs[i]) /\ SameVariable(us[i], vs[i])
    BY <1>2, SequenceParts DEF SameVariables
  <1>4. \A i \in DOMAIN vs : /\ IsVariable(us[i])
                             /\ us[i].name = vs[i].name /\ us[i].kind = vs[i].kind
                             /\ us[i].encode = vs[i].encode
    BY <1>3, SameTypes
  <1>5. \A v \in Range(us) : IsVariable(v)
    BY <1>2, <1>4 DEF Range
  <1>. QED
    BY <1>1, <1>2, <1>3, <1>4, <1>5

\* A job with the same variables is a job, with names as distinct.
LEMMA SameJob ==
  ASSUME NEW j, IsJob(j), ~HasDuplicates(j.vars), NEW us, SameVariables(us, j.vars)
  PROVE  /\ IsJob([j EXCEPT !.vars = us]) /\ ~HasDuplicates(us)
         /\ [j EXCEPT !.vars = us].vars = us
         /\ [j EXCEPT !.vars = us].condition = j.condition
         /\ [j EXCEPT !.vars = us].terminate_condition = j.terminate_condition
         /\ [j EXCEPT !.vars = us].msgs = j.msgs
  <1>1. j.vars \in Seq(Range(j.vars)) /\ \A v \in Range(j.vars) : IsVariable(v)
    BY DEF IsJob
  <1>2. /\ us \in Seq(Range(us)) /\ DOMAIN us = DOMAIN j.vars
        /\ \A v \in Range(us) : IsVariable(v)
        /\ \A i \in DOMAIN j.vars : us[i].name = j.vars[i].name
    BY <1>1, SameVariablesTypes
  <1>3. [j EXCEPT !.vars = us] =
          [vars |-> us, condition |-> j.condition,
           terminate_condition |-> j.terminate_condition, msgs |-> j.msgs]
    BY DEF IsJob
  <1>4. ~HasDuplicates(us)
    BY <1>2 DEF HasDuplicates
  <1>. QED
    BY <1>2, <1>3, <1>4 DEF IsJob

\* ... and as valid, where its variables are.
LEMMA SameJobValid ==
  ASSUME NEW j, IsJob(j), ValidJob(j), NEW us, SameVariables(us, j.vars), VarsValid(us)
  PROVE  ValidJob([j EXCEPT !.vars = us])
  <1>. DEFINE k == [j EXCEPT !.vars = us]
  <1>1. j.vars \in Seq(Range(j.vars)) /\ \A v \in Range(j.vars) : IsVariable(v)
    BY DEF IsJob
  <1>2. /\ DOMAIN us = DOMAIN j.vars
        /\ \A i \in DOMAIN j.vars : /\ us[i].name = j.vars[i].name /\ us[i].kind = j.vars[i].kind
                                    /\ us[i].encode = j.vars[i].encode
    BY <1>1, SameVariablesTypes
  <1>3. /\ k.vars = us /\ k.condition = j.condition /\ k.msgs = j.msgs
        /\ k.terminate_condition = j.terminate_condition /\ ~HasDuplicates(us)
    BY SameJob DEF ValidJob
  <1>. HIDE DEF k
  <1>4. \A name : Known(name, j.vars) => Known(name, us)
    BY <1>2 DEF Known
  <1>5. MsgsValid(k.msgs, k.vars)
    BY <1>2, <1>3 DEF ValidJob, MsgsValid
  <1>6. \A name \in CondRefs[k.condition]
                   \cup UNION {CondRefs[k.terminate_condition[i]] :
                                 i \in DOMAIN k.terminate_condition}
                   \cup UNION {TextRefs(k.msgs[i]) : i \in DOMAIN k.msgs} :
          Known(name, k.vars)
    BY <1>3, <1>4, Zenon DEF ValidJob
  <1>7. ValidJob(k)
    BY <1>3, <1>5, <1>6, Zenon DEF ValidJob
  <1>. QED
    BY <1>7 DEF k

\* An update leaves valid variables valid.
LEMMA ApplyVarFnValid ==
  ASSUME NEW vs, vs \in Seq(Range(vs)), \A v \in Range(vs) : IsVariable(v), NEW s, NEW e,
         NEW us \in ApplyVarFn(vs, s, e), VarsValid(vs)
  PROVE  VarsValid(us)
  <1>1. /\ SameVariables(us, vs)
        /\ \A i \in 1..Len(vs) : us[i] \in UpdateVar(vs[i], Range(vs), s, e)
    BY ApplyVarFnSame
  <1>2. DOMAIN us = DOMAIN vs /\ DOMAIN vs = 1..Len(vs) /\ \A i \in DOMAIN vs : IsVariable(vs[i])
    BY <1>1, SameVariablesTypes
  <1>3. ASSUME NEW i \in DOMAIN us PROVE VarValid(us[i])
    <2>1. us[i] \in UpdateVar(vs[i], Range(vs), s, e) /\ IsVariable(vs[i]) /\ VarValid(vs[i])
      BY <1>1, <1>2 DEF VarsValid
    <2>. QED
      BY <2>1, UpdateVarSame
  <1>. QED
    BY <1>3 DEF VarsValid

-----------------------------------------------------------------------------
(* Folds over sequences *)

\* One of the numbers up to n is the largest.
LEMMA LargestNatural ==
  ASSUME NEW n \in Nat, NEW S \in SUBSET (1..n), S # {}
  PROVE  Max(S) \in S /\ \A k \in S : k <= Max(S)
  <1>. DEFINE bounds == {m \in Nat : \A k \in S : k <= m}
  <1>1. bounds \in SUBSET Nat /\ n \in bounds
    OBVIOUS
  <1>2. PICK m \in bounds : \A l \in bounds : m <= l
    <2>. HIDE DEF bounds
    <2>. QED
      BY <1>1, LeastNatural
  <1>3. m \in S
    <2>. SUFFICES ASSUME m \notin S PROVE FALSE
      OBVIOUS
    <2>1. PICK k \in S : TRUE
      OBVIOUS
    <2>2. k \in Nat /\ k # m /\ k <= m /\ k >= 1
      BY <2>1
    <2>3. m - 1 \in Nat
      BY <2>2
    <2>4. m - 1 \in bounds
      BY <2>3
    <2>5. m <= m - 1
      BY <1>2, <2>4
    <2>. QED
      BY <2>3, <2>5
  <1>4. \E x \in S : \A y \in S : x >= y
    BY <1>3
  <1>5. Max(S) \in S /\ \A y \in S : Max(S) >= y
    BY <1>4 DEF Max
  <1>. QED
    BY <1>5

\* One step of resolve_path along a path.
WalkStep(walk, c) ==
  CASE c = Mark("$") -> walk
    [] c = Mark(".") -> [found |-> Collected(walk), curr |-> <<>>]
    [] OTHER -> [walk EXCEPT !.curr = Append(@, c)]

\* One step of what a path means.
MeantStep(found, step) ==
  IF DOMAIN step = {"field"} THEN Get(found, step.field) ELSE At(found, step.index)

\* What a fold makes of what it has so far and of one element more.
StepOf(fold, so_far, x) ==
  CASE fold = "Replace" -> ReplaceIn(so_far, x)
    [] fold = "Walk" -> WalkStep(so_far, x)
    [] fold = "Meant" -> MeantStep(so_far, x)

\* What comes of the elements at the positions of one set, given what comes of it
\* without the last of them.
Folded(fold, f, s, base, seq) ==
  IF s = {} THEN base ELSE StepOf(fold, f[s \ {Max(s)}], seq[Max(s)])

IsFold(fold, f, base, seq, n) == f = [s \in SUBSET (1..n) |-> Folded(fold, f, s, base, seq)]

LEMMA FoldExists ==
  ASSUME NEW fold, NEW base, NEW seq, NEW n \in Nat
  PROVE  \E f : IsFold(fold, f, base, seq, n)
  <1>. DEFINE Solved(m) == \E f : f = [s \in SUBSET (1..m) |-> Folded(fold, f, s, base, seq)]
              bad == {m \in Nat : ~Solved(m)}
  <1>1. ASSUME NEW m \in bad, \A k \in bad : m <= k
        PROVE  FALSE
    <2>1. CASE m = 0
      <3>. DEFINE g == [s \in {{}} |-> base]
      <3>1. SUBSET (1..0) = {{}}
        OBVIOUS
      <3>2. g = [s \in SUBSET (1..0) |-> Folded(fold, g, s, base, seq)]
        BY <3>1 DEF Folded
      <3>. HIDE DEF g
      <3>. QED
        BY <2>1, <3>2
    <2>2. CASE m # 0
      <3>1. m \in Nat /\ m - 1 \in Nat /\ ~(m <= m - 1)
        BY <2>2
      <3>2. Solved(m - 1)
        BY <1>1, <3>1
      <3>3. PICK f : f = [s \in SUBSET (1..(m - 1)) |-> Folded(fold, f, s, base, seq)]
        BY <3>2
      <3>. DEFINE g == [s \in SUBSET (1..m) |-> Folded(fold, f, s, base, seq)]
      <3>4. ASSUME NEW s \in SUBSET (1..m)
            PROVE  Folded(fold, f, s, base, seq) = Folded(fold, g, s, base, seq)
        <4>1. CASE s = {}
          BY <4>1 DEF Folded
        <4>2. CASE s # {}
          <5>. DEFINE t == s \ {Max(s)}
          <5>1. Max(s) \in s /\ \A k \in s : k <= Max(s)
            BY <3>1, <4>2, LargestNatural
          <5>. HIDE DEF t
          <5>2. t \in SUBSET (1..(m - 1)) /\ t \in SUBSET (1..m)
            <6>1. ASSUME NEW k \in t PROVE k \in 1..(m - 1) /\ k \in 1..m
              <7>1. k \in 1..m /\ k # Max(s) /\ k <= Max(s) /\ Max(s) \in 1..m
                BY <5>1 DEF t
              <7>. QED
                BY <3>1, <7>1
            <6>. QED
              BY <6>1
          <5>3. f[t] = Folded(fold, f, t, base, seq)
            BY <3>3, <5>2
          <5>4. g[t] = Folded(fold, f, t, base, seq)
            BY <5>2
          <5>. HIDE DEF g
          <5>5. f[t] = g[t]
            BY <5>3, <5>4
          <5>. QED
            BY <4>2, <5>5 DEF Folded, t
        <4>. QED
          BY <4>1, <4>2
      <3>5. g = [s \in SUBSET (1..m) |-> Folded(fold, g, s, base, seq)]
        BY <3>4, Zenon
      <3>. HIDE DEF g
      <3>. QED
        BY <3>5
    <2>. QED
      BY <2>1, <2>2
  <1>2. bad = {}
    <2>1. bad \in SUBSET Nat
      OBVIOUS
    <2>. HIDE DEF bad
    <2>. QED
      BY <1>1, <2>1, LeastNatural
  <1>. QED
    BY <1>2 DEF IsFold

\* The course of a fold: what it has after each element.
Course(fold, g, base, seq) ==
  g[0] = base /\ \A i \in 1..Len(seq) : g[i] = StepOf(fold, g[i - 1], seq[i])

LEMMA FoldCourse ==
  ASSUME NEW fold, NEW base, NEW seq, Len(seq) \in Nat,
         NEW f, IsFold(fold, f, base, seq, Len(seq))
  PROVE  \E g : Course(fold, g, base, seq) /\ g[Len(seq)] = f[1..Len(seq)]
  <1>. DEFINE n == Len(seq)
              g == [i \in 0..n |-> f[1..i]]
  <1>0. f = [s \in SUBSET (1..n) |-> Folded(fold, f, s, base, seq)]
    BY DEF IsFold
  <1>1. g[0] = base
    <2>1. g[0] = f[{}]
      OBVIOUS
    <2>2. {} \in SUBSET (1..n)
      OBVIOUS
    <2>3. f[{}] = Folded(fold, f, {}, base, seq)
      BY <1>0, <2>2
    <2>. QED
      BY <2>1, <2>3 DEF Folded
  <1>2. ASSUME NEW i \in 1..n PROVE g[i] = StepOf(fold, g[i - 1], seq[i])
    <2>. DEFINE s == 1..i
    <2>0. i \in Nat /\ i \in s /\ s \in SUBSET (1..n) /\ s # {} /\ s \in SUBSET (1..i)
      OBVIOUS
    <2>1. g[i] = f[s] /\ g[i - 1] = f[1..(i - 1)]
      OBVIOUS
    <2>2. s \ {i} = 1..(i - 1)
      OBVIOUS
    <2>3. \A k \in s : k <= i /\ k \in Nat
      OBVIOUS
    <2>. HIDE DEF s, g
    <2>4. Max(s) \in s /\ i <= Max(s)
      BY <2>0, LargestNatural
    <2>5. Max(s) = i
      <3>1. Max(s) <= i /\ Max(s) \in Nat
        BY <2>3, <2>4, Zenon
      <3>. QED
        BY <2>0, <2>4, <3>1
    <2>6. f[s] = Folded(fold, f, s, base, seq)
      BY <1>0, <2>0
    <2>. QED
      BY <2>0, <2>1, <2>2, <2>5, <2>6 DEF Folded
  <1>3. g[n] = f[1..n]
    OBVIOUS
  <1>. HIDE DEF g
  <1>. QED
    BY <1>1, <1>2, <1>3 DEF Course

Extends(q, p) ==
  /\ Len(p) \in Nat /\ Len(q) \in Nat /\ Len(p) <= Len(q)
  /\ \A i \in 1..Len(p) : q[i] = p[i]

\* The course of a fold is the same as far as the elements are.
LEMMA CoursesAgree ==
  ASSUME NEW fold, NEW base, NEW p, NEW q, Extends(q, p),
         NEW g, NEW h, Course(fold, g, base, p), Course(fold, h, base, q)
  PROVE  g[Len(p)] = h[Len(p)]
  <1>. DEFINE n == Len(p)
  <1>0. n \in Nat /\ Len(q) \in Nat /\ n <= Len(q) /\ \A i \in 1..n : p[i] = q[i]
    BY DEF Extends
  <1>. DEFINE bad == {i \in 0..n : g[i] # h[i]}
  <1>1. ASSUME NEW m \in bad, \A k \in bad : m <= k
        PROVE  FALSE
    <2>1. g[0] = h[0]
      BY DEF Course
    <2>2. m \in 1..n /\ m - 1 \in 0..n /\ ~(m <= m - 1)
      BY <1>0, <2>1
    <2>3. g[m - 1] = h[m - 1]
      BY <1>1, <2>2
    <2>4. m \in 1..Len(p) /\ m \in 1..Len(q) /\ p[m] = q[m]
      BY <1>0, <2>2
    <2>0. g[m] # h[m]
      OBVIOUS
    <2>. HIDE DEF bad
    <2>5. g[m] = StepOf(fold, g[m - 1], p[m]) /\ h[m] = StepOf(fold, h[m - 1], q[m])
      BY <2>4 DEF Course
    <2>. QED
      BY <2>0, <2>3, <2>4, <2>5
  <1>2. bad = {}
    <2>1. bad \in SUBSET Nat
      OBVIOUS
    <2>. HIDE DEF bad
    <2>. QED
      BY <1>1, <2>1, LeastNatural
  <1>. QED
    BY <1>0, <1>2

-----------------------------------------------------------------------------
(* References in texts *)

\* What comes of the first i sequences, given what comes of one less.
Concatenated(f, i, seqs) == IF i = 1 THEN seqs[i] ELSE f[i - 1] \o seqs[i]

\* Sequences are put together one by one.
LEMMA FlattenUnfold ==
  ASSUME NEW U, NEW seqs \in Seq(Seq(U)), Len(seqs) # 0
  PROVE  \E f : /\ f = [i \in 1..Len(seqs) |-> Concatenated(f, i, seqs)]
                /\ \A i \in 1..Len(seqs) : f[i] \in Seq(U)
                /\ FlattenSeq(seqs) = f[Len(seqs)]
  <1>. DEFINE S == 1..Len(seqs)
              R == Seq(U)
              depth == [i \in S |-> i]
              B == [p \in [S -> R] \X S |->
                      IF p[2] = 1 THEN seqs[1]
                      ELSE IF p[2] - 1 \in S THEN p[1][p[2] - 1] \o seqs[p[2]] ELSE <<>>]
  <1>0. Len(seqs) \in Nat /\ (\A i \in S : seqs[i] \in Seq(U)) /\ <<>> \in Seq(U)
    BY LenProperties, EmptySeq
  <1>00. \A i \in S : i # 1 => i - 1 \in S
    BY <1>0
  <1>1. B \in [[S -> R] \X S -> R]
    <2>. SUFFICES ASSUME NEW f \in [S -> R], NEW i \in S
         PROVE  (IF i = 1 THEN seqs[1]
                 ELSE IF i - 1 \in S THEN f[i - 1] \o seqs[i] ELSE <<>>) \in R
      OBVIOUS
    <2>1. CASE i = 1
      BY <1>0, <2>1
    <2>2. CASE i # 1
      <3>1. i - 1 \in S /\ f[i - 1] \in Seq(U) /\ seqs[i] \in Seq(U)
        BY <1>0, <1>00, <2>2
      <3>2. f[i - 1] \o seqs[i] \in Seq(U)
        BY <3>1, ConcatProperties
      <3>. QED
        BY <2>2, <3>1, <3>2
    <2>. QED
      BY <2>1, <2>2
  <1>2. Descends(B, S, R, depth)
    <2>. SUFFICES ASSUME NEW g \in [S -> R], NEW h \in [S -> R], NEW s \in S,
                         \A t \in S : depth[t] < depth[s] => g[t] = h[t]
                  PROVE  B[<<g, s>>] = B[<<h, s>>]
      BY Zenon DEF Descends
    <2>1. s # 1 => s - 1 \in S /\ s - 1 < s
      BY <1>0, <1>00
    <2>2. s # 1 => g[s - 1] = h[s - 1]
      BY <2>1
    <2>. QED
      BY <2>1, <2>2
  <1>3. Recursion(S, R, depth, B)
    <2>1. R # {} /\ depth \in [S -> Nat]
      BY <1>0
    <2>. HIDE DEF B, R, depth, S
    <2>. QED
      BY <1>1, <1>2, <2>1 DEF Recursion
  <1>4. PICK f \in [S -> R] : f = [s \in S |-> B[<<f, s>>]]
    <2>. HIDE DEF B, R, depth, S
    <2>. QED
      BY <1>3, RecursionExists
  <1>5. f = [i \in S |-> Concatenated(f, i, seqs)]
    <2>1. ASSUME NEW i \in S PROVE B[<<f, i>>] = Concatenated(f, i, seqs)
      <3>1. B[<<f, i>>] = IF i = 1 THEN seqs[1]
                          ELSE IF i - 1 \in S THEN f[i - 1] \o seqs[i] ELSE <<>>
        OBVIOUS
      <3>. QED
        BY <1>00, <3>1 DEF Concatenated
    <2>. HIDE DEF B, S
    <2>. QED
      BY <1>4, <2>1, Zenon
  <1>. DEFINE h == CHOOSE g : g = [i \in S |-> Concatenated(g, i, seqs)]
  <1>6. h = [i \in S |-> Concatenated(h, i, seqs)]
    <2>. HIDE DEF S
    <2>. QED
      BY <1>5, Zenon
  <1>7. FlattenSeq(seqs) = h[Len(seqs)]
    BY DEF FlattenSeq, Concatenated
  <1>. HIDE DEF h
  <1>8. ASSUME NEW i \in {i \in S : h[i] \notin Seq(U)},
               \A j \in {k \in S : h[k] \notin Seq(U)} : i <= j
        PROVE  FALSE
    <2>1. h[i] = Concatenated(h, i, seqs)
      BY <1>6
    <2>2. CASE i = 1
      BY <1>0, <2>1, <2>2 DEF Concatenated
    <2>3. CASE i # 1
      <3>1. i - 1 \in S /\ ~(i <= i - 1)
        BY <1>0, <1>00, <2>3
      <3>2. h[i - 1] \in Seq(U) /\ seqs[i] \in Seq(U)
        BY <1>0, <1>8, <3>1
      <3>3. h[i - 1] \o seqs[i] \in Seq(U)
        BY <3>2, ConcatProperties
      <3>. QED
        BY <2>1, <2>3, <3>3 DEF Concatenated
    <2>. QED
      BY <2>2, <2>3
  <1>9. {i \in S : h[i] \notin Seq(U)} = {}
    <2>1. {i \in S : h[i] \notin Seq(U)} \in SUBSET Nat
      BY <1>0
    <2>. QED
      BY <1>8, <2>1, LeastNatural
  <1>. QED
    BY <1>6, <1>7, <1>9

LEMMA FlattenParts ==
  ASSUME NEW U, NEW seqs \in Seq(Seq(U))
  PROVE  FlattenSeq(seqs) \in Seq(U)
  <1>1. CASE Len(seqs) = 0
    <2>1. seqs = <<>>
      BY <1>1, EmptySeq
    <2>. QED
      BY <1>1, <2>1 DEF FlattenSeq
  <1>2. CASE Len(seqs) # 0
    <2>1. Len(seqs) \in 1..Len(seqs)
      BY <1>2, LenProperties
    <2>. QED
      BY <1>2, <2>1, FlattenUnfold
  <1>. QED
    BY <1>1, <1>2

\* A text without references.
PlainText(text) == text \in Seq(Range(text)) /\ ~HasRef(text)

\* What is left of a longer name is not a reference.
RestPlain == \A pair \in DOMAIN Rest : DOMAIN Rest[pair] # {"ref"}

\* A variable without references in its value takes its own out of a text, and
\* brings none in.
LEMMA ReplaceInRefs ==
  ASSUME NEW text, text \in Seq(Range(text)), NEW v, PlainText(v.value), RestPlain
  PROVE  /\ ReplaceIn(text, v) \in Seq(Range(ReplaceIn(text, v)))
         /\ TextRefs(ReplaceIn(text, v)) \subseteq TextRefs(text) \ {v.name}
  <1>. DEFINE all == Range(text) \cup Range(Replacement(v)) \cup {Rest[p] : p \in DOMAIN Rest}
              U == {token \in all : DOMAIN token = {"ref"} => token \in Range(text)
                                                              /\ token.ref # v.name}
              Piece(token) ==
                IF DOMAIN token # {"ref"} THEN <<token>>
                ELSE IF token.ref = v.name THEN Replacement(v)
                ELSE IF <<v.name, token.ref>> \in DOMAIN Rest
                     THEN Append(Replacement(v), Rest[<<v.name, token.ref>>])
                ELSE <<token>>
              pieces == [i \in DOMAIN text |-> Piece(text[i])]
  <1>1. Len(text) \in Nat /\ DOMAIN text = 1..Len(text)
        /\ \A i \in 1..Len(text) : text[i] \in Range(text)
    BY SequenceParts
  <1>2. Replacement(v) \in Seq(U)
    <2>1. CASE v.encode
      <3>1. Replacement(v) = <<Encoded(v.value)>>
        BY <2>1 DEF Replacement
      <3>2. DOMAIN Encoded(v.value) # {"ref"}
        BY DEF Encoded
      <3>3. Encoded(v.value) \in U
        BY <3>1, <3>2 DEF Range
      <3>. QED
        BY <3>1, <3>3
    <2>2. CASE ~v.encode
      <3>1. Replacement(v) = v.value
        BY <2>2 DEF Replacement
      <3>2. /\ v.value \in Seq(Range(v.value)) /\ Len(v.value) \in Nat
            /\ DOMAIN v.value = 1..Len(v.value)
            /\ \A i \in DOMAIN v.value : DOMAIN v.value[i] # {"ref"}
        BY SequenceParts DEF PlainText, HasRef
      <3>3. Range(v.value) \subseteq U
        BY <3>1, <3>2 DEF Range
      <3>. QED
        BY <3>1, <3>2, <3>3, SeqMonotonic
    <2>. QED
      BY <2>1, <2>2
  <1>3. ASSUME NEW token \in Range(text) PROVE Piece(token) \in Seq(U)
    <2>1. CASE DOMAIN token # {"ref"}
      <3>1. token \in U
        BY <2>1
      <3>. QED
        BY <2>1, <3>1
    <2>2. CASE DOMAIN token = {"ref"} /\ token.ref = v.name
      BY <1>2, <2>2
    <2>3. CASE DOMAIN token = {"ref"} /\ token.ref # v.name /\ <<v.name, token.ref>> \in DOMAIN Rest
      <3>1. Rest[<<v.name, token.ref>>] \in U
        BY <2>3 DEF RestPlain
      <3>. HIDE DEF U
      <3>. QED
        BY <1>2, <2>3, <3>1, AppendProperties
    <2>4. CASE DOMAIN token = {"ref"} /\ token.ref # v.name
               /\ <<v.name, token.ref>> \notin DOMAIN Rest
      <3>1. token \in U
        BY <2>4
      <3>. HIDE DEF U
      <3>. QED
        BY <2>4, <3>1
    <2>. QED
      BY <2>1, <2>2, <2>3, <2>4
  <1>4. pieces \in Seq(Seq(U))
    <2>. HIDE DEF U, Piece
    <2>1. pieces \in [1..Len(text) -> Seq(U)]
      BY <1>1, <1>3
    <2>. QED
      BY <1>1, <2>1, SeqDef
  <1>5. ReplaceIn(text, v) = FlattenSeq(pieces)
    BY DEF ReplaceIn
  <1>6. ReplaceIn(text, v) \in Seq(U)
    <2>. HIDE DEF U, pieces
    <2>. QED
      BY <1>4, <1>5, FlattenParts
  <1>. DEFINE result == ReplaceIn(text, v)
  <1>. HIDE DEF result
  <1>7. /\ Len(result) \in Nat /\ DOMAIN result = 1..Len(result)
        /\ \A i \in DOMAIN result : result[i] \in U
    <2>. HIDE DEF U
    <2>. QED
      BY <1>6, LenProperties DEF result
  <1>8. result \in Seq(Range(result))
    <2>1. result \in [1..Len(result) -> Range(result)]
      <3>. HIDE DEF U
      <3>1. result \in [1..Len(result) -> U]
        BY <1>6, LenProperties DEF result
      <3>. QED
        BY <1>7, <3>1 DEF Range
    <2>. QED
      BY <1>7, <2>1, SeqDef
  <1>9. ASSUME NEW i \in DOMAIN result, DOMAIN result[i] = {"ref"}
        PROVE  result[i].ref \in TextRefs(text) /\ result[i].ref # v.name
    <2>1. result[i] \in Range(text) /\ result[i].ref # v.name
      BY <1>7, <1>9
    <2>2. PICK j \in DOMAIN text : text[j] = result[i]
      BY <2>1 DEF Range
    <2>. QED
      BY <1>9, <2>1, <2>2 DEF TextRefs
  <1>10. TextRefs(result) \subseteq TextRefs(text) \ {v.name}
    BY <1>9 DEF TextRefs
  <1>. QED
    BY <1>8, <1>10 DEF result

\* Variables are replaced one after the other.
LEMMA ReplaceCourse ==
  ASSUME NEW text, NEW known, Len(known) \in Nat, DOMAIN known = 1..Len(known)
  PROVE  \E g : Course("Replace", g, text, known) /\ ReplaceInString(text, known) = g[Len(known)]
  <1>. DEFINE S == DOMAIN known
              One(f, s) == IF s = {} THEN text ELSE ReplaceIn(f[s \ {Max(s)}], known[Max(s)])
              h == CHOOSE f : f = [s \in SUBSET S |-> One(f, s)]
  <1>1. ReplaceInString(text, known) = h[S]
    BY DEF ReplaceInString, FoldLeft, MapThenFoldSet
  <1>2. \A f, s : One(f, s) = Folded("Replace", f, s, text, known)
    <2>1. \A so_far, x : StepOf("Replace", so_far, x) = ReplaceIn(so_far, x)
      BY DEF StepOf
    <2>. SUFFICES ASSUME NEW f, NEW s PROVE One(f, s) = Folded("Replace", f, s, text, known)
      BY Zenon
    <2>2. CASE s = {}
      BY <2>2 DEF Folded
    <2>3. CASE s # {}
      BY <2>1, <2>3 DEF Folded
    <2>. QED
      BY <2>2, <2>3
  <1>. HIDE DEF One
  <1>3. \E f : f = [s \in SUBSET S |-> One(f, s)]
    <2>1. PICK f : IsFold("Replace", f, text, known, Len(known))
      BY FoldExists
    <2>2. f = [s \in SUBSET S |-> Folded("Replace", f, s, text, known)]
      BY <2>1, Zenon DEF IsFold
    <2>. HIDE DEF S
    <2>. QED
      BY <1>2, <2>2, Zenon
  <1>4. h = [s \in SUBSET S |-> One(h, s)]
    <2>. HIDE DEF S
    <2>. QED
      BY <1>3, Zenon
  <1>. HIDE DEF h
  <1>5. IsFold("Replace", h, text, known, Len(known))
    BY <1>2, <1>4, Zenon DEF IsFold
  <1>6. \E g : Course("Replace", g, text, known) /\ g[Len(known)] = h[1..Len(known)]
    BY <1>5, FoldCourse
  <1>. QED
    BY <1>1, <1>6

\* With a variable for each of its references, none of whose values has any, no
\* reference is left in a text.
LEMMA ReplaceInStringPlain ==
  ASSUME NEW text, text \in Seq(Range(text)), NEW known, known \in Seq(Range(known)),
         \A i \in DOMAIN known : PlainText(known[i].value),
         TextRefs(text) \subseteq {known[i].name : i \in DOMAIN known}, RestPlain
  PROVE  PlainText(ReplaceInString(text, known))
  <1>1. Len(known) \in Nat /\ DOMAIN known = 1..Len(known)
    BY SequenceParts
  <1>2. PICK g : Course("Replace", g, text, known) /\ ReplaceInString(text, known) = g[Len(known)]
    BY <1>1, ReplaceCourse
  <1>. DEFINE Good(t, m) == /\ t \in Seq(Range(t))
                            /\ TextRefs(t) \subseteq TextRefs(text) \ {known[i].name : i \in 1..m}
              bad == {m \in 0..Len(known) : ~Good(g[m], m)}
  <1>3. ASSUME NEW m \in bad, \A k \in bad : m <= k
        PROVE  FALSE
    <2>1. CASE m = 0
      <3>1. g[m] = text
        BY <1>2, <2>1 DEF Course
      <3>. QED
        BY <2>1, <3>1
    <2>2. CASE m # 0
      <3>1. m - 1 \in 0..Len(known) /\ ~(m <= m - 1) /\ m \in DOMAIN known /\ m \in Nat
        BY <1>1, <2>2
      <3>2. Good(g[m - 1], m - 1)
        BY <1>3, <3>1
      <3>3. g[m] = ReplaceIn(g[m - 1], known[m])
        BY <1>1, <1>2, <3>1 DEF Course, StepOf
      <3>. DEFINE t == g[m - 1]
      <3>6. /\ t \in Seq(Range(t))
            /\ TextRefs(t) \subseteq TextRefs(text) \ {known[i].name : i \in 1..(m - 1)}
        BY <3>2
      <3>. HIDE DEF t
      <3>7. /\ ReplaceIn(t, known[m]) \in Seq(Range(ReplaceIn(t, known[m])))
            /\ TextRefs(ReplaceIn(t, known[m])) \subseteq TextRefs(t) \ {known[m].name}
        BY <3>1, <3>6, ReplaceInRefs
      <3>8. \A i \in 1..m : i \in 1..(m - 1) \/ i = m
        BY <3>1
      <3>9. Good(ReplaceIn(t, known[m]), m)
        BY <3>6, <3>7, <3>8
      <3>. QED
        BY <3>3, <3>9 DEF t
    <2>. QED
      BY <2>1, <2>2
  <1>4. bad = {}
    <2>1. bad \in SUBSET Nat
      BY <1>1
    <2>. HIDE DEF bad
    <2>. QED
      BY <1>3, <2>1, LeastNatural
  <1>. DEFINE result == ReplaceInString(text, known)
  <1>5. Good(result, Len(known))
    <2>1. Len(known) \in 0..Len(known) /\ Len(known) \notin bad
      <3>. HIDE DEF bad
      <3>. QED
        BY <1>1, <1>4
    <2>2. Good(g[Len(known)], Len(known))
      BY <2>1
    <2>3. result = g[Len(known)]
      BY <1>2
    <2>. HIDE DEF result
    <2>. QED
      BY <2>2, <2>3, Zenon
  <1>6. TextRefs(result) = {}
    BY <1>1, <1>5
  <1>7. ~HasRef(result)
    BY <1>6 DEF HasRef, TextRefs
  <1>. QED
    BY <1>5, <1>7 DEF PlainText

-----------------------------------------------------------------------------
(* The series *)

\* The job keeps the form and the distinct names create_job has checked,
\* whatever executions have made of it, and is valid as long as it is pending.
JobInv ==
  /\ IsJob(job) /\ ~HasDuplicates(job.vars)
  /\ status \in {"Pending", "Executed", "Failed", "Ended"}
  /\ outcomes \in Seq({"Executed", "Failed"})
  /\ status = "Pending" => ValidJob(job)

\* An execution that ends with the job as it was, or with a next one of updated
\* variables that does not terminate.
LEMMA ReplyCases ==
  ASSUME NEW outcome \in {"Executed", "Failed"}, JobReply(outcome), JobInv, status = "Pending"
  PROVE  /\ outcomes' = Append(outcomes, outcome)
         /\ \/ status' = outcome /\ job' = job
            \/ /\ status' = status
               /\ \E us \in ApplyVarFn(job.vars, outcome, env) :
                    job' = [job EXCEPT !.vars = us] /\ ~Terminates(job.vars, us, env)
  BY DEF JobReply

\* create_job checks the first job.
LEMMA JobInvInit ==
  ASSUME Init
  PROVE  JobInv
  <1>1. job \in Submitted /\ ValidJob(job) /\ status = "Pending" /\ outcomes = <<>>
    BY DEF Init
  <1>2. IsJob(job)
    BY <1>1, JobsAssumption
  <1>3. ~HasDuplicates(job.vars)
    BY <1>1 DEF ValidJob
  <1>. QED
    BY <1>1, <1>2, <1>3 DEF JobInv

\* One case for each handler; in execute_job one for each ending.
LEMMA JobInvNext ==
  ASSUME JobInv, [Next]_vars
  PROVE  JobInv'
  <1>1. job.vars \in Seq(Range(job.vars)) /\ \A v \in Range(job.vars) : IsVariable(v)
    BY DEF JobInv, IsJob
  <1>2. ASSUME NEW inputs \in Inputs, ExecuteJob(inputs)
        PROVE  JobInv'
    <2>0. status = "Pending" /\ ValidJob(job)
      BY <1>2 DEF ExecuteJob, JobInv
    <2>1. PICK hydrated \in HydrateVars(job.vars, inputs, env) :
            \/ /\ status' = "Failed"
               /\ job' = [job EXCEPT !.vars = hydrated]
               /\ UNCHANGED outcomes
            \/ \E outcome \in {"Executed", "Failed"} : JobReply(outcome)
      BY <1>2 DEF ExecuteJob
    <2>2. CASE /\ status' = "Failed"
               /\ job' = [job EXCEPT !.vars = hydrated]
               /\ UNCHANGED outcomes
      <3>1. SameVariables(hydrated, job.vars)
        BY <1>1, HydrateVarsSame
      <3>2. IsJob(job') /\ ~HasDuplicates(job'.vars)
        BY <2>2, <3>1, SameJob DEF JobInv
      <3>. QED
        BY <2>2, <3>2 DEF JobInv
    <2>3. ASSUME NEW outcome \in {"Executed", "Failed"}, JobReply(outcome)
          PROVE  JobInv'
      <3>1. outcomes' = Append(outcomes, outcome)
        BY <2>0, <2>3, ReplyCases
      <3>2. outcomes' \in Seq({"Executed", "Failed"})
        BY <3>1 DEF JobInv
      <3>3. CASE status' = outcome /\ job' = job
        BY <3>2, <3>3 DEF JobInv
      <3>4. ASSUME status' = status,
                   NEW us \in ApplyVarFn(job.vars, outcome, env),
                   job' = [job EXCEPT !.vars = us]
            PROVE  JobInv'
        <4>1. SameVariables(us, job.vars)
          BY <1>1, ApplyVarFnSame
        <4>2. VarsValid(us)
          BY <1>1, <2>0, ApplyVarFnValid DEF ValidJob
        <4>3. IsJob(job') /\ ~HasDuplicates(job'.vars)
          BY <3>4, <4>1, SameJob DEF JobInv
        <4>4. ValidJob(job')
          BY <2>0, <3>4, <4>1, <4>2, SameJobValid DEF JobInv
        <4>. QED
          BY <3>2, <3>4, <4>3, <4>4 DEF JobInv
      <3>. QED
        BY <2>0, <2>3, <3>3, <3>4, ReplyCases
    <2>. QED
      BY <2>1, <2>2, <2>3
  <1>3. CASE EndJob
    BY <1>3 DEF JobInv, EndJob
  <1>4. CASE NextBlock
    BY <1>4 DEF JobInv, NextBlock
  <1>5. CASE UNCHANGED vars
    BY <1>5 DEF JobInv, vars
  <1>. QED
    BY <1>2, <1>3, <1>4, <1>5 DEF Next

\* Whatever is handed in and answered, reply and execute_job leave a job that
\* create_job would accept, as long as it is pending.
THEOREM SeriesInvariant == Spec => []JobInv
  BY JobInvInit, JobInvNext, PTL DEF Spec

\* reply need not validate the updated variables again: update functions print
\* what the kind of their variable parses.
THEOREM UpdatesKeepVarsValid == Spec => []StoredVarsValid
  <1>1. JobInv => StoredVarsValid
    <2>. SUFFICES ASSUME JobInv PROVE StoredVarsValid
      OBVIOUS
    <2>1. Range(outcomes) \subseteq {"Executed", "Failed"}
      BY DEF JobInv, Range
    <2>. QED
      BY <2>1 DEF JobInv, StoredVarsValid
  <1>. QED
    BY <1>1, SeriesInvariant, PTL

\* Without duplicates names are distinct.
LEMMA DistinctNames ==
  ASSUME NEW vs, vs \in Seq(Range(vs)), ~HasDuplicates(vs)
  PROVE  Distinct(Range(vs))
  BY DEF HasDuplicates, Distinct, Range

\* resolve_cond, which stops at the first condition that decides, comes to the
\* only truth value its condition can have; where it fails an expression does.
THEOREM ConditionsNeverMisled == Spec => []ConditionsSound
  <1>1. JobInv => ConditionsSound
    <2>. SUFFICES ASSUME JobInv, NEW c \in Probes
         PROVE  LET known == Range(job.vars)
                    r == ResolveCond(c, known, env)
                IN IF r = {} THEN \E e \in Expressions[c] : ResolveExpr(e, known, env) = {}
                   ELSE PossibleTruths(known, env)[c] = r
      BY DEF ConditionsSound
    <2>1. c \in Conditions
      BY JobsAssumption
    <2>2. Distinct(Range(job.vars))
      BY DistinctNames DEF JobInv, IsJob
    <2>3. Decided(c, Range(job.vars), env)
      BY <2>1, <2>2, AllDecided
    <2>. QED
      BY <2>3 DEF Decided
  <1>. QED
    BY <1>1, SeriesInvariant, PTL

\* The variables in reverse.
LEMMA Turned ==
  ASSUME NEW vs, vs \in Seq(Range(vs))
  PROVE  /\ Reverse(vs) \in Seq(Range(vs)) /\ Len(Reverse(vs)) = Len(vs)
         /\ Range(Reverse(vs)) = Range(vs)
         /\ Reverse(Reverse(vs)) = vs
  <1>1. Len(vs) \in Nat /\ DOMAIN vs = 1..Len(vs) /\ \A i \in 1..Len(vs) : vs[i] \in Range(vs)
    BY SequenceParts
  <1>2. \A i \in 1..Len(vs) : (Len(vs) - i) + 1 \in 1..Len(vs)
    BY <1>1
  <1>3. Reverse(vs) = [i \in 1..Len(vs) |-> vs[(Len(vs) - i) + 1]]
    BY DEF Reverse
  <1>4. Reverse(vs) \in [1..Len(vs) -> Range(vs)]
    BY <1>1, <1>2, <1>3
  <1>5. Reverse(vs) \in Seq(Range(vs)) /\ Len(Reverse(vs)) = Len(vs)
    BY <1>1, <1>4, SeqDef
  <1>6. Range(Reverse(vs)) = Range(vs)
    <2>1. \A i \in 1..Len(vs) : vs[i] = Reverse(vs)[(Len(vs) - i) + 1]
      BY <1>1, <1>2, <1>3
    <2>. QED
      BY <1>1, <1>2, <1>4, <2>1 DEF Range
  <1>7. Reverse(Reverse(vs)) = [i \in 1..Len(vs) |-> Reverse(vs)[(Len(vs) - i) + 1]]
    BY <1>5 DEF Reverse
  <1>8. \A i \in 1..Len(vs) : Reverse(vs)[(Len(vs) - i) + 1] = vs[i]
    BY <1>1, <1>2, <1>3
  <1>9. vs = [i \in 1..Len(vs) |-> vs[i]]
    BY <1>1
  <1>10. Reverse(Reverse(vs)) = vs
    BY <1>7, <1>8, <1>9, Zenon
  <1>. QED
    BY <1>5, <1>6, <1>10

\* In reverse the update functions come to the reverse.
LEMMA ReverseUpdate ==
  ASSUME NEW vs, vs \in Seq(Range(vs)), NEW s, NEW e
  PROVE  {Reverse(v) : v \in ApplyVarFn(Reverse(vs), s, e)} = ApplyVarFn(vs, s, e)
  <1>. DEFINE K == Range(vs)
              turned == Reverse(vs)
              Results(v) == UpdateVar(v, K, s, e)
              Chosen(v) == CHOOSE w \in Results(v) : TRUE
  <1>1. Len(vs) \in Nat /\ DOMAIN vs = 1..Len(vs)
    BY SequenceParts
  <1>2. /\ DOMAIN turned = 1..Len(vs) /\ Range(turned) = K
        /\ Len(turned) = Len(vs)
        /\ turned = [i \in 1..Len(vs) |-> vs[(Len(vs) - i) + 1]]
    BY Turned DEF Reverse
  <1>3. ASSUME NEW us, DOMAIN us = 1..Len(vs), Range(us) = K
        PROVE  ApplyVarFn(us, s, e) =
                 IF \E i \in 1..Len(vs) : Results(us[i]) = {} THEN {}
                 ELSE {[i \in 1..Len(vs) |-> Chosen(us[i])]}
    <2>. DEFINE updated == [i \in DOMAIN us |-> UpdateVar(us[i], Range(us), s, e)]
    <2>1. ApplyVarFn(us, s, e) =
            IF \E i \in DOMAIN us : updated[i] = {} THEN {}
            ELSE {[i \in DOMAIN us |-> CHOOSE v \in updated[i] : TRUE]}
      BY DEF ApplyVarFn
    <2>2. \A i \in 1..Len(vs) : updated[i] = Results(us[i])
      BY <1>3
    <2>. HIDE DEF updated, Results
    <2>3. \A i \in 1..Len(vs) : (CHOOSE v \in updated[i] : TRUE) = Chosen(us[i])
      BY <2>2
    <2>. HIDE DEF Chosen
    <2>4. [i \in DOMAIN us |-> CHOOSE v \in updated[i] : TRUE]
            = [i \in 1..Len(vs) |-> Chosen(us[i])]
      BY <1>3, <2>3, Zenon
    <2>. QED
      BY <1>3, <2>1, <2>2, <2>4
  <1>4. \A i \in 1..Len(vs) : /\ (Len(vs) - i) + 1 \in 1..Len(vs)
                              /\ (Len(vs) - ((Len(vs) - i) + 1)) + 1 = i
    BY <1>1
  <1>. HIDE DEF K, turned, Results, Chosen
  <1>5. ApplyVarFn(vs, s, e) = IF \E i \in 1..Len(vs) : Results(vs[i]) = {} THEN {}
                               ELSE {[i \in 1..Len(vs) |-> Chosen(vs[i])]}
    BY <1>1, <1>3 DEF K
  <1>6. ApplyVarFn(turned, s, e) = IF \E i \in 1..Len(vs) : Results(turned[i]) = {} THEN {}
                                   ELSE {[i \in 1..Len(vs) |-> Chosen(turned[i])]}
    BY <1>2, <1>3
  <1>7. /\ \A i \in 1..Len(vs) : turned[i] = vs[(Len(vs) - i) + 1]
        /\ \A i \in 1..Len(vs) : turned[(Len(vs) - i) + 1] = vs[i]
    BY <1>2, <1>4
  <1>8. (\E i \in 1..Len(vs) : Results(turned[i]) = {})
          <=> (\E i \in 1..Len(vs) : Results(vs[i]) = {})
    BY <1>4, <1>7
  <1>9. Reverse([i \in 1..Len(vs) |-> Chosen(turned[i])]) = [i \in 1..Len(vs) |-> Chosen(vs[i])]
    <2>. DEFINE g == [i \in 1..Len(vs) |-> Chosen(turned[i])]
    <2>1. DOMAIN g = 1..Len(vs) /\ g = [i \in 1..Len(vs) |-> g[i]]
      OBVIOUS
    <2>2. Len(g) = Len(vs)
      <3>. HIDE DEF g
      <3>. QED
        BY <1>1, <2>1, IsSequence
    <2>3. Reverse(g) = [i \in 1..Len(vs) |-> g[(Len(vs) - i) + 1]]
      BY <2>2 DEF Reverse
    <2>4. \A i \in 1..Len(vs) : g[(Len(vs) - i) + 1] = Chosen(vs[i])
      BY <1>4, <1>7
    <2>. HIDE DEF g
    <2>5. Reverse(g) = [i \in 1..Len(vs) |-> Chosen(vs[i])]
      BY <2>3, <2>4, Zenon
    <2>. QED
      BY <2>5 DEF g
  <1>10. {Reverse(v) : v \in ApplyVarFn(turned, s, e)} = ApplyVarFn(vs, s, e)
    <2>1. CASE \E i \in 1..Len(vs) : Results(vs[i]) = {}
      BY <1>5, <1>6, <1>8, <2>1
    <2>2. CASE ~ \E i \in 1..Len(vs) : Results(vs[i]) = {}
      <3>. DEFINE g == [i \in 1..Len(vs) |-> Chosen(turned[i])]
                  h == [i \in 1..Len(vs) |-> Chosen(vs[i])]
      <3>1. ApplyVarFn(turned, s, e) = {g} /\ ApplyVarFn(vs, s, e) = {h} /\ Reverse(g) = h
        BY <1>5, <1>6, <1>8, <1>9, <2>2
      <3>. HIDE DEF g, h
      <3>. QED
        BY <3>1
    <2>. QED
      BY <2>1, <2>2
  <1>. QED
    BY <1>10 DEF turned

\* apply_var_fn comes to the same in any order of the variables that is tried,
\* the reverse.
THEOREM UpdatesInAnyOrder == Spec => []UpdatesIndependent
  <1>1. JobInv => UpdatesIndependent
    <2>. SUFFICES ASSUME JobInv, NEW outcome \in {"Executed", "Failed"}
         PROVE  {Reverse(v) : v \in ApplyVarFn(Reverse(job.vars), outcome, env)}
                  = ApplyVarFn(job.vars, outcome, env)
      BY DEF UpdatesIndependent
    <2>1. job.vars \in Seq(Range(job.vars))
      BY DEF JobInv, IsJob
    <2>. QED
      BY <2>1, ReverseUpdate
  <1>. QED
    BY <1>1, SeriesInvariant, PTL

-----------------------------------------------------------------------------
(* Counting executions *)

\* Jobs are submitted with their counters at 0.
CountersFromZero ==
  \A j \in Submitted : \A v \in Range(j.vars) : Counts(v) => v.value = <<Num(0)>>

\* A reference to a variable that is a number is read as that number.
LEMMA ReferencedNumber ==
  ASSUME NEW known, Distinct(known), NEW v \in known, v.is = "Static", NEW k \in Int,
         v.value = <<Num(k)>>
  PROVE  Referenced("Int", v.name, known) = InRange("Int", {k})
  <1>1. ValueOf(v.name, known) = {<<Num(k)>>}
    BY DEF ValueOf, Distinct, HasValue
  <1>2. Parse("Int", <<Num(k)>>) = InRange("Int", {k})
    <2>1. DOMAIN Num(k) = {"num"} /\ Num(k).num = k
      BY DEF Num
    <2>. QED
      BY <2>1 DEF Parse
  <1>. QED
    BY <1>1, <1>2 DEF Referenced

\* What a reference to a number comes to, and a number.
LEMMA NumberOfReference ==
  ASSUME NEW known, Distinct(known), NEW v \in known, v.is = "Static", NEW k \in Int,
         v.value = <<Num(k)>>, NEW e,
         NEW r \in Values, r = [is |-> "Ref", name |-> v.name]
  PROVE  NumValues("Int", known, e)[r] = InRange("Int", {k})
  <1>1. r.is = "Ref" /\ r.name = v.name
    OBVIOUS
  <1>2. NumValue("Int", r, NumValues("Int", known, e), known, e) = Referenced("Int", v.name, known)
    BY <1>1 DEF NumValue
  <1>3. NumValues("Int", known, e)[r] = InRange("Int", InRange("Int", {k}))
    BY <1>2, NumValuesUnfold, ReferencedNumber
  <1>. QED
    BY <1>3 DEF InRange

\* A number is itself, where its kind has it.
LEMMA NumberOfSimple ==
  ASSUME NEW known, NEW e, NEW k, NEW r \in Values, r = [is |-> "Simple", value |-> k]
  PROVE  NumValues("Int", known, e)[r] = InRange("Int", {k})
  <1>1. r.is = "Simple" /\ r.value = k
    OBVIOUS
  <1>2. NumValue("Int", r, NumValues("Int", known, e), known, e) = {k}
    BY <1>1 DEF NumValue
  <1>. QED
    BY <1>2, NumValuesUnfold

\* An update of a counter adds one.
LEMMA CounterUpdated ==
  ASSUME NEW known, Distinct(known), NEW v \in known, IsVariable(v), Counts(v),
         NEW k \in Nat, v.value = <<Num(k)>>,
         NEW s \in {"Executed", "Failed"}, NEW e, NEW w \in UpdateVar(v, known, s, e)
  PROVE  w.value = <<Num(k + 1)>>
  <1>. DEFINE fn == Plus1(v.name)
              sum == fn.value
  <1>1. v.is = "Static" /\ s \in DOMAIN v.update_fn /\ v.update_fn[s] = fn
    BY DEF Counts
  <1>2. fn.of = "Int" /\ sum \in Values
    <2>1. fn.of = "Int"
      BY DEF Plus1
    <2>2. fn.of # "Bool" => fn.value \in Values
      BY <1>1 DEF IsVariable
    <2>. QED
      BY <2>1, <2>2
  <1>3. /\ sum.is = "Expr" /\ sum.op = "Add"
        /\ sum.left = [is |-> "Ref", name |-> v.name]
        /\ sum.right = [is |-> "Simple", value |-> 1]
    BY DEF Plus1
  <1>4. sum.left \in Values /\ sum.right \in Values
    BY <1>2, <1>3, ValuesAssumption
  <1>. HIDE DEF sum, fn
  <1>5. PICK text \in UpdatedValue(fn, known, e) : w = [v EXCEPT !.value = text]
    BY <1>1 DEF UpdateVar
  <1>6. PICK n \in NumValues("Int", known, e)[sum] : text = Format("Int", n)
    <2>1. UpdatedValue(fn, known, e)
            = {Format("Int", n) : n \in NumValues("Int", known, e)[fn.value]}
      BY <1>2, Zenon DEF UpdatedValue
    <2>. QED
      BY <1>5, <2>1 DEF sum
  <1>7. NumValues("Int", known, e)[sum] \subseteq {k + 1}
    <2>. DEFINE value == NumValues("Int", known, e)
    <2>1. value[sum.left] \subseteq {k}
      BY <1>1, <1>3, <1>4, NumberOfReference DEF InRange
    <2>2. value[sum.right] \subseteq {1}
      BY <1>3, <1>4, NumberOfSimple DEF InRange
    <2>3. value[sum] = InRange("Int", NumValue("Int", sum, value, known, e))
      BY <1>2, NumValuesUnfold
    <2>. HIDE DEF value
    <2>4. NumValue("Int", sum, value, known, e)
            = UNION {Apply("Int", "Add", l, r) : l \in value[sum.left], r \in value[sum.right]}
      BY <1>3 DEF NumValue
    <2>5. \A l, r : Apply("Int", "Add", l, r) = {l + r}
      BY DEF Apply
    <2>6. value[sum] \subseteq {k + 1}
      BY <2>1, <2>2, <2>3, <2>4, <2>5 DEF InRange
    <2>. QED
      BY <2>6 DEF value
  <1>8. text = <<Num(k + 1)>>
    BY <1>6, <1>7 DEF Format
  <1>. QED
    BY <1>5, <1>8, EditedSame

\* A terminate condition on a counter is not false once it has been reached.
LEMMA CounterReached ==
  ASSUME NEW known, Distinct(known), NEW v \in known, v.is = "Static",
         NEW k \in Nat, v.value = <<Num(k)>>, NEW n \in 1..IntMax, n <= k, NEW e,
         AtLeast(v.name, n) \in Conditions
  PROVE  ResolveCond(AtLeast(v.name, n), known, e) # {FALSE}
  <1>. DEFINE c == AtLeast(v.name, n)
              x == c.expr
              value == NumValues("Int", known, e)
  <1>1. /\ c.is = "Expr" /\ x.of = "Int" /\ x.op = "Gte"
        /\ x.left = [is |-> "Ref", name |-> v.name]
        /\ x.right = [is |-> "Simple", value |-> n]
    BY DEF AtLeast
  <1>2. x.left \in Values /\ x.right \in Values
    BY <1>1, ConditionsAssumption DEF NumericKinds
  <1>3. ResolveCond(c, known, e) = ResolveExpr(x, known, e)
    <2>1. ResolveCond(c, known, e) = Holds(c, Truths(known, e), known, e)
      BY TruthsUnfold
    <2>. HIDE DEF c
    <2>. QED
      BY <1>1, <2>1 DEF Holds
  <1>4. value[x.left] \subseteq {k}
    BY <1>1, <1>2, NumberOfReference DEF InRange
  <1>5. value[x.right] \subseteq {n}
    BY <1>1, <1>2, NumberOfSimple DEF InRange
  <1>. HIDE DEF value, x, c
  <1>6. ResolveExpr(x, known, e)
          = {Compare("Gte", l, r) : l \in value[x.left], r \in value[x.right]}
    BY <1>1 DEF ResolveExpr, NumericKinds, value
  <1>7. Compare("Gte", k, n) = TRUE
    BY DEF Compare
  <1>8. \A l \in value[x.left] : \A r \in value[x.right] : l = k /\ r = n
    BY <1>4, <1>5
  <1>9. \A b \in ResolveExpr(x, known, e) : b = TRUE
    <2>. TAKE b \in ResolveExpr(x, known, e)
    <2>1. \E l \in value[x.left] : \E r \in value[x.right] : b = Compare("Gte", l, r)
      BY <1>6
    <2>2. PICK l \in value[x.left] : \E r \in value[x.right] : b = Compare("Gte", l, r)
      BY <2>1, Zenon
    <2>3. PICK r \in value[x.right] : b = Compare("Gte", l, r)
      BY <2>2, Zenon
    <2>4. l = k /\ r = n
      BY <1>8
    <2>5. b = Compare("Gte", k, n)
      BY <2>3, <2>4, Zenon
    <2>. QED
      BY <1>7, <2>5, Zenon
  <1>10. FALSE \notin ResolveExpr(x, known, e)
    BY <1>9, Zenon
  <1>11. ResolveExpr(x, known, e) # {FALSE}
    BY <1>10, Zenon
  <1>. QED
    BY <1>3, <1>11 DEF c

\* What holds of the counters of one job of the series holds of the next.
LEMMA CountersGoOn ==
  ASSUME JobInv, status = "Pending", SeriesStopsInTime,
         NEW outcome \in {"Executed", "Failed"},
         NEW us \in ApplyVarFn(job.vars, outcome, env),
         NEW u \in Range(us), Counts(u)
  PROVE  u.value = <<Num(Len(outcomes) + 1)>>
  <1>1. job.vars \in Seq(Range(job.vars)) /\ \A v \in Range(job.vars) : IsVariable(v)
    BY DEF JobInv, IsJob
  <1>2. /\ SameVariables(us, job.vars)
        /\ \A i \in 1..Len(job.vars) :
             us[i] \in UpdateVar(job.vars[i], Range(job.vars), outcome, env)
    BY <1>1, ApplyVarFnSame
  <1>3. /\ DOMAIN us = 1..Len(job.vars)
        /\ \A i \in 1..Len(job.vars) : SameVariable(us[i], job.vars[i])
    BY <1>1, <1>2, SameVariablesTypes
  <1>4. PICK i \in 1..Len(job.vars) : u = us[i]
    BY <1>3 DEF Range
  <1>. DEFINE v == job.vars[i]
  <1>5. v \in Range(job.vars)
    BY <1>1, SequenceParts
  <1>. HIDE DEF v
  <1>6. IsVariable(v) /\ u \in UpdateVar(v, Range(job.vars), outcome, env) /\ SameVariable(u, v)
    BY <1>1, <1>2, <1>3, <1>4, <1>5 DEF v
  <1>7. u.is = v.is /\ u.name = v.name /\ u.update_fn = v.update_fn
    BY <1>6, SameTypes
  <1>8. Counts(v)
    BY <1>7 DEF Counts
  <1>9. v.value = <<Num(Len(outcomes))>> /\ Len(outcomes) \in Nat
    BY <1>5, <1>8 DEF SeriesStopsInTime, JobInv
  <1>10. Distinct(Range(job.vars))
    BY <1>1, DistinctNames DEF JobInv
  <1>. QED
    BY <1>5, <1>6, <1>8, <1>9, <1>10, CounterUpdated

\* Nothing has been executed, and counters are at 0.
LEMMA CountersInit ==
  ASSUME Init, CountersFromZero
  PROVE  SeriesStopsInTime
  <1>1. job \in Submitted /\ Len(outcomes) = 0
    BY DEF Init
  <1>2. \A v \in Range(job.vars) : Counts(v) => v.value = <<Num(0)>>
    BY <1>1 DEF CountersFromZero
  <1>3. \A n \in 1..IntMax : Len(outcomes) < n
    BY <1>1
  <1>. QED
    BY <1>1, <1>2, <1>3 DEF SeriesStopsInTime

\* Only a reply that does not terminate the series leaves a pending job behind.
LEMMA CountersNext ==
  ASSUME JobInv, JobInv', SeriesStopsInTime, [Next]_vars
  PROVE  SeriesStopsInTime'
  <1>. SUFFICES ASSUME status' = "Pending" PROVE SeriesStopsInTime'
    BY DEF SeriesStopsInTime
  <1>1. ASSUME NEW inputs \in Inputs, ExecuteJob(inputs)
        PROVE  SeriesStopsInTime'
    <2>0. status = "Pending"
      BY <1>1 DEF ExecuteJob
    <2>1. PICK outcome \in {"Executed", "Failed"} : JobReply(outcome)
      BY <1>1 DEF ExecuteJob
    <2>2. outcomes' = Append(outcomes, outcome)
      BY <2>0, <2>1, ReplyCases
    <2>3. PICK us \in ApplyVarFn(job.vars, outcome, env) :
            job' = [job EXCEPT !.vars = us] /\ ~Terminates(job.vars, us, env)
      BY <2>0, <2>1, ReplyCases
    <2>4. Len(outcomes') = Len(outcomes) + 1 /\ Len(outcomes) \in Nat
      BY <2>2 DEF JobInv
    <2>5. job'.vars = us /\ job'.terminate_condition = job.terminate_condition
      BY <2>3 DEF JobInv, IsJob
    <2>6. Distinct(Range(us))
      BY <2>5, DistinctNames DEF JobInv, IsJob
    <2>7. ASSUME NEW v \in Range(us), Counts(v)
          PROVE  /\ v.value = <<Num(Len(outcomes) + 1)>>
                 /\ \A n \in 1..IntMax :
                      job.terminate_condition = <<AtLeast(v.name, n)>> => Len(outcomes) + 1 < n
      <3>1. v.value = <<Num(Len(outcomes) + 1)>>
        BY <2>0, <2>7, CountersGoOn
      <3>2. ASSUME NEW n \in 1..IntMax, job.terminate_condition = <<AtLeast(v.name, n)>>,
                   n <= Len(outcomes) + 1
            PROVE  FALSE
        <4>. DEFINE c == AtLeast(v.name, n)
        <4>1. job.terminate_condition \in Seq(Conditions)
          BY DEF JobInv, IsJob
        <4>. HIDE DEF c
        <4>2. c \in Conditions /\ 1 \in DOMAIN job.terminate_condition
              /\ job.terminate_condition[1] = c
          BY <3>2, <4>1 DEF c
        <4>3. ResolveCond(c, Range(us), env) = {FALSE}
          BY <2>3, <4>2 DEF Terminates
        <4>4. v.is = "Static" /\ Len(outcomes) + 1 \in Nat
          BY <2>4, <2>7 DEF Counts
        <4>5. ResolveCond(c, Range(us), env) # {FALSE}
          BY <2>6, <3>1, <3>2, <4>2, <4>4, CounterReached DEF c
        <4>. QED
          BY <4>3, <4>5
      <3>3. \A n \in 1..IntMax : n <= Len(outcomes) + 1 \/ Len(outcomes) + 1 < n
        BY <2>4
      <3>. QED
        BY <3>1, <3>2, <3>3
    <2>. QED
      BY <2>4, <2>5, <2>7 DEF SeriesStopsInTime
  <1>2. CASE EndJob
    BY <1>2 DEF EndJob
  <1>3. CASE NextBlock
    BY <1>3 DEF NextBlock, SeriesStopsInTime
  <1>4. CASE UNCHANGED vars
    BY <1>4 DEF vars, SeriesStopsInTime
  <1>. QED
    BY <1>1, <1>2, <1>3, <1>4 DEF Next

\* A counter of the series counts the executions that came to a reply, and the
\* series stops when its terminate condition on the counter says so, if counters
\* are submitted at 0.
THEOREM SeriesStops == CountersFromZero /\ Spec => []SeriesStopsInTime
  <1>1. CountersFromZero /\ Init => SeriesStopsInTime
    BY CountersInit
  <1>2. JobInv /\ JobInv' /\ SeriesStopsInTime /\ [Next]_vars => SeriesStopsInTime'
    BY CountersNext
  <1>. QED
    BY <1>1, <1>2, SeriesInvariant, PTL DEF Spec

-----------------------------------------------------------------------------
(* References to variables *)

\* No reference comes with a variable but in the text of a static one: neither
\* in its first value nor in what answers have at its selector.
Sourced(v) ==
  /\ v.value \in Seq(Range(v.value))
  /\ v.is # "Static" => ~HasRef(v.value)
  /\ v.is = "Query" =>
       \A answers \in Answers : \A q \in DOMAIN answers :
         \A r \in ResolvePath(answers[q], v.init_fn.selector) :
           r.json = "string" => PlainText(r.text)

\* References are written by the owner of a job, in its static variables;
\* nobody hands them in.
PlainFromOutside ==
  /\ RestPlain
  /\ \A inputs \in Inputs : inputs # None =>
       \A name \in DOMAIN inputs[1] : PlainText(inputs[1][name])
  /\ \A j \in Submitted : \A v \in Range(j.vars) : Sourced(v)

\* What is printed is not a reference.
LEMMA FormatPlain ==
  ASSUME NEW kind, NEW n
  PROVE  PlainText(Format(kind, n))
  <1>1. \/ Format(kind, n) = <<Truth(n)>> \/ Format(kind, n) = <<Dec(n)>>
        \/ \E m : Format(kind, n) = <<Num(m)>>
    <2>1. CASE kind = "Bool"
      BY <2>1 DEF Format
    <2>2. CASE kind = "Decimal"
      BY <2>2 DEF Format
    <2>3. CASE kind \notin {"Bool", "Decimal"}
      BY <2>3 DEF Format
    <2>. QED
      BY <2>1, <2>2, <2>3
  <1>2. ASSUME NEW token, DOMAIN token # {"ref"} PROVE PlainText(<<token>>)
    BY <1>2 DEF PlainText, HasRef, Range
  <1>3. \A m : DOMAIN Truth(m) # {"ref"} /\ DOMAIN Dec(m) # {"ref"} /\ DOMAIN Num(m) # {"ref"}
    BY DEF Truth, Dec, Num
  <1>. QED
    BY <1>1, <1>2, <1>3

\* An update prints its result.
LEMMA UpdateVarSourced ==
  ASSUME NEW v, IsVariable(v), Sourced(v), NEW known, NEW s, NEW e,
         NEW w \in UpdateVar(v, known, s, e)
  PROVE  Sourced(w)
  <1>1. CASE s \notin DOMAIN v.update_fn
    BY <1>1 DEF UpdateVar
  <1>2. CASE s \in DOMAIN v.update_fn
    <2>. DEFINE fn == v.update_fn[s]
    <2>1. PICK text \in UpdatedValue(fn, known, e) : w = [v EXCEPT !.value = text]
      BY <1>2 DEF UpdateVar
    <2>. HIDE DEF fn
    <2>2. \E kind, n : text = Format(kind, n)
      <3>1. CASE fn.of = "Bool"
        BY <2>1, <3>1 DEF UpdatedValue
      <3>2. CASE fn.of # "Bool"
        BY <2>1, <3>2 DEF UpdatedValue
      <3>. QED
        BY <3>1, <3>2
    <2>3. PlainText(text)
      BY <2>2, FormatPlain
    <2>4. /\ w.value = text /\ w.is = v.is
          /\ v.is = "Query" => w.init_fn = v.init_fn
      BY <2>1 DEF IsVariable
    <2>. QED
      BY <2>3, <2>4 DEF Sourced, PlainText
  <1>. QED
    BY <1>1, <1>2

\* With the variables before it hydrated, a variable whose references lead to
\* them is hydrated to a text without references.
LEMMA HydrateVarPlain ==
  ASSUME PlainFromOutside, NEW v, IsVariable(v), Sourced(v),
         NEW before, before \in Seq(Range(before)),
         \A i \in DOMAIN before : PlainText(before[i].value),
         v.is = "Static" => TextRefs(v.value) \subseteq {before[i].name : i \in DOMAIN before},
         NEW inputs \in Inputs, NEW e, e.answers \in Answers,
         NEW w \in HydrateVar(v, before, inputs, e)
  PROVE  PlainText(w.value)
  <1>0. v.value \in Seq(Range(v.value)) /\ "value" \in DOMAIN v
        /\ (v.is # "Static" => PlainText(v.value))
    BY DEF Sourced, PlainText, IsVariable
  <1>1. CASE v.is = "Static"
    <2>1. w = [v EXCEPT !.value = ReplaceInString(@, before)]
      BY <1>1 DEF HydrateVar
    <2>2. w.value = ReplaceInString(v.value, before)
      BY <1>0, <2>1
    <2>. QED
      BY <1>0, <1>1, <2>2, ReplaceInStringPlain DEF PlainFromOutside
  <1>2. CASE v.is = "External"
    <2>1. \/ w = v
          \/ /\ inputs # None
             /\ \E name \in DOMAIN inputs[1] : w = [v EXCEPT !.value = inputs[1][name]]
      BY <1>2 DEF HydrateVar
    <2>2. ASSUME inputs # None, NEW name \in DOMAIN inputs[1],
                 w = [v EXCEPT !.value = inputs[1][name]]
          PROVE  PlainText(w.value)
      <3>1. w.value = inputs[1][name]
        BY <1>0, <2>2
      <3>. QED
        BY <2>2, <3>1 DEF PlainFromOutside
    <2>. QED
      BY <1>0, <1>2, <2>1, <2>2
  <1>3. CASE v.is = "Query"
    <2>1. \/ w = v
          \/ \E expr : \E q \in DOMAIN e.answers : \E text \in Answered(v, e.answers[q]) :
               w = [v EXCEPT !.init_fn = expr, !.value = text]
      <3>1. CASE ~v.reinitialize /\ v.value # None
        BY <1>3, <3>1 DEF HydrateVar
      <3>2. CASE ~(~v.reinitialize /\ v.value # None)
        <4>. DEFINE expr == ReplaceReferences(v.init_fn, before)
                    query == <<expr.contract_addr, expr.msg>>
        <4>. DEFINE hydrated == {[v EXCEPT !.init_fn = expr, !.value = text] :
                                   text \in UNION {Answered(v, e.answers[q]) :
                                                     q \in {query} \cap DOMAIN e.answers}}
        <4>0. HydrateVar(v, before, inputs, e)
                = IF ~v.reinitialize /\ v.value # None THEN {v} ELSE hydrated
          BY <1>3 DEF HydrateVar
        <4>1. w \in hydrated
          <5>. HIDE DEF hydrated
          <5>. QED
            BY <3>2, <4>0
        <4>2. PICK text \in UNION {Answered(v, e.answers[q]) :
                                     q \in {query} \cap DOMAIN e.answers} :
                w = [v EXCEPT !.init_fn = expr, !.value = text]
          <5>. HIDE DEF expr, query
          <5>. QED
            BY <4>1
        <4>3. PICK q \in {query} \cap DOMAIN e.answers : text \in Answered(v, e.answers[q])
          <5>. HIDE DEF expr, query, hydrated
          <5>. QED
            OBVIOUS
        <4>. HIDE DEF expr, query, hydrated
        <4>. QED
          BY <4>2, <4>3
      <3>. QED
        BY <3>1, <3>2
    <2>2. ASSUME NEW expr, NEW q \in DOMAIN e.answers, NEW text \in Answered(v, e.answers[q]),
                 w = [v EXCEPT !.init_fn = expr, !.value = text]
          PROVE  PlainText(w.value)
      <3>1. w.value = text
        BY <1>0, <2>2
      <3>2. CASE v.kind \in {"String", "Asset", "Json"}
        <4>1. PICK r \in ResolvePath(e.answers[q], v.init_fn.selector) :
                r.json = "string" /\ text = r.text
          BY <3>2 DEF Answered
        <4>. QED
          BY <1>3, <3>1, <4>1 DEF Sourced
      <3>3. CASE v.kind \notin {"String", "Asset", "Json"}
        <4>1. \E kind, n : text = Format(kind, n)
          BY <3>3 DEF Answered
        <4>. QED
          BY <3>1, <4>1, FormatPlain
      <3>. QED
        BY <3>2, <3>3
    <2>. QED
      BY <1>0, <1>3, <2>1, <2>2
  <1>. QED
    BY <1>1, <1>2, <1>3 DEF IsVariable

\* ... and so are all, from the first to the last.
LEMMA HydrateVarsPlain ==
  ASSUME PlainFromOutside, NEW vs, vs \in Seq(Range(vs)),
         \A v \in Range(vs) : IsVariable(v) /\ Sourced(v), Backward(vs),
         NEW inputs \in Inputs, NEW e, e.answers \in Answers,
         NEW ws \in HydrateVars(vs, inputs, e)
  PROVE  \A i \in DOMAIN ws : ~HasRef(ws[i].value)
  <1>1. /\ SameVariables(ws, vs)
        /\ \A i \in 1..Len(vs) : ws[i] \in HydrateVar(vs[i], Before(ws, i), inputs, e)
    BY HydrateVarsSame
  <1>2. /\ Len(vs) \in Nat /\ DOMAIN vs = 1..Len(vs) /\ DOMAIN ws = 1..Len(vs)
        /\ \A i \in 1..Len(vs) : vs[i] \in Range(vs) /\ ws[i].name = vs[i].name
    BY <1>1, SameVariablesTypes, SequenceParts
  <1>. DEFINE bad == {i \in 1..Len(vs) : ~PlainText(ws[i].value)}
  <1>3. ASSUME NEW i \in bad, \A k \in bad : i <= k
        PROVE  FALSE
    <2>. DEFINE before == Before(ws, i)
    <2>1. i \in Nat /\ i - 1 \in Nat /\ i \in 1..Len(vs)
      BY <1>2
    <2>2. before = [k \in 1..(i - 1) |-> before[k]] /\ \A k \in 1..(i - 1) : before[k] = ws[k]
      BY DEF Before
    <2>. HIDE DEF before
    <2>3. before \in Seq(Range(before)) /\ DOMAIN before = 1..(i - 1)
      BY <2>1, <2>2, IsSequence
    <2>4. \A k \in 1..(i - 1) : k \in 1..Len(vs) /\ k < i
      BY <1>2, <2>1
    <2>5. ASSUME NEW k \in DOMAIN before
          PROVE  PlainText(before[k].value) /\ before[k].name = vs[k].name
      <3>1. k \in 1..Len(vs) /\ ~(i <= k)
        BY <2>1, <2>3, <2>4
      <3>2. PlainText(ws[k].value)
        BY <1>3, <3>1
      <3>. QED
        BY <1>2, <2>2, <2>3, <3>1, <3>2
    <2>6. vs[i].is = "Static" =>
            TextRefs(vs[i].value) \subseteq {before[k].name : k \in DOMAIN before}
      <3>1. {before[k].name : k \in DOMAIN before} = {vs[k].name : k \in 1..(i - 1)}
        BY <2>3, <2>5
      <3>. QED
        BY <1>2, <2>1, <3>1 DEF Backward
    <2>7. IsVariable(vs[i]) /\ Sourced(vs[i]) /\ ws[i] \in HydrateVar(vs[i], before, inputs, e)
      BY <1>1, <1>2, <2>1 DEF before
    <2>8. PlainText(ws[i].value)
      BY <2>3, <2>5, <2>6, <2>7, HydrateVarPlain
    <2>. QED
      BY <2>8
  <1>4. bad = {}
    <2>1. bad \in SUBSET Nat
      BY <1>2
    <2>. HIDE DEF bad
    <2>. QED
      BY <1>3, <2>1, LeastNatural
  <1>. QED
    BY <1>2, <1>4 DEF PlainText

\* The variables of a pending job are sourced as those submitted.
SourceInv ==
  /\ env.answers \in Answers
  /\ status = "Pending" => \A v \in Range(job.vars) : Sourced(v)

\* Only a reply that does not terminate the series writes values of a pending job.
LEMMA SourceInvNext ==
  ASSUME JobInv, SourceInv, [Next]_vars
  PROVE  SourceInv'
  <1>1. job.vars \in Seq(Range(job.vars)) /\ \A v \in Range(job.vars) : IsVariable(v)
    BY DEF JobInv, IsJob
  <1>2. ASSUME NEW inputs \in Inputs, ExecuteJob(inputs)
        PROVE  SourceInv'
    <2>0. status = "Pending" /\ env' = env
      BY <1>2 DEF ExecuteJob
    <2>. SUFFICES ASSUME status' = "Pending" PROVE \A v \in Range(job'.vars) : Sourced(v)
      BY <2>0 DEF SourceInv, Sourced
    <2>1. PICK outcome \in {"Executed", "Failed"} : JobReply(outcome)
      BY <1>2 DEF ExecuteJob
    <2>2. PICK us \in ApplyVarFn(job.vars, outcome, env) : job' = [job EXCEPT !.vars = us]
      BY <2>0, <2>1, ReplyCases
    <2>3. job'.vars = us
      BY <2>2 DEF JobInv, IsJob
    <2>4. /\ SameVariables(us, job.vars)
          /\ \A i \in 1..Len(job.vars) :
               us[i] \in UpdateVar(job.vars[i], Range(job.vars), outcome, env)
      BY <1>1, ApplyVarFnSame
    <2>5. /\ DOMAIN us = 1..Len(job.vars)
          /\ \A i \in 1..Len(job.vars) : IsVariable(job.vars[i]) /\ Sourced(job.vars[i])
      BY <1>1, <2>0, <2>4, SameVariablesTypes, SequenceParts DEF SourceInv
    <2>6. ASSUME NEW i \in DOMAIN us PROVE Sourced(us[i])
      BY <2>4, <2>5, UpdateVarSourced
    <2>. QED
      BY <2>3, <2>6 DEF Range
  <1>3. CASE EndJob
    BY <1>3 DEF EndJob, SourceInv, Sourced
  <1>4. CASE NextBlock
    BY <1>4 DEF NextBlock, SourceInv, Sourced
  <1>5. CASE UNCHANGED vars
    BY <1>5 DEF vars, SourceInv, Sourced
  <1>. QED
    BY <1>2, <1>3, <1>4, <1>5 DEF Next

\* Where nobody else brings references in, hydration leaves none in the variables
\* of a job whose static variables refer backward: hydrate_msgs refuses no value
\* for a reference left in it.
THEOREM ReferencesResolved == PlainFromOutside /\ Spec => []NoReferenceLeft
  <1>. SUFFICES ASSUME PlainFromOutside PROVE Spec => []NoReferenceLeft
    OBVIOUS
  <1>1. Init => SourceInv
    BY DEF PlainFromOutside, Init, SourceInv
  <1>2. JobInv /\ SourceInv /\ [Next]_vars => SourceInv'
    BY SourceInvNext
  <1>3. JobInv /\ SourceInv => NoReferenceLeft
    <2>. SUFFICES ASSUME JobInv, SourceInv, status = "Pending", Backward(job.vars),
                         NEW inputs \in Inputs, NEW hydrated \in HydrateVars(job.vars, inputs, env)
                  PROVE  \A i \in DOMAIN hydrated : ~HasRef(hydrated[i].value)
      BY DEF NoReferenceLeft
    <2>1. /\ job.vars \in Seq(Range(job.vars))
          /\ \A v \in Range(job.vars) : IsVariable(v) /\ Sourced(v)
      BY DEF JobInv, IsJob, SourceInv
    <2>2. env.answers \in Answers
      BY DEF SourceInv
    <2>. QED
      BY <2>1, <2>2, HydrateVarsPlain
  <1>. QED
    BY <1>1, <1>2, <1>3, SeriesInvariant, PTL DEF Spec

-----------------------------------------------------------------------------
(* Paths *)

Start(r) == [found |-> {r}, curr |-> <<>>]

\* A path is walked token by token.
LEMMA WalkCourse ==
  ASSUME NEW r, NEW path, Len(path) \in Nat, DOMAIN path = 1..Len(path)
  PROVE  \E g : Course("Walk", g, Start(r), path) /\ Walk(r, path) = Collected(g[Len(path)])
  <1>. DEFINE S == DOMAIN path
              One(f, s) == IF s = {} THEN Start(r) ELSE WalkStep(f[s \ {Max(s)}], path[Max(s)])
              h == CHOOSE f : f = [s \in SUBSET S |-> One(f, s)]
  <1>1. Walk(r, path) = Collected(h[S])
    BY DEF Walk, FoldLeft, MapThenFoldSet, WalkStep, Start
  <1>2. \A f, s : One(f, s) = Folded("Walk", f, s, Start(r), path)
    <2>1. \A so_far, x : StepOf("Walk", so_far, x) = WalkStep(so_far, x)
      BY DEF StepOf
    <2>. SUFFICES ASSUME NEW f, NEW s PROVE One(f, s) = Folded("Walk", f, s, Start(r), path)
      BY Zenon
    <2>2. CASE s = {}
      BY <2>2 DEF Folded
    <2>3. CASE s # {}
      BY <2>1, <2>3 DEF Folded
    <2>. QED
      BY <2>2, <2>3
  <1>. HIDE DEF One
  <1>3. \E f : f = [s \in SUBSET S |-> One(f, s)]
    <2>1. PICK f : IsFold("Walk", f, Start(r), path, Len(path))
      BY FoldExists
    <2>2. f = [s \in SUBSET S |-> Folded("Walk", f, s, Start(r), path)]
      BY <2>1, Zenon DEF IsFold
    <2>. HIDE DEF S
    <2>. QED
      BY <1>2, <2>2, Zenon
  <1>4. h = [s \in SUBSET S |-> One(h, s)]
    <2>. HIDE DEF S
    <2>. QED
      BY <1>3, Zenon
  <1>. HIDE DEF h
  <1>5. IsFold("Walk", h, Start(r), path, Len(path))
    BY <1>2, <1>4, Zenon DEF IsFold
  <1>6. \E g : Course("Walk", g, Start(r), path) /\ g[Len(path)] = h[1..Len(path)]
    BY <1>5, FoldCourse
  <1>. QED
    BY <1>1, <1>6

\* What a path means is followed step by step.
LEMMA MeantCourse ==
  ASSUME NEW r, NEW steps, Len(steps) \in Nat, DOMAIN steps = 1..Len(steps)
  PROVE  \E g : Course("Meant", g, {r}, steps) /\ Meant(r, steps) = g[Len(steps)]
  <1>. DEFINE S == DOMAIN steps
              One(f, s) == IF s = {} THEN {r} ELSE MeantStep(f[s \ {Max(s)}], steps[Max(s)])
              h == CHOOSE f : f = [s \in SUBSET S |-> One(f, s)]
  <1>1. Meant(r, steps) = h[S]
    BY DEF Meant, FoldLeft, MapThenFoldSet, MeantStep
  <1>2. \A f, s : One(f, s) = Folded("Meant", f, s, {r}, steps)
    <2>1. \A so_far, x : StepOf("Meant", so_far, x) = MeantStep(so_far, x)
      BY DEF StepOf
    <2>. SUFFICES ASSUME NEW f, NEW s PROVE One(f, s) = Folded("Meant", f, s, {r}, steps)
      BY Zenon
    <2>2. CASE s = {}
      BY <2>2 DEF Folded
    <2>3. CASE s # {}
      BY <2>1, <2>3 DEF Folded
    <2>. QED
      BY <2>2, <2>3
  <1>. HIDE DEF One
  <1>3. \E f : f = [s \in SUBSET S |-> One(f, s)]
    <2>1. PICK f : IsFold("Meant", f, {r}, steps, Len(steps))
      BY FoldExists
    <2>2. f = [s \in SUBSET S |-> Folded("Meant", f, s, {r}, steps)]
      BY <2>1, Zenon DEF IsFold
    <2>. HIDE DEF S
    <2>. QED
      BY <1>2, <2>2, Zenon
  <1>4. h = [s \in SUBSET S |-> One(h, s)]
    <2>. HIDE DEF S
    <2>. QED
      BY <1>3, Zenon
  <1>. HIDE DEF h
  <1>5. IsFold("Meant", h, {r}, steps, Len(steps))
    BY <1>2, <1>4, Zenon DEF IsFold
  <1>6. \E g : Course("Meant", g, {r}, steps) /\ g[Len(steps)] = h[1..Len(steps)]
    BY <1>5, FoldCourse
  <1>. QED
    BY <1>1, <1>6

LEMMA MeantNothing ==
  ASSUME NEW r
  PROVE  Meant(r, <<>>) = {r}
  <1>1. Len(<<>>) = 0 /\ DOMAIN <<>> = 1..0
    OBVIOUS
  <1>2. \E g : Course("Meant", g, {r}, <<>>) /\ Meant(r, <<>>) = g[0]
    BY <1>1, MeantCourse
  <1>. QED
    BY <1>2 DEF Course

LEMMA MeantAppend ==
  ASSUME NEW r, NEW T, NEW steps \in Seq(T), NEW step \in T
  PROVE  Meant(r, Append(steps, step)) = MeantStep(Meant(r, steps), step)
  <1>. DEFINE n == Len(steps)
              more == Append(steps, step)
  <1>1. /\ n \in Nat /\ DOMAIN steps = 1..n
        /\ Len(more) = n + 1 /\ DOMAIN more = 1..Len(more)
        /\ (\A i \in 1..n : more[i] = steps[i]) /\ more[n + 1] = step
    BY LenProperties, AppendProperties
  <1>2. PICK g : Course("Meant", g, {r}, steps) /\ Meant(r, steps) = g[n]
    BY <1>1, MeantCourse
  <1>. HIDE DEF more, n
  <1>3. PICK h : Course("Meant", h, {r}, more) /\ Meant(r, more) = h[Len(more)]
    <2>1. Len(more) \in Nat
      BY <1>1
    <2>. QED
      BY <1>1, <2>1, MeantCourse
  <1>4. g[n] = h[n]
    <2>1. Extends(more, steps)
      BY <1>1 DEF Extends, n
    <2>. QED
      BY <1>2, <1>3, <2>1, CoursesAgree DEF n
  <1>5. h[n + 1] = StepOf("Meant", h[n], step)
    <2>1. n + 1 \in 1..Len(more) /\ n + 1 - 1 = n
      BY <1>1
    <2>. QED
      BY <1>1, <1>3, <2>1 DEF Course
  <1>6. StepOf("Meant", h[n], step) = MeantStep(h[n], step)
    BY DEF StepOf
  <1>. QED
    BY <1>1, <1>2, <1>3, <1>4, <1>5, <1>6 DEF more

\* A field that can be written in a path.
IsName(key) ==
  /\ key \in Seq(Range(key)) /\ key # <<>>
  /\ \A c \in Range(key) : \A m \in {"$", ".", "[", "]"} : c # Mark(m)

\* The root stays, a dot takes what is collected, anything else is collected.
LEMMA WalkSteps ==
  ASSUME NEW walk
  PROVE  /\ StepOf("Walk", walk, Mark("$")) = walk
         /\ StepOf("Walk", walk, Mark(".")) = [found |-> Collected(walk), curr |-> <<>>]
         /\ \A c : \A found, curr :
              c # Mark("$") /\ c # Mark(".") /\ walk = [found |-> found, curr |-> curr]
              => StepOf("Walk", walk, c) = [found |-> found, curr |-> Append(curr, c)]
  <1>1. \A c : StepOf("Walk", walk, c) = WalkStep(walk, c)
    BY DEF StepOf
  <1>2. Mark("$") # Mark(".")
    BY DEF Mark
  <1>3. WalkStep(walk, Mark("$")) = walk
    BY <1>2 DEF WalkStep
  <1>4. WalkStep(walk, Mark(".")) = [found |-> Collected(walk), curr |-> <<>>]
    BY <1>2 DEF WalkStep
  <1>5. ASSUME NEW c, NEW found, NEW curr, c # Mark("$"), c # Mark("."),
               walk = [found |-> found, curr |-> curr]
        PROVE  WalkStep(walk, c) = [found |-> found, curr |-> Append(curr, c)]
    <2>1. WalkStep(walk, c) = [walk EXCEPT !.curr = Append(@, c)]
      BY <1>5 DEF WalkStep
    <2>2. \A after : [walk EXCEPT !.curr = after] = [found |-> found, curr |-> after]
      BY <1>5
    <2>3. walk.curr = curr
      BY <1>5
    <2>. QED
      BY <2>1, <2>2, <2>3, Zenon
  <1>. QED
    BY <1>1, <1>3, <1>4, <1>5

LEMMA WalkRoot ==
  ASSUME NEW r
  PROVE  Walk(r, <<Mark("$")>>) = {r}
  <1>. DEFINE path == <<Mark("$")>>
  <1>1. /\ Len(path) = 1 /\ Len(path) \in Nat /\ DOMAIN path = 1..Len(path)
        /\ path[1] = Mark("$")
    OBVIOUS
  <1>. HIDE DEF path
  <1>2. PICK g : Course("Walk", g, Start(r), path) /\ Walk(r, path) = Collected(g[Len(path)])
    BY <1>1, WalkCourse
  <1>3. g[1] = StepOf("Walk", g[0], path[1]) /\ g[0] = Start(r)
    BY <1>1, <1>2 DEF Course
  <1>4. g[1] = Start(r)
    BY <1>1, <1>3, WalkSteps
  <1>. QED
    BY <1>1, <1>2, <1>4 DEF Start, Collected, path

\* A dot leaves the field before it, and what follows is collected.
LEMMA WalkField ==
  ASSUME NEW r, NEW T, NEW p \in Seq(T), NEW key, IsName(key)
  PROVE  Walk(r, p \o (<<Mark(".")>> \o key)) = Get(Walk(r, p), key)
  <1>. DEFINE U == T \cup Range(key) \cup {Mark(".")}
              n == Len(p)
              k == Len(key)
              more == p \o (<<Mark(".")>> \o key)
  <1>1. p \in Seq(U) /\ key \in Seq(U) /\ <<Mark(".")>> \in Seq(U)
    BY SeqMonotonic DEF IsName
  <1>2. /\ n \in Nat /\ k \in Nat /\ DOMAIN p = 1..n /\ DOMAIN key = 1..k
        /\ \A j \in 1..k : key[j] \in Range(key)
    BY <1>1, LenProperties, SequenceParts DEF IsName
  <1>3. /\ <<Mark(".")>> \o key \in Seq(U) /\ Len(<<Mark(".")>> \o key) = k + 1
        /\ (<<Mark(".")>> \o key)[1] = Mark(".")
        /\ \A j \in 1..k : (<<Mark(".")>> \o key)[j + 1] = key[j]
    <2>. HIDE DEF U
    <2>. QED
      BY <1>1, <1>2, ConcatProperties
  <1>4. /\ Len(more) = n + k + 1 /\ DOMAIN more = 1..Len(more)
        /\ \A i \in 1..n : more[i] = p[i]
        /\ more[n + 1] = Mark(".")
        /\ \A j \in 1..k : more[n + 1 + j] = key[j]
    <2>. DEFINE rest == <<Mark(".")>> \o key
    <2>1. rest \in Seq(U) /\ Len(rest) = k + 1 /\ rest[1] = Mark(".")
          /\ \A j \in 1..k : rest[j + 1] = key[j]
      BY <1>3
    <2>. HIDE DEF U, rest
    <2>2. /\ p \o rest \in Seq(U) /\ Len(p \o rest) = n + (k + 1)
          /\ \A i \in 1..n + (k + 1) : (p \o rest)[i] = IF i <= n THEN p[i] ELSE rest[i - n]
      <3>1. /\ p \o rest \in Seq(U) /\ Len(p \o rest) = Len(p) + Len(rest)
            /\ \A i \in 1..Len(p) + Len(rest) :
                 (p \o rest)[i] = IF i <= Len(p) THEN p[i] ELSE rest[i - Len(p)]
        BY <1>1, <2>1, ConcatProperties
      <3>. QED
        BY <2>1, <3>1, Zenon
    <2>3. DOMAIN (p \o rest) = 1..Len(p \o rest)
      BY <2>2, LenProperties
    <2>4. \A i \in 1..n : (p \o rest)[i] = p[i]
      BY <1>2, <2>2
    <2>5. (p \o rest)[n + 1] = rest[1]
      BY <1>2, <2>2
    <2>6. ASSUME NEW j \in 1..k PROVE (p \o rest)[n + 1 + j] = rest[j + 1]
      <3>1. n + 1 + j \in 1..n + (k + 1) /\ ~(n + 1 + j <= n) /\ n + 1 + j - n = j + 1
        BY <1>2
      <3>. QED
        BY <2>2, <3>1
    <2>. QED
      BY <1>2, <2>1, <2>2, <2>3, <2>4, <2>5, <2>6 DEF rest
  <1>. HIDE DEF U, n, k, more
  <1>5. PICK g : Course("Walk", g, Start(r), p) /\ Walk(r, p) = Collected(g[n])
    BY <1>2, WalkCourse DEF n
  <1>6. PICK h : Course("Walk", h, Start(r), more) /\ Walk(r, more) = Collected(h[Len(more)])
    <2>1. Len(more) \in Nat
      BY <1>2, <1>4
    <2>. QED
      BY <1>4, <2>1, WalkCourse
  <1>7. g[n] = h[n]
    <2>1. Extends(more, p)
      BY <1>2, <1>4 DEF Extends, n
    <2>. QED
      BY <1>5, <1>6, <2>1, CoursesAgree DEF n
  <1>. DEFINE at == Walk(r, p)
  <1>8. h[n + 1] = [found |-> at, curr |-> <<>>]
    <2>1. n + 1 \in 1..Len(more) /\ n + 1 - 1 = n
      BY <1>2, <1>4
    <2>2. h[n + 1] = StepOf("Walk", h[n + 1 - 1], more[n + 1])
      BY <1>2, <1>4, <1>6, <2>1 DEF Course
    <2>4. StepOf("Walk", h[n], Mark(".")) = [found |-> Collected(h[n]), curr |-> <<>>]
      BY WalkSteps
    <2>. QED
      BY <1>4, <1>5, <1>7, <2>1, <2>2, <2>4
  <1>. DEFINE bad == {j \in 0..k : h[n + 1 + j] # [found |-> at, curr |-> SubSeq(key, 1, j)]}
  <1>9. ASSUME NEW j \in bad, \A l \in bad : j <= l
        PROVE  FALSE
    <2>0. j \in 0..k /\ h[n + 1 + j] # [found |-> at, curr |-> SubSeq(key, 1, j)]
      OBVIOUS
    <2>1. j # 0
      <3>1. SubSeq(key, 1, 0) = <<>>
        BY SubSeqEmpty
      <3>2. n + 1 + 0 = n + 1
        BY <1>2
      <3>. QED
        BY <1>8, <2>0, <3>1, <3>2
    <2>2. j \in 1..k /\ j - 1 \in 0..k /\ ~(j <= j - 1)
      BY <1>2, <2>0, <2>1
    <2>3. h[n + 1 + (j - 1)] = [found |-> at, curr |-> SubSeq(key, 1, j - 1)]
      BY <1>9, <2>2
    <2>. HIDE DEF bad, at
    <2>4. n + 1 + j \in 1..Len(more) /\ n + 1 + j - 1 = n + 1 + (j - 1)
      BY <1>2, <1>4, <2>2
    <2>5. h[n + 1 + j] = StepOf("Walk", h[n + 1 + (j - 1)], key[j])
      <3>1. h[n + 1 + j] = StepOf("Walk", h[n + 1 + j - 1], more[n + 1 + j])
        BY <1>2, <1>4, <1>6, <2>2, <2>4 DEF Course
      <3>. QED
        BY <1>4, <2>2, <2>4, <3>1
    <2>6. key[j] # Mark("$") /\ key[j] # Mark(".")
      BY <1>2, <2>2 DEF IsName
    <2>7. h[n + 1 + j] = [found |-> at, curr |-> Append(SubSeq(key, 1, j - 1), key[j])]
      <3>. DEFINE walk == h[n + 1 + (j - 1)]
                  curr == SubSeq(key, 1, j - 1)
      <3>1. h[n + 1 + j] = StepOf("Walk", walk, key[j])
        BY <2>5
      <3>2. walk = [found |-> at, curr |-> curr]
        BY <2>3
      <3>3. \A c, f, s : c # Mark("$") /\ c # Mark(".") /\ walk = [found |-> f, curr |-> s]
              => StepOf("Walk", walk, c) = [found |-> f, curr |-> Append(s, c)]
        BY WalkSteps
      <3>. HIDE DEF walk, curr
      <3>4. h[n + 1 + j] = [found |-> at, curr |-> Append(curr, key[j])]
        BY <2>6, <3>1, <3>2, <3>3, Zenon
      <3>. QED
        BY <3>4 DEF curr
    <2>8. SubSeq(key, 1, j) = Append(SubSeq(key, 1, j - 1), key[j])
      <3>1. SubSeq(key, 1, j) = SubSeq(key, 1, j - 1) \o <<key[j]>>
        BY <1>1, <1>2, <2>2, SubSeqRecursiveSecond DEF k
      <3>2. SubSeq(key, 1, j - 1) \in Seq(U) /\ key[j] \in U
        <4>1. \A i \in 1..k : key[i] \in U
          BY <1>1, ElementOfSeq DEF k
        <4>2. \A i \in 1..(j - 1) : key[i] \in U
          BY <1>2, <2>2, <4>1
        <4>3. j - 1 \in Int /\ 1 \in Int
          BY <2>2
        <4>. QED
          BY <2>2, <4>1, <4>2, <4>3, SubSeqProperties
      <3>. QED
        BY <3>1, <3>2, AppendIsConcat
    <2>. QED
      BY <2>0, <2>7, <2>8
  <1>10. bad = {}
    <2>1. bad \in SUBSET Nat
      BY <1>2
    <2>. HIDE DEF bad
    <2>. QED
      BY <1>9, <2>1, LeastNatural
  <1>11. h[Len(more)] = [found |-> at, curr |-> key]
    <2>1. k \in 0..k
      BY <1>2
    <2>2. h[n + 1 + k] = [found |-> at, curr |-> SubSeq(key, 1, k)]
      BY <1>10, <2>1
    <2>3. SubSeq(key, 1, k) = key
      BY <1>1, SubSeqFull DEF k
    <2>4. Len(more) = n + 1 + k
      BY <1>2, <1>4
    <2>. QED
      BY <2>2, <2>3, <2>4
  <1>12. Collected(h[Len(more)]) = Get(at, key)
    BY <1>11 DEF Collected, IsName
  <1>. QED
    BY <1>6, <1>12 DEF more

\* One sequence more is put behind the others.
LEMMA FlattenAppend ==
  ASSUME NEW U, NEW seqs \in Seq(Seq(U)), NEW q \in Seq(U)
  PROVE  FlattenSeq(Append(seqs, q)) = FlattenSeq(seqs) \o q
  <1>. DEFINE n == Len(seqs)
              more == Append(seqs, q)
  <1>1. /\ n \in Nat /\ more \in Seq(Seq(U)) /\ Len(more) = n + 1
        /\ (\A i \in 1..n : more[i] = seqs[i]) /\ more[n + 1] = q
    BY LenProperties, AppendProperties
  <1>. HIDE DEF more
  <1>2. PICK h : /\ \A i \in 1..Len(more) : h[i] = Concatenated(h, i, more)
                 /\ FlattenSeq(more) = h[Len(more)]
    <2>1. Len(more) # 0
      BY <1>1
    <2>2. PICK h : /\ h = [i \in 1..Len(more) |-> Concatenated(h, i, more)]
                   /\ FlattenSeq(more) = h[Len(more)]
      BY <1>1, <2>1, FlattenUnfold
    <2>3. \A i \in 1..Len(more) : h[i] = Concatenated(h, i, more)
      BY <2>2
    <2>. QED
      BY <2>2, <2>3
  <1>3. CASE n = 0
    <2>1. seqs = <<>>
      BY <1>3, EmptySeq
    <2>2. FlattenSeq(seqs) = <<>>
      BY <2>1 DEF FlattenSeq
    <2>3. 1 \in 1..Len(more) /\ Len(more) = 1 /\ more[1] = q
      BY <1>1, <1>3
    <2>4. FlattenSeq(more) = q
      BY <1>2, <2>3 DEF Concatenated
    <2>5. <<>> \o q = q
      BY ConcatEmptySeq
    <2>. QED
      BY <2>2, <2>4, <2>5 DEF more
  <1>4. CASE n # 0
    <2>1. PICK g : /\ \A i \in 1..n : g[i] = Concatenated(g, i, seqs)
                   /\ FlattenSeq(seqs) = g[n]
      <3>1. Len(seqs) # 0
        BY <1>4
      <3>2. PICK g : /\ g = [i \in 1..Len(seqs) |-> Concatenated(g, i, seqs)]
                     /\ FlattenSeq(seqs) = g[Len(seqs)]
        BY <3>1, FlattenUnfold
      <3>3. \A i \in 1..n : g[i] = Concatenated(g, i, seqs)
        BY <3>2
      <3>. QED
        BY <3>2, <3>3
    <2>. HIDE DEF n
    <2>. DEFINE bad == {i \in 1..n : g[i] # h[i]}
    <2>2. ASSUME NEW m \in bad, \A k \in bad : m <= k
          PROVE  FALSE
      <3>1. m \in 1..n /\ m \in 1..Len(more) /\ g[m] # h[m] /\ more[m] = seqs[m]
        BY <1>1
      <3>2. CASE m = 1
        BY <1>2, <2>1, <3>1, <3>2 DEF Concatenated
      <3>3. CASE m # 1
        <4>1. m - 1 \in 1..n /\ ~(m <= m - 1)
          BY <1>1, <3>1, <3>3
        <4>2. g[m - 1] = h[m - 1]
          BY <2>2, <4>1
        <4>. HIDE DEF bad
        <4>3. g[m] = g[m - 1] \o seqs[m] /\ h[m] = h[m - 1] \o more[m]
          BY <1>2, <2>1, <3>1, <3>3 DEF Concatenated
        <4>. QED
          BY <3>1, <4>2, <4>3, Zenon
      <3>. QED
        BY <3>2, <3>3
    <2>3. bad = {}
      <3>1. bad \in SUBSET Nat
        BY <1>1
      <3>. HIDE DEF bad
      <3>. QED
        BY <2>2, <3>1, LeastNatural
    <2>4. n \in 1..n /\ n + 1 \in 1..Len(more) /\ n + 1 # 1 /\ n + 1 - 1 = n
      BY <1>1, <1>4
    <2>5. g[n] = h[n]
      BY <2>3, <2>4
    <2>6. h[n + 1] = h[n] \o q
      <3>1. PICK k \in 1..Len(more) : k = n + 1 /\ k # 1 /\ k - 1 = n
        BY <2>4
      <3>2. h[k] = h[k - 1] \o more[k]
        BY <1>2, <3>1 DEF Concatenated
      <3>3. h[k - 1] = h[n] /\ more[k] = q /\ h[k] = h[n + 1]
        BY <1>1, <3>1
      <3>. QED
        BY <3>2, <3>3, Zenon
    <2>7. FlattenSeq(more) = h[n + 1]
      BY <1>1, <1>2
    <2>. QED
      BY <2>1, <2>5, <2>6, <2>7 DEF more
  <1>. QED
    BY <1>3, <1>4

\* One step more is written behind the others.
LEMMA PathAppend ==
  ASSUME NEW T, NEW U, Mark("$") \in U, \A t \in T : Written(t) \in Seq(U),
         NEW steps \in Seq(T), NEW step \in T
  PROVE  /\ PathOf(steps) \in Seq(U)
         /\ PathOf(Append(steps, step)) = PathOf(steps) \o Written(step)
  <1>. DEFINE n == Len(steps)
              more == Append(steps, step)
              written == [i \in DOMAIN steps |-> Written(steps[i])]
  <1>1. /\ n \in Nat /\ DOMAIN steps = 1..n /\ (\A i \in 1..n : steps[i] \in T)
        /\ Len(more) = n + 1 /\ DOMAIN more = 1..(n + 1)
        /\ (\A i \in 1..n : more[i] = steps[i]) /\ more[n + 1] = step
    BY LenProperties, AppendProperties, ElementOfSeq
  <1>2. /\ written \in Seq(Seq(U)) /\ Len(written) = n
        /\ \A i \in 1..n : written[i] = Written(steps[i])
    <2>1. written \in [1..n -> Seq(U)]
      BY <1>1
    <2>2. written \in Seq(Seq(U))
      BY <1>1, <2>1, SeqDef
    <2>3. DOMAIN written = 1..n
      BY <1>1
    <2>4. Len(written) = n
      <3>. HIDE DEF written
      <3>. QED
        BY <1>1, <2>2, <2>3, LenProperties
    <2>. QED
      BY <1>1, <2>2, <2>4
  <1>. HIDE DEF more, n
  <1>. DEFINE after == [i \in DOMAIN more |-> Written(more[i])]
  <1>3. after = Append(written, Written(step))
    <2>1. after \in [1..(n + 1) -> Seq(U)]
      <3>1. ASSUME NEW i \in 1..(n + 1) PROVE Written(more[i]) \in Seq(U)
        <4>1. i \in 1..n \/ i = n + 1
          BY <1>1
        <4>. QED
          BY <1>1, <4>1
      <3>. QED
        BY <1>1, <3>1
    <2>2. after \in Seq(Seq(U))
      BY <1>1, <2>1, SeqDef
    <2>3. DOMAIN after = 1..(n + 1) /\ \A i \in 1..(n + 1) : after[i] = Written(more[i])
      BY <1>1
    <2>. DEFINE appended == Append(written, Written(step))
    <2>4. /\ appended \in Seq(Seq(U)) /\ Len(appended) = n + 1
          /\ (\A i \in 1..n : appended[i] = written[i]) /\ appended[n + 1] = Written(step)
      <3>. HIDE DEF written
      <3>. QED
        BY <1>2, AppendProperties
    <2>. HIDE DEF after, appended
    <2>5. Len(after) = n + 1
      BY <1>1, <2>2, <2>3, LenProperties
    <2>6. ASSUME NEW i \in 1..(n + 1) PROVE after[i] = appended[i]
      <3>. HIDE DEF written
      <3>1. CASE i = n + 1
        BY <1>1, <2>3, <2>4, <3>1
      <3>2. CASE i # n + 1
        <4>1. i \in 1..n
          BY <1>1, <3>2
        <4>. QED
          BY <1>1, <1>2, <2>3, <2>4, <4>1
      <3>. QED
        BY <3>1, <3>2
    <2>7. after = appended
      BY <2>2, <2>4, <2>5, <2>6, SeqEqual
    <2>. QED
      BY <2>7 DEF appended
  <1>4. PathOf(steps) = <<Mark("$")>> \o FlattenSeq(written)
    BY DEF PathOf
  <1>5. PathOf(more) = <<Mark("$")>> \o FlattenSeq(after)
    BY DEF PathOf
  <1>. HIDE DEF written, after
  <1>6. FlattenSeq(after) = FlattenSeq(written) \o Written(step)
    BY <1>2, <1>3, FlattenAppend
  <1>7. FlattenSeq(written) \in Seq(U) /\ <<Mark("$")>> \in Seq(U)
    BY <1>2, FlattenParts
  <1>8. PathOf(steps) \in Seq(U)
    BY <1>4, <1>7, ConcatProperties
  <1>9. PathOf(more) = PathOf(steps) \o Written(step)
    BY <1>4, <1>5, <1>6, <1>7, ConcatAssociative
  <1>. QED
    BY <1>8, <1>9 DEF more

IsField(step) == step = Field(step.field) /\ IsName(step.field)

\* Tokens of a path of fields.
FieldTokens(T) == {Mark("$"), Mark(".")} \cup UNION {Range(t.field) : t \in T}

LEMMA FieldWritten ==
  ASSUME NEW T, NEW t \in T, IsField(t)
  PROVE  /\ Written(t) = <<Mark(".")>> \o t.field
         /\ Written(t) \in Seq(FieldTokens(T))
         /\ \A found : MeantStep(found, t) = Get(found, t.field)
  <1>1. DOMAIN t = {"field"}
    BY DEF IsField, Field
  <1>2. Written(t) = <<Mark(".")>> \o t.field
    BY <1>1 DEF Written
  <1>3. t.field \in Seq(FieldTokens(T)) /\ <<Mark(".")>> \in Seq(FieldTokens(T))
    <2>1. Mark(".") \in FieldTokens(T) /\ Range(t.field) \subseteq FieldTokens(T)
      BY DEF FieldTokens
    <2>. HIDE DEF FieldTokens
    <2>. QED
      BY <2>1, SeqMonotonic DEF IsField, IsName
  <1>4. Written(t) \in Seq(FieldTokens(T))
    BY <1>2, <1>3, ConcatProperties
  <1>. QED
    BY <1>1, <1>2, <1>4 DEF MeantStep

\* A path of fields leads to what it says, and holds no other tokens.
LEMMA FieldsFollowed ==
  ASSUME NEW T, \A t \in T : IsField(t), NEW r, NEW steps \in Seq(T)
  PROVE  /\ Walk(r, PathOf(steps)) = Meant(r, steps)
         /\ PathOf(steps) \in Seq(FieldTokens(T))
  <1>. DEFINE U == FieldTokens(T)
              Right(s) == Walk(r, PathOf(s)) = Meant(r, s) /\ PathOf(s) \in Seq(U)
              bad == {m \in Nat : \E s \in Seq(T) : Len(s) = m /\ ~Right(s)}
  <1>0. Mark("$") \in U /\ \A t \in T : Written(t) \in Seq(U)
    BY FieldWritten DEF FieldTokens
  <1>. HIDE DEF U
  <1>1. ASSUME NEW m \in bad, \A k \in bad : m <= k
        PROVE  FALSE
    <2>1. PICK s \in Seq(T) : Len(s) = m /\ ~Right(s)
      OBVIOUS
    <2>2. CASE s = <<>>
      <3>1. PathOf(s) = <<Mark("$")>>
        <4>1. [i \in DOMAIN s |-> Written(s[i])] = <<>>
          BY <2>2
        <4>2. FlattenSeq(<<>>) = <<>>
          BY DEF FlattenSeq
        <4>3. PathOf(s) = <<Mark("$")>> \o <<>>
          BY <4>1, <4>2 DEF PathOf
        <4>4. <<Mark("$")>> \in Seq(U)
          BY <1>0
        <4>. QED
          BY <4>3, <4>4, ConcatEmptySeq
      <3>2. Walk(r, PathOf(s)) = {r}
        BY <3>1, WalkRoot
      <3>3. Meant(r, s) = {r}
        BY <2>2, MeantNothing
      <3>4. PathOf(s) \in Seq(U)
        BY <1>0, <3>1
      <3>. QED
        BY <2>1, <3>2, <3>3, <3>4
    <2>3. CASE s # <<>>
      <3>1. PICK front \in Seq(T), t \in T : s = Append(front, t)
        BY <2>3, SequenceEmptyOrAppend
      <3>2. Len(front) \in Nat /\ Len(front) = m - 1 /\ m \in Nat
        BY <2>1, <3>1, LenProperties, AppendProperties
      <3>3. Right(front)
        <4>1. Len(front) \notin bad
          BY <1>1, <3>2
        <4>. QED
          BY <3>2, <4>1
      <3>. HIDE DEF bad
      <3>4. PathOf(s) = PathOf(front) \o (<<Mark(".")>> \o t.field)
        <4>1. PathOf(s) = PathOf(front) \o Written(t)
          BY <1>0, <3>1, PathAppend
        <4>2. Written(t) = <<Mark(".")>> \o t.field
          BY FieldWritten
        <4>. QED
          BY <4>1, <4>2
      <3>5. PathOf(s) \in Seq(U)
        BY <1>0, <2>1, PathAppend
      <3>6. Walk(r, PathOf(s)) = Get(Walk(r, PathOf(front)), t.field)
        BY <3>3, <3>4, WalkField DEF IsField
      <3>7. Meant(r, s) = Get(Meant(r, front), t.field)
        <4>1. Meant(r, s) = MeantStep(Meant(r, front), t)
          BY <3>1, MeantAppend
        <4>. QED
          BY <4>1, FieldWritten
      <3>. QED
        BY <2>1, <3>3, <3>5, <3>6, <3>7
    <2>. QED
      BY <2>2, <2>3
  <1>2. bad = {}
    <2>1. bad \in SUBSET Nat
      OBVIOUS
    <2>. HIDE DEF bad
    <2>. QED
      BY <1>1, <2>1, LeastNatural
  <1>3. Right(steps)
    <2>1. Len(steps) \in Nat
      BY LenProperties
    <2>. QED
      BY <1>2, <2>1
  <1>. QED
    BY <1>3 DEF U

LEMMA MinOfOne ==
  ASSUME NEW n \in Int
  PROVE  Min({n}) = n
  BY DEF Min

\* An index at the end of a path is read, and nothing else.
LEMMA IndexResolved ==
  ASSUME NEW r, NEW U, NEW p \in Seq(U), Mark("[") \notin U, NEW i
  PROVE  ResolvePath(r, p \o <<Mark("["), Num(i), Mark("]")>>) = At(Walk(r, p), i)
  <1>. DEFINE n == Len(p)
              last == <<Mark("["), Num(i), Mark("]")>>
              path == p \o last
              V == U \cup {Mark("["), Num(i), Mark("]")}
  <1>1. p \in Seq(V) /\ last \in Seq(V) /\ Len(last) = 3 /\ n \in Nat
    BY SeqMonotonic, LenProperties
  <1>2. last[1] = Mark("[") /\ last[2] = Num(i) /\ last[3] = Mark("]")
    OBVIOUS
  <1>3. /\ path \in Seq(V) /\ Len(path) = n + 3 /\ DOMAIN path = 1..(n + 3)
        /\ \A k \in 1..(n + 3) : path[k] = IF k <= n THEN p[k] ELSE last[k - n]
    <2>. HIDE DEF V, last
    <2>1. /\ path \in Seq(V) /\ Len(path) = Len(p) + Len(last)
          /\ \A k \in 1..Len(p) + Len(last) :
               path[k] = IF k <= Len(p) THEN p[k] ELSE last[k - Len(p)]
      BY <1>1, ConcatProperties
    <2>. HIDE DEF path, n
    <2>2. DOMAIN path = 1..Len(path)
      BY <2>1, LenProperties
    <2>. QED
      BY <1>1, <2>1, <2>2, Zenon DEF n
  <1>. HIDE DEF last
  <1>4. /\ \A k \in 1..n : path[k] = p[k] /\ path[k] \in U
        /\ path[n + 1] = Mark("[") /\ path[n + 2] = Num(i) /\ path[n + 3] = Mark("]")
    <2>1. \A k \in 1..n : p[k] \in U
      BY ElementOfSeq
    <2>2. n + 1 - n = 1 /\ n + 2 - n = 2 /\ n + 3 - n = 3
      BY <1>1
    <2>3. path[n + 1] = last[1] /\ path[n + 2] = last[2] /\ path[n + 3] = last[3]
      <3>. HIDE DEF path
      <3>. QED
        BY <1>1, <1>3, <2>2
    <2>4. \A k \in 1..n : path[k] = p[k]
      <3>. HIDE DEF path
      <3>. QED
        BY <1>1, <1>3
    <2>. HIDE DEF path
    <2>. QED
      BY <1>2, <2>1, <2>3, <2>4
  <1>. HIDE DEF n, V
  <1>5. Mark("[") # Mark("]") /\ Mark("[") # Num(i) /\ Mark("]") # Num(i)
    <2>1. Mark("[").mark = "[" /\ Mark("]").mark = "]"
      BY DEF Mark
    <2>2. DOMAIN Mark("[") = {"mark"} /\ DOMAIN Mark("]") = {"mark"} /\ DOMAIN Num(i) = {"num"}
      BY DEF Mark, Num
    <2>. QED
      BY <2>1, <2>2
  <1>. DEFINE whole == p \o <<Mark("["), Num(i), Mark("]")>>
  <1>6. path = whole
    BY DEF last
  <1>. HIDE DEF path, whole
  <1>7. Positions("[", path) = {n + 1}
    <2>1. ASSUME NEW k \in 1..(n + 3), path[k] = Mark("[")
          PROVE  k = n + 1
      <3>1. k \in 1..n \/ k = n + 1 \/ k = n + 2 \/ k = n + 3
        BY <1>1
      <3>. QED
        BY <1>4, <1>5, <2>1, <3>1
    <2>2. n + 1 \in 1..(n + 3)
      BY <1>1
    <2>. QED
      BY <1>3, <1>4, <2>1, <2>2 DEF Positions
  <1>8. Min(Positions("[", path)) = n + 1
    BY <1>1, <1>7, MinOfOne
  <1>9. SubSeq(path, 1, n) = p
    <2>1. \A k \in 1..n : path[k] \in V
      BY <1>4 DEF V
    <2>2. /\ SubSeq(path, 1, n) \in Seq(V)
          /\ Len(SubSeq(path, 1, n)) = IF 1 <= n THEN n - 1 + 1 ELSE 0
          /\ \A k \in 1..n - 1 + 1 : SubSeq(path, 1, n)[k] = path[1 + k - 1]
      BY <1>1, <2>1, SubSeqProperties
    <2>3. Len(SubSeq(path, 1, n)) = n
      BY <1>1, <2>2
    <2>4. \A k \in 1..n : SubSeq(path, 1, n)[k] = p[k]
      <3>1. ASSUME NEW k \in 1..n PROVE SubSeq(path, 1, n)[k] = p[k]
        <4>1. k \in 1..n - 1 + 1 /\ 1 + k - 1 = k
          BY <1>1
        <4>. QED
          BY <1>4, <2>2, <4>1
      <3>. QED
        BY <3>1
    <2>5. Len(p) = n
      BY DEF n
    <2>. DEFINE sub == SubSeq(path, 1, n)
    <2>. HIDE DEF sub
    <2>6. sub \in Seq(V) /\ Len(sub) = n /\ \A k \in 1..n : sub[k] = p[k]
      BY <2>2, <2>3, <2>4 DEF sub
    <2>7. sub = p
      BY <1>1, <2>5, <2>6, SeqEqual
    <2>. QED
      BY <2>7 DEF sub
  <1>10. ReadArrayIndex(path, n + 2) = {i}
    <2>. DEFINE closing == {k \in Positions("]", path) : k >= n + 2}
    <2>1. closing = {n + 3}
      <3>1. ASSUME NEW k \in 1..(n + 3), path[k] = Mark("]"), k >= n + 2
            PROVE  k = n + 3
        <4>1. k = n + 2 \/ k = n + 3
          BY <1>1, <3>1
        <4>. QED
          BY <1>4, <1>5, <3>1, <4>1
      <3>2. n + 3 \in 1..(n + 3) /\ n + 3 >= n + 2
        BY <1>1
      <3>. QED
        BY <1>3, <1>4, <3>1, <3>2 DEF Positions
    <2>2. Min(closing) = n + 3
      BY <1>1, <2>1, MinOfOne
    <2>. DEFINE curr == SubSeq(path, n + 2, n + 2)
    <2>3. Len(curr) = 1 /\ DOMAIN curr = 1..1 /\ curr[1] = Num(i)
      <3>1. \A k \in (n + 2)..(n + 2) : path[k] \in V
        BY <1>1, <1>4 DEF V
      <3>2. /\ curr \in Seq(V)
            /\ Len(curr) = IF n + 2 <= n + 2 THEN n + 2 - (n + 2) + 1 ELSE 0
            /\ \A k \in 1..n + 2 - (n + 2) + 1 : curr[k] = path[n + 2 + k - 1]
        BY <1>1, <3>1, SubSeqProperties
      <3>. HIDE DEF curr
      <3>3. Len(curr) = 1
        BY <1>1, <3>2
      <3>4. DOMAIN curr = 1..1
        BY <3>2, <3>3, LenProperties
      <3>5. 1 \in 1..n + 2 - (n + 2) + 1 /\ n + 2 + 1 - 1 = n + 2
        BY <1>1
      <3>. QED
        BY <1>4, <3>2, <3>3, <3>4, <3>5
    <2>4. Range(curr) = {Num(i)}
      <3>. HIDE DEF curr
      <3>. QED
        BY <2>3 DEF Range
    <2>5. DOMAIN Num(i) = {"num"} /\ Num(i).num = i
      BY DEF Num
    <2>6. n + 3 - 1 = n + 2
      BY <1>1
    <2>7. ReadArrayIndex(path, n + 2)
            = {c.num : c \in {c \in Range(curr) : Len(curr) = 1 /\ DOMAIN c = {"num"}}}
      <3>1. closing # {}
        BY <2>1
      <3>2. SubSeq(path, n + 2, Min(closing) - 1) = curr
        <4>. HIDE DEF closing
        <4>1. Min(closing) - 1 = n + 2
          BY <1>1, <2>2
        <4>. QED
          BY <4>1, Zenon
      <3>. HIDE DEF curr
      <3>. QED
        BY <3>1, <3>2, Zenon DEF ReadArrayIndex
    <2>. HIDE DEF curr
    <2>. QED
      BY <2>3, <2>4, <2>5, <2>7
  <1>11. ResolvePath(r, path) = UNION {At(Walk(r, p), k) : k \in {i}}
    <2>1. Positions("[", path) # {}
      BY <1>7
    <2>2. n + 1 - 1 = n /\ n + 1 + 1 = n + 2
      BY <1>1
    <2>3. ResolvePath(r, path)
            = UNION {At(Walk(r, SubSeq(path, 1, Min(Positions("[", path)) - 1)), k) :
                       k \in ReadArrayIndex(path, Min(Positions("[", path)) + 1)}
      BY <2>1, Zenon DEF ResolvePath
    <2>4. /\ Min(Positions("[", path)) - 1 = n
          /\ Min(Positions("[", path)) + 1 = n + 2
      BY <1>1, <1>8
    <2>. QED
      BY <1>9, <1>10, <2>3, <2>4, Zenon
  <1>. QED
    BY <1>6, <1>11 DEF whole

\* Selectors are written with names of fields, that are not empty and have none of
\* the marks in them, and with indices.  A name may have any other characters.
SelectorsWritable ==
  \A steps \in Selectors :
    /\ steps \in Seq(Range(steps))
    /\ \A i \in DOMAIN steps : IsField(steps[i]) \/ steps[i] = Index(steps[i].index)

LEMMA FieldNoIndex ==
  ASSUME NEW t, IsField(t)
  PROVE  ~IsIndex(t)
  <1>1. t = Field(t.field)
    BY DEF IsField
  <1>2. DOMAIN Field(t.field) = {"field"}
    BY DEF Field
  <1>. QED
    BY <1>1, <1>2 DEF IsIndex

LEMMA PathResolved ==
  ASSUME NEW r, NEW steps, steps \in Seq(Range(steps)),
         \A i \in DOMAIN steps : IsField(steps[i]) \/ steps[i] = Index(steps[i].index),
         \A i \in DOMAIN steps : IsIndex(steps[i]) => i = Len(steps)
  PROVE  /\ ResolvePath(r, PathOf(steps)) \subseteq Meant(r, steps)
         /\ Readable(steps) => ResolvePath(r, PathOf(steps)) = Meant(r, steps)
  <1>. DEFINE T == {t \in Range(steps) : IsField(t)}
              U == FieldTokens(T)
  <1>0. /\ Len(steps) \in Nat /\ DOMAIN steps = 1..Len(steps)
        /\ \A i \in 1..Len(steps) : steps[i] \in Range(steps)
    BY SequenceParts
  <1>1. Mark("[") \notin U
    <2>1. Mark("[") # Mark("$") /\ Mark("[") # Mark(".")
      <3>1. Mark("[").mark = "[" /\ Mark("$").mark = "$" /\ Mark(".").mark = "."
        BY DEF Mark
      <3>. QED
        BY <3>1
    <2>2. \A t \in T : Mark("[") \notin Range(t.field)
      BY DEF IsField, IsName
    <2>. QED
      BY <2>1, <2>2 DEF FieldTokens
  <1>2. CASE \A i \in DOMAIN steps : IsField(steps[i])
    <2>1. steps \in Seq(T)
      <3>1. steps \in [1..Len(steps) -> T]
        BY <1>0, <1>2
      <3>. QED
        BY <1>0, <3>1, SeqDef
    <2>2. Walk(r, PathOf(steps)) = Meant(r, steps) /\ PathOf(steps) \in Seq(U)
      BY <2>1, FieldsFollowed
    <2>3. Positions("[", PathOf(steps)) = {}
      <3>. DEFINE path == PathOf(steps)
      <3>. HIDE DEF U, path
      <3>1. path \in Seq(U)
        BY <2>2 DEF path
      <3>2. \A i \in DOMAIN path : path[i] \in U
        BY <3>1, LenProperties, ElementOfSeq
      <3>3. Positions("[", path) = {}
        BY <1>1, <3>2 DEF Positions
      <3>. QED
        BY <3>3 DEF path
    <2>4. ASSUME Readable(steps)
          PROVE  ~OutOfCharacters(PathOf(steps))
      <3>. DEFINE path == PathOf(steps)
      <3>1. ASSUME NEW c \in U
            PROVE  DOMAIN c # {"wide"}
        <4>1. ASSUME NEW t \in T, c \in Range(t.field)
              PROVE  DOMAIN c # {"wide"}
          <5>1. PICK i \in DOMAIN steps : t = steps[i]
            BY DEF Range
          <5>2. IsField(t) /\ \A k \in DOMAIN steps : ~IsIndex(steps[k])
            BY <1>2, FieldNoIndex
          <5>3. IsAscii(t) /\ ~IsIndex(t)
            BY <2>4, <5>1, <5>2 DEF Readable
          <5>. QED
            BY <4>1, <5>3 DEF IsAscii
        <4>2. CASE c = Mark("$") \/ c = Mark(".")
          <5>1. DOMAIN c = {"mark"}
            BY <4>2 DEF Mark
          <5>. QED
            BY <5>1
        <4>. QED
          BY <3>1, <4>1, <4>2 DEF FieldTokens
      <3>. HIDE DEF U, path
      <3>2. path \in Seq(U)
        BY <2>2 DEF path
      <3>3. \A i \in DOMAIN path : path[i] \in U
        BY <3>2, LenProperties, ElementOfSeq
      <3>4. ~OutOfCharacters(path)
        BY <3>1, <3>3 DEF OutOfCharacters, Range
      <3>. QED
        BY <3>4 DEF path
    <2>. QED
      BY <2>2, <2>3, <2>4 DEF ResolvePath
  <1>3. CASE ~\A i \in DOMAIN steps : IsField(steps[i])
    <2>1. PICK i \in DOMAIN steps : ~IsField(steps[i])
      BY <1>3
    <2>2. steps[i] = Index(steps[i].index) /\ IsIndex(steps[i]) /\ i = Len(steps)
      <3>1. steps[i] = Index(steps[i].index)
        BY <2>1
      <3>2. DOMAIN Index(steps[i].index) = {"index"}
        BY DEF Index
      <3>. QED
        BY <3>1, <3>2 DEF IsIndex
    <2>3. steps # <<>>
      BY <2>1
    <2>4. PICK front \in Seq(Range(steps)), last \in Range(steps) : steps = Append(front, last)
      <3>. HIDE DEF T
      <3>. QED
        BY <2>3, SequenceEmptyOrAppend
    <2>5. /\ Len(front) \in Nat /\ Len(steps) = Len(front) + 1
          /\ DOMAIN front = 1..Len(front)
          /\ \A k \in 1..Len(front) : steps[k] = front[k]
          /\ steps[Len(front) + 1] = last
      BY <2>4, LenProperties, AppendProperties
    <2>. DEFINE index == steps[i].index
    <2>6. last = Index(index) /\ DOMAIN last = {"index"}
      BY <2>2, <2>5 DEF IsIndex
    <2>7. front \in Seq(T)
      <3>1. ASSUME NEW k \in 1..Len(front) PROVE front[k] \in T
        <4>1. k \in DOMAIN steps /\ k # Len(steps) /\ front[k] = steps[k]
          BY <1>0, <2>5
        <4>2. ~IsIndex(steps[k])
          BY <4>1
        <4>3. IsField(steps[k])
          <5>1. CASE steps[k] = Index(steps[k].index)
            <6>1. DOMAIN Index(steps[k].index) = {"index"}
              BY DEF Index
            <6>. QED
              BY <4>2, <5>1, <6>1 DEF IsIndex
          <5>. QED
            BY <4>1, <5>1
        <4>. QED
          BY <1>0, <4>1, <4>3
      <3>2. front \in [1..Len(front) -> T]
        <4>1. front \in [1..Len(front) -> Range(steps)]
          BY <2>4, LenProperties
        <4>. HIDE DEF T
        <4>. QED
          BY <3>1, <4>1
      <3>. QED
        BY <2>5, <3>2, SeqDef
    <2>8. Walk(r, PathOf(front)) = Meant(r, front) /\ PathOf(front) \in Seq(U)
      BY <2>7, FieldsFollowed
    <2>9. Written(last) = <<Mark("["), Num(index), Mark("]")>>
      BY <2>6 DEF Written, Index
    <2>10. PathOf(steps) = PathOf(front) \o Written(last)
      <3>. DEFINE V == U \cup {Mark("["), Num(index), Mark("]")}
                  T2 == T \cup {last}
      <3>1. \A t \in T2 : Written(t) \in Seq(V)
        <4>1. ASSUME NEW t \in T PROVE Written(t) \in Seq(V)
          <5>1. Written(t) \in Seq(U)
            BY FieldWritten
          <5>. HIDE DEF U
          <5>. QED
            BY <5>1, SeqMonotonic
        <4>2. Written(last) \in Seq(V)
          BY <2>9
        <4>. QED
          BY <4>1, <4>2
      <3>2. Mark("$") \in V
        BY DEF FieldTokens
      <3>3. front \in Seq(T2) /\ last \in T2
        BY <2>7, SeqMonotonic
      <3>. HIDE DEF V, T2
      <3>. QED
        BY <2>4, <3>1, <3>2, <3>3, PathAppend
    <2>11. ResolvePath(r, PathOf(steps)) = At(Walk(r, PathOf(front)), index)
      <3>. HIDE DEF U
      <3>. QED
        BY <1>1, <2>8, <2>9, <2>10, IndexResolved
    <2>12. Meant(r, steps) = MeantStep(Meant(r, front), last)
      BY <2>4, MeantAppend
    <2>13. MeantStep(Meant(r, front), last) = At(Meant(r, front), index)
      <3>1. DOMAIN last # {"field"} /\ last.index = index
        BY <2>2, <2>5, <2>6
      <3>. QED
        BY <3>1 DEF MeantStep
    <2>. QED
      BY <2>8, <2>11, <2>12, <2>13
  <1>. QED
    BY <1>2, <1>3

\* The selectors a frontend writes, of named fields and at most an index behind
\* them, are walked by resolve_path as they are meant, in whatever was answered;
\* one that has no index, and a name that is not ASCII, may lead to nothing.
THEOREM SelectorsResolved == SelectorsWritable /\ Spec => []PathsFollowed
  <1>. SUFFICES ASSUME SelectorsWritable PROVE Spec => []PathsFollowed
    OBVIOUS
  <1>1. PathsFollowed
    <2>. SUFFICES ASSUME NEW q \in DOMAIN env.answers, NEW steps \in Straight
                  PROVE  LET found == ResolvePath(env.answers[q], PathOf(steps))
                             meant == Meant(env.answers[q], steps)
                         IN  found \subseteq meant /\ (Readable(steps) => found = meant)
      BY Zenon DEF PathsFollowed
    <2>1. steps \in Selectors /\ \A i \in DOMAIN steps : IsIndex(steps[i]) => i = Len(steps)
      BY DEF Straight
    <2>2. /\ steps \in Seq(Range(steps))
          /\ \A i \in DOMAIN steps : IsField(steps[i]) \/ steps[i] = Index(steps[i].index)
      BY <2>1 DEF SelectorsWritable
    <2>. QED
      BY <2>1, <2>2, PathResolved, Zenon
  <1>. QED
    BY <1>1, PTL
=============================================================================
