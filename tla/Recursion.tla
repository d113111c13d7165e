------------------------------ MODULE Recursion ------------------------------
(***************************************************************************)
(* Induction and recursion in first-order form: a property is the set of   *)
(* the values that have it, a step is a function.  The theorems about      *)
(* recursive functions, sums, sorted sequences and folds of the other      *)
(* proof modules rest on these.                                            *)
(***************************************************************************)
EXTENDS Integers, FiniteSets, FiniteSetsExt, SequencesExt, TLAPS, FiniteSetTheorems,
        SequenceTheorems, WellFoundedInduction

----------------------------------------------------------------------------
(* Induction.                                                              *)

Below == {ss \in Nat \X Nat : ss[1] < ss[2]}

\* A non-empty set of natural numbers has a least element.
LEMMA LeastNatural ==
  ASSUME NEW S \in SUBSET Nat, S # {}
  PROVE  \E m \in S : \A k \in S : m <= k
<1>1. Below = OpToRel(<, Nat)
  BY DEF Below, OpToRel
<1>2. IsWellFoundedOn(Below, Nat)
  BY <1>1, NatLessThanWellFounded
<1>3. PICK m \in S : \A k \in S : <<k, m>> \notin Below
  BY <1>2, WFMin
<1>4. \A k \in S : m <= k
  <2> TAKE k \in S
  <2>1. k \in Nat /\ m \in Nat
    OBVIOUS
  <2>2. ~ (k < m)
    BY <1>3, <2>1 DEF Below
  <2> QED
    BY <2>1, <2>2
<1> QED
  BY <1>4

\* A set that holds 0, and with a number below the bound the next one, holds every number
\* up to the bound.
LEMMA UpTo ==
  ASSUME NEW N \in Nat, NEW C, 0 \in C, \A n \in 0 .. N - 1 : n \in C => n + 1 \in C
  PROVE  0 .. N \subseteq C
<1> DEFINE Bad == {n \in 0 .. N : n \notin C}
<1> SUFFICES ASSUME Bad # {} PROVE FALSE
  OBVIOUS
<1>1. PICK m \in Bad : \A k \in Bad : m <= k
  <2>1. Bad \in SUBSET Nat
    OBVIOUS
  <2> HIDE DEF Bad
  <2> QED BY <2>1, LeastNatural
<1>2. m - 1 \in 0 .. N - 1 /\ m - 1 \in C
  BY <1>1
<1>3. m - 1 + 1 \in C
  BY <1>2
<1> QED
  BY <1>2, <1>3

\* A set that holds every subset of D of which it holds all the subsets of one element
\* less, holds all the subsets of the finite set D.
LEMMA SubsetByElement ==
  ASSUME NEW D, IsFiniteSet(D), NEW C,
         \A T \in SUBSET D : (\A x \in T : T \ {x} \in C) => T \in C
  PROVE  SUBSET D \subseteq C
<1> DEFINE K == {n \in Nat : \A T \in SUBSET D : Cardinality(T) = n => T \in C}
<1>1. \A T \in SUBSET D : IsFiniteSet(T) /\ Cardinality(T) \in Nat
                          /\ Cardinality(T) <= Cardinality(D)
  BY FS_Subset, FS_CardinalityType
<1>2. Cardinality(D) \in Nat
  BY FS_CardinalityType
<1>3. 0 \in K
  BY <1>1, FS_EmptySet
<1>4. ASSUME NEW n \in 0 .. Cardinality(D) - 1, n \in K
      PROVE  n + 1 \in K
  <2> SUFFICES ASSUME NEW T \in SUBSET D, Cardinality(T) = n + 1
               PROVE  T \in C
    BY <1>2
  <2>1. ASSUME NEW x \in T
        PROVE  Cardinality(T \ {x}) = n
    <3>1. IsFiniteSet(T)
      BY <1>1
    <3>2. Cardinality(T \ {x}) = Cardinality(T) - 1
      BY <3>1, FS_RemoveElement
    <3> QED BY <1>2, <3>2
  <2> QED
    BY <1>4, <2>1
<1>5. 0 .. Cardinality(D) \subseteq K
  <2> HIDE DEF K
  <2> QED BY <1>2, <1>3, <1>4, UpTo
<1> QED
  BY <1>1, <1>2, <1>5

----------------------------------------------------------------------------
(* Recursion.                                                              *)

\* A recursion over the numbers up to N: a first value, and a step from each value to the
\* next.
StepData(N, V, base, step) == N \in Nat /\ base \in V /\ step \in [1 .. N -> [V -> V]]

IsStepwise(f, N, V, base, step) ==
  /\ f \in [0 .. N -> V]
  /\ f[0] = base
  /\ \A n \in 1 .. N : f[n] = step[n][f[n - 1]]

\* The function it defines exists.
LEMMA StepwiseExists ==
  ASSUME NEW N, NEW V, NEW base, NEW step, StepData(N, V, base, step)
  PROVE  \E f : IsStepwise(f, N, V, base, step)
<1> USE DEF StepData
<1> DEFINE Solves(f, k) ==
             f[0] = base /\ \A n \in 1 .. k : f[n] = step[n][f[n - 1]]
           K == {k \in 0 .. N : \E f \in [0 .. k -> V] : Solves(f, k)}
<1>1. 0 \in K
  <2> DEFINE f == [k \in 0 .. 0 |-> base]
  <2>1. f \in [0 .. 0 -> V] /\ Solves(f, 0)
    OBVIOUS
  <2> HIDE DEF f
  <2> QED
    BY <2>1
<1>2. ASSUME NEW k \in 0 .. N - 1, k \in K
      PROVE  k + 1 \in K
  <2>1. PICK f \in [0 .. k -> V] : Solves(f, k)
    BY <1>2
  <2> DEFINE g == [n \in 0 .. k + 1 |-> IF n <= k THEN f[n] ELSE step[k + 1][f[k]]]
  <2>2. step[k + 1][f[k]] \in V
    OBVIOUS
  <2>3. g \in [0 .. k + 1 -> V]
    BY <2>2
  <2>4. \A n \in 0 .. k : g[n] = f[n]
    OBVIOUS
  <2>5. g[k + 1] = step[k + 1][f[k]]
    OBVIOUS
  <2> HIDE DEF g
  <2>6. Solves(g, k + 1)
    <3>1. g[0] = base
      BY <2>1, <2>4
    <3>2. ASSUME NEW n \in 1 .. k + 1
          PROVE  g[n] = step[n][g[n - 1]]
      <4>1. CASE n = k + 1
        BY <4>1, <2>4, <2>5
      <4>2. CASE n \in 1 .. k
        <5>1. n - 1 \in 0 .. k /\ n \in 0 .. k
          BY <4>2
        <5> QED BY <2>1, <2>4, <4>2, <5>1
      <4> QED
        BY <4>1, <4>2
    <3> QED
      BY <3>1, <3>2
  <2> QED
    BY <2>3, <2>6
<1>3. 0 .. N \subseteq K
  <2> HIDE DEF K
  <2> QED BY <1>1, <1>2, UpTo
<1> QED
  BY <1>3 DEF IsStepwise

\* A recursion over the subsets of a finite set D: a first value for the empty set, and a
\* step that takes one picked element out.
FoldData(D, V, base, pick, step) ==
  /\ IsFiniteSet(D)
  /\ base \in V
  /\ \A S \in SUBSET D : S # {} => pick[S] \in S
  /\ step \in [D -> [V -> V]]

IsFold(f, D, V, base, pick, step) ==
  /\ f \in [SUBSET D -> V]
  /\ \A S \in SUBSET D : f[S] = IF S = {} THEN base ELSE step[pick[S]][f[S \ {pick[S]}]]

\* The function it defines exists.
LEMMA FoldExists ==
  ASSUME NEW D, NEW V, NEW base, NEW pick, NEW step, FoldData(D, V, base, pick, step)
  PROVE  \E f : IsFold(f, D, V, base, pick, step)
<1> USE DEF FoldData
<1> DEFINE Small(n) == {S \in SUBSET D : Cardinality(S) <= n}
           Solves(f, n) ==
             \A S \in Small(n) :
               f[S] = IF S = {} THEN base ELSE step[pick[S]][f[S \ {pick[S]}]]
           K == {n \in 0 .. Cardinality(D) : \E f \in [Small(n) -> V] : Solves(f, n)}
<1>1. \A S \in SUBSET D : IsFiniteSet(S) /\ Cardinality(S) \in Nat
                          /\ Cardinality(S) <= Cardinality(D)
  BY FS_Subset, FS_CardinalityType
<1>2. Cardinality(D) \in Nat
  BY FS_CardinalityType
<1>3. 0 \in K
  <2> DEFINE f == [S \in Small(0) |-> base]
  <2>1. \A S \in Small(0) : S = {}
    BY <1>1, FS_EmptySet
  <2>2. f \in [Small(0) -> V]
    OBVIOUS
  <2>3. Solves(f, 0)
    BY <2>1
  <2> HIDE DEF f, Solves, Small
  <2> QED
    BY <1>2, <2>2, <2>3
<1>4. ASSUME NEW n \in 0 .. Cardinality(D) - 1, n \in K
      PROVE  n + 1 \in K
  <2>1. PICK f \in [Small(n) -> V] : Solves(f, n)
    BY <1>4
  <2> DEFINE g == [S \in Small(n + 1) |->
                     IF S \in Small(n) THEN f[S] ELSE step[pick[S]][f[S \ {pick[S]}]]]
  <2>2. ASSUME NEW S \in Small(n + 1), S # {}
        PROVE  /\ pick[S] \in S /\ pick[S] \in D
               /\ S \ {pick[S]} \in Small(n)
    <3>1. pick[S] \in S /\ pick[S] \in D
      BY <2>2
    <3>2. Cardinality(S \ {pick[S]}) = Cardinality(S) - 1
      BY <1>1, <3>1, FS_RemoveElement
    <3> QED
      BY <1>1, <3>1, <3>2
  <2>3. {} \in Small(n)
    BY FS_EmptySet
  <2>4. Small(n) \subseteq Small(n + 1)
    BY <1>1
  <2> HIDE DEF Small
  <2>5. g \in [Small(n + 1) -> V]
    <3> SUFFICES ASSUME NEW S \in Small(n + 1), S \notin Small(n)
                 PROVE  step[pick[S]][f[S \ {pick[S]}]] \in V
      OBVIOUS
    <3>1. pick[S] \in D /\ S \ {pick[S]} \in Small(n)
      BY <2>2, <2>3
    <3> QED
      BY <3>1
  <2>6. \A S \in Small(n) : g[S] = f[S]
    BY <2>4
  <2>7. \A S \in Small(n + 1) : S \notin Small(n) => g[S] = step[pick[S]][f[S \ {pick[S]}]]
    OBVIOUS
  <2> HIDE DEF g
  <2>8. Solves(g, n + 1)
    <3> SUFFICES ASSUME NEW S \in Small(n + 1)
                 PROVE  g[S] = IF S = {} THEN base ELSE step[pick[S]][g[S \ {pick[S]}]]
      OBVIOUS
    <3>1. CASE S \in Small(n)
      BY <2>1, <2>2, <2>6, <3>1
    <3>2. CASE S \notin Small(n)
      BY <2>2, <2>3, <2>6, <2>7, <3>2
    <3> QED
      BY <3>1, <3>2
  <2> HIDE DEF Solves
  <2> QED
    BY <1>2, <2>5, <2>8
<1>5. 0 .. Cardinality(D) \subseteq K
  <2> HIDE DEF K
  <2> QED BY <1>2, <1>3, <1>4, UpTo
<1>6. PICK f \in [Small(Cardinality(D)) -> V] : Solves(f, Cardinality(D))
  <2> HIDE DEF Small, Solves
  <2> QED BY <1>2, <1>5
<1>7. Small(Cardinality(D)) = SUBSET D
  BY <1>1
<1> QED
  BY <1>6, <1>7 DEF IsFold

----------------------------------------------------------------------------
(* Sums.                                                                   *)

\* The sum of f over a set.
Sum(f, S) == MapThenSumSet(LAMBDA x : f[x], S)

SumPick(S) == [s \in SUBSET S |-> CHOOSE x \in s : TRUE]
SumStep(f, S) == [x \in S |-> [v \in Int |-> f[x] + v]]
IsSum(g, f, S) ==
  g = [s \in SUBSET S |-> IF s = {} THEN 0
                          ELSE f[CHOOSE x \in s : TRUE] + g[s \ {CHOOSE x \in s : TRUE}]]

LEMMA SumExists ==
  ASSUME NEW S, IsFiniteSet(S), NEW f, \A x \in S : f[x] \in Int
  PROVE  \E g : IsSum(g, f, S) /\ g \in [SUBSET S -> Int]
<1> DEFINE pick == SumPick(S)
           step == SumStep(f, S)
<1>1. \A s \in SUBSET S : s # {} => pick[s] \in s
  BY DEF SumPick
<1>2. step \in [S -> [Int -> Int]]
  BY DEF SumStep
<1>3. PICK g : IsFold(g, S, Int, 0, pick, step)
  <2>1. FoldData(S, Int, 0, pick, step)
    BY <1>1, <1>2 DEF FoldData
  <2> HIDE DEF pick, step
  <2> QED BY <2>1, FoldExists
<1>4. ASSUME NEW s \in SUBSET S
      PROVE  g[s] = IF s = {} THEN 0 ELSE f[pick[s]] + g[s \ {pick[s]}]
  <2>1. CASE s = {}
    BY <1>3, <2>1 DEF IsFold
  <2>2. CASE s # {}
    <3>1. pick[s] \in S /\ g[s \ {pick[s]}] \in Int
      BY <1>1, <1>3, <2>2 DEF IsFold
    <3>2. g[s] = step[pick[s]][g[s \ {pick[s]}]]
      BY <1>3, <2>2 DEF IsFold
    <3> HIDE DEF pick
    <3> QED BY <2>2, <3>1, <3>2 DEF SumStep
  <2> QED
    BY <2>1, <2>2
<1> QED
  BY <1>3, <1>4 DEF IsSum, IsFold, SumPick

LEMMA SumDef ==
  ASSUME NEW S, IsFiniteSet(S), NEW f, \A x \in S : f[x] \in Int
  PROVE  \E g : IsSum(g, f, S) /\ Sum(f, S) = g[S]
<1> DEFINE g == CHOOSE g : IsSum(g, f, S)
<1>1. Sum(f, S) = g[S]
  BY DEF Sum, MapThenSumSet, MapThenFoldSet, IsSum
<1>2. IsSum(g, f, S)
  BY SumExists
<1> QED
  BY <1>1, <1>2

\* One element may be taken out of the sum, whichever it is.
LEMMA SumTakesOut ==
  ASSUME NEW S, IsFiniteSet(S), NEW f, \A x \in S : f[x] \in Int, NEW g, IsSum(g, f, S)
  PROVE  /\ g[{}] = 0
         /\ \A T \in SUBSET S : g[T] \in Int
         /\ \A T \in SUBSET S : \A x \in T : g[T] = f[x] + g[T \ {x}]
<1> DEFINE first(T) == CHOOSE x \in T : TRUE
           Typed == {T \in SUBSET S : g[T] \in Int}
           Freed == {T \in SUBSET S : \A x \in T : g[T] = f[x] + g[T \ {x}]}
<1>1. g[{}] = 0
  BY DEF IsSum
<1>2. ASSUME NEW T \in SUBSET S, T # {}
      PROVE  \E c \in T : g[T] = f[c] + g[T \ {c}]
  <2>1. first(T) \in T /\ g[T] = f[first(T)] + g[T \ {first(T)}]
    BY <1>2 DEF IsSum
  <2> QED
    BY <2>1
<1>3. ASSUME NEW T \in SUBSET S, \A x \in T : T \ {x} \in Typed
      PROVE  T \in Typed
  <2>1. CASE T = {}
    BY <1>1, <2>1
  <2>2. CASE T # {}
    <3>1. PICK c \in T : g[T] = f[c] + g[T \ {c}]
      BY <1>2, <2>2
    <3>2. f[c] \in Int /\ g[T \ {c}] \in Int
      BY <1>3
    <3> QED BY <3>1, <3>2
  <2> QED
    BY <2>1, <2>2
<1>4. SUBSET S \subseteq Typed
  <2> HIDE DEF Typed
  <2> QED BY <1>3, SubsetByElement
<1>5. \A T \in SUBSET S : g[T] \in Int
  BY <1>4
<1>6. ASSUME NEW T \in SUBSET S, \A x \in T : T \ {x} \in Freed
      PROVE  T \in Freed
  <2> SUFFICES ASSUME NEW x \in T
               PROVE  g[T] = f[x] + g[T \ {x}]
    OBVIOUS
  <2>1. PICK c \in T : g[T] = f[c] + g[T \ {c}]
    BY <1>2
  <2> HIDE DEF first
  <2>2. CASE x = c
    BY <2>1, <2>2
  <2>3. CASE x # c
    <3>1. x \in T \ {c} /\ c \in T \ {x} /\ (T \ {c}) \ {x} = (T \ {x}) \ {c}
      BY <2>3
    <3> DEFINE rest == g[(T \ {c}) \ {x}]
    <3>2. g[T \ {c}] = f[x] + rest
      BY <1>6, <3>1
    <3>3. g[T \ {x}] = f[c] + rest
      BY <1>6, <3>1
    <3>4. f[x] \in Int /\ f[c] \in Int /\ rest \in Int
      BY <1>5
    <3>5. g[T] = f[c] + (f[x] + rest)
      BY <2>1, <3>2
    <3> HIDE DEF rest
    <3>6. f[c] + (f[x] + rest) = f[x] + (f[c] + rest)
      BY <3>4
    <3> QED
      BY <3>3, <3>5, <3>6
  <2> QED
    BY <2>2, <2>3
<1>7. SUBSET S \subseteq Freed
  <2> HIDE DEF Freed
  <2> QED BY <1>6, SubsetByElement
<1> QED
  BY <1>1, <1>5, <1>7

\* Whatever solves the recursion gives the sum.
LEMMA SumUnique ==
  ASSUME NEW S, IsFiniteSet(S), NEW f, \A x \in S : f[x] \in Int, NEW g, IsSum(g, f, S),
         NEW R \in SUBSET S
  PROVE  g[R] = Sum(f, R)
<1>1. /\ g[{}] = 0
      /\ \A T \in SUBSET S : \A y \in T : g[T] = f[y] + g[T \ {y}]
  BY SumTakesOut
<1>2. IsFiniteSet(R) /\ R \subseteq S
  BY FS_Subset
<1>3. PICK h : IsSum(h, f, R) /\ Sum(f, R) = h[R]
  BY <1>2, SumDef
<1>4. /\ h[{}] = 0
      /\ \A T \in SUBSET R : \A y \in T : h[T] = f[y] + h[T \ {y}]
  BY <1>2, <1>3, SumTakesOut
<1> DEFINE C == {T \in SUBSET R : h[T] = g[T]}
<1>5. ASSUME NEW T \in SUBSET R, \A y \in T : T \ {y} \in C
      PROVE  T \in C
  <2>1. CASE T = {}
    BY <1>1, <1>4, <2>1
  <2>2. CASE T # {}
    <3>1. PICK y \in T : TRUE
      BY <2>2
    <3>2. h[T] = f[y] + h[T \ {y}] /\ g[T] = f[y] + g[T \ {y}]
      BY <1>1, <1>2, <1>4
    <3> QED BY <1>5, <3>1, <3>2
  <2> QED
    BY <2>1, <2>2
<1>6. SUBSET R \subseteq C
  <2> HIDE DEF C
  <2> QED BY <1>2, <1>5, SubsetByElement
<1> QED
  BY <1>3, <1>6

\* The sum over a set, over the empty set, and over one element less.
LEMMA SumRules ==
  ASSUME NEW S, IsFiniteSet(S), NEW f, \A x \in S : f[x] \in Int
  PROVE  /\ Sum(f, S) \in Int
         /\ S = {} => Sum(f, S) = 0
         /\ \A x \in S : Sum(f, S) = f[x] + Sum(f, S \ {x})
<1>1. PICK g : IsSum(g, f, S) /\ Sum(f, S) = g[S]
  BY SumDef
<1>2. /\ g[{}] = 0
      /\ \A T \in SUBSET S : g[T] \in Int
      /\ \A T \in SUBSET S : \A x \in T : g[T] = f[x] + g[T \ {x}]
  BY <1>1, SumTakesOut
<1>3. \A x \in S : Sum(f, S \ {x}) = g[S \ {x}]
  BY <1>1, SumUnique
<1> QED
  BY <1>1, <1>2, <1>3

\* A sum depends on the values over the set alone.
LEMMA SumCongruent ==
  ASSUME NEW S, IsFiniteSet(S), NEW f, NEW h, \A x \in S : f[x] \in Int /\ h[x] = f[x]
  PROVE  Sum(h, S) = Sum(f, S)
<1> DEFINE C == {T \in SUBSET S : Sum(h, T) = Sum(f, T)}
<1>1. ASSUME NEW T \in SUBSET S, \A y \in T : T \ {y} \in C
      PROVE  T \in C
  <2>1. IsFiniteSet(T) /\ \A x \in T : f[x] \in Int /\ h[x] \in Int
    BY FS_Subset
  <2>2. CASE T = {}
    BY <2>1, <2>2, SumRules
  <2>3. CASE T # {}
    <3>1. PICK y \in T : TRUE
      BY <2>3
    <3>2. Sum(f, T) = f[y] + Sum(f, T \ {y})
      BY <2>1, SumRules
    <3>3. Sum(h, T) = h[y] + Sum(h, T \ {y})
      BY <2>1, SumRules
    <3> QED BY <1>1, <3>2, <3>3
  <2> QED
    BY <2>2, <2>3
<1>2. SUBSET S \subseteq C
  <2> HIDE DEF C
  <2> QED BY <1>1, SubsetByElement
<1> QED
  BY <1>2

\* A sum of natural numbers is one.
LEMMA SumNat ==
  ASSUME NEW S, IsFiniteSet(S), NEW f, \A x \in S : f[x] \in Nat
  PROVE  Sum(f, S) \in Nat
<1> DEFINE C == {T \in SUBSET S : Sum(f, T) \in Nat}
<1>1. ASSUME NEW T \in SUBSET S, \A y \in T : T \ {y} \in C
      PROVE  T \in C
  <2>1. IsFiniteSet(T) /\ \A x \in T : f[x] \in Int
    BY FS_Subset
  <2>2. CASE T = {}
    BY <2>1, <2>2, SumRules
  <2>3. CASE T # {}
    <3>1. PICK y \in T : TRUE
      BY <2>3
    <3>2. Sum(f, T) = f[y] + Sum(f, T \ {y})
      BY <2>1, SumRules
    <3> QED BY <1>1, <3>2
  <2> QED
    BY <2>2, <2>3
<1>2. SUBSET S \subseteq C
  <2> HIDE DEF C
  <2> QED BY <1>1, SubsetByElement
<1> QED
  BY <1>2

\* A sum of smaller values is no larger.
LEMMA SumMonotonic ==
  ASSUME NEW S, IsFiniteSet(S), NEW f, NEW h,
         \A x \in S : f[x] \in Int /\ h[x] \in Int /\ h[x] <= f[x]
  PROVE  Sum(h, S) <= Sum(f, S)
<1> DEFINE C == {T \in SUBSET S : Sum(h, T) <= Sum(f, T)}
<1>1. ASSUME NEW T \in SUBSET S, \A y \in T : T \ {y} \in C
      PROVE  T \in C
  <2>1. IsFiniteSet(T) /\ \A x \in T : f[x] \in Int /\ h[x] \in Int
    BY FS_Subset
  <2>2. CASE T = {}
    BY <2>1, <2>2, SumRules
  <2>3. CASE T # {}
    <3>1. PICK y \in T : TRUE
      BY <2>3
    <3> DEFINE R == T \ {y}
    <3>2. IsFiniteSet(R) /\ \A x \in R : f[x] \in Int /\ h[x] \in Int
      BY <2>1, FS_Subset
    <3>3. Sum(f, T) = f[y] + Sum(f, R) /\ Sum(h, T) = h[y] + Sum(h, R)
      BY <2>1, SumRules
    <3>4. Sum(h, R) <= Sum(f, R) /\ h[y] <= f[y] /\ f[y] \in Int /\ h[y] \in Int
      BY <1>1
    <3> HIDE DEF R
    <3>5. Sum(f, R) \in Int /\ Sum(h, R) \in Int
      BY <3>2, SumRules
    <3> QED BY <3>3, <3>4, <3>5
  <2> QED
    BY <2>2, <2>3
<1>2. SUBSET S \subseteq C
  <2> HIDE DEF C
  <2> QED BY <1>1, SubsetByElement
<1> QED
  BY <1>2

\* A value raised by one raises the sum by one.
LEMMA SumOneMore ==
  ASSUME NEW S, IsFiniteSet(S), NEW f, NEW h, NEW y \in S,
         \A x \in S : f[x] \in Int /\ h[x] \in Int,
         \A x \in S \ {y} : h[x] = f[x],
         h[y] = f[y] + 1
  PROVE  Sum(h, S) = Sum(f, S) + 1
<1> DEFINE R == S \ {y}
<1>1. Sum(f, S) = f[y] + Sum(f, R) /\ Sum(h, S) = h[y] + Sum(h, R)
  BY SumRules
<1>2. IsFiniteSet(R) /\ \A x \in R : f[x] \in Int /\ h[x] = f[x]
  BY FS_Subset
<1> HIDE DEF R
<1>3. Sum(h, R) = Sum(f, R) /\ Sum(f, R) \in Int
  BY <1>2, SumCongruent, SumRules
<1> QED
  BY <1>1, <1>3

\* A sum of zeros is zero.
LEMMA SumOfZeros ==
  ASSUME NEW S, IsFiniteSet(S), NEW f, \A x \in S : f[x] \in Int /\ f[x] = 0
  PROVE  Sum(f, S) = 0
<1> DEFINE C == {T \in SUBSET S : Sum(f, T) = 0}
<1>1. ASSUME NEW T \in SUBSET S, \A y \in T : T \ {y} \in C
      PROVE  T \in C
  <2>1. IsFiniteSet(T) /\ \A x \in T : f[x] \in Int
    BY FS_Subset
  <2>2. CASE T = {}
    BY <2>1, <2>2, SumRules
  <2>3. CASE T # {}
    <3>1. PICK y \in T : TRUE
      BY <2>3
    <3>2. Sum(f, T) = f[y] + Sum(f, T \ {y})
      BY <2>1, SumRules
    <3> QED BY <1>1, <3>2
  <2> QED
    BY <2>2, <2>3
<1>2. SUBSET S \subseteq C
  <2> HIDE DEF C
  <2> QED BY <1>1, SubsetByElement
<1> QED
  BY <1>2

----------------------------------------------------------------------------
(* Sorting: a finite set whose members a relation orders has just one      *)
(* sequence in that order.                                                 *)

\* R orders the members of S, each before another or after it.
Orders(R, S) ==
  /\ \A x \in S : <<x, x>> \notin R
  /\ \A x, y \in S : x # y => <<x, y>> \in R \/ <<y, x>> \in R
  /\ \A x, y, z \in S : <<x, y>> \in R /\ <<y, z>> \in R => <<x, z>> \in R

InOrder(s, R) == \A i, j \in DOMAIN s : i < j => <<s[i], s[j]>> \in R

\* A non-empty finite set has a last member.
LEMMA LastOf ==
  ASSUME NEW S, IsFiniteSet(S), NEW R, Orders(R, S), S # {}
  PROVE  \E m \in S : \A x \in S \ {m} : <<x, m>> \in R
<1> DEFINE HasLast(T) == \E m \in T : \A x \in T \ {m} : <<x, m>> \in R
           C == {T \in SUBSET S : T = {} \/ HasLast(T)}
<1>1. ASSUME NEW T \in SUBSET S, \A x \in T : T \ {x} \in C
      PROVE  T \in C
  <2>1. CASE T = {}
    BY <2>1
  <2>2. ASSUME NEW y \in T, T \ {y} = {}
        PROVE  HasLast(T)
    BY <2>2
  <2>3. ASSUME NEW y \in T, HasLast(T \ {y})
        PROVE  HasLast(T)
    <3>1. PICK m \in T \ {y} : \A x \in (T \ {y}) \ {m} : <<x, m>> \in R
      BY <2>3
    <3>2. CASE <<y, m>> \in R
      BY <3>1, <3>2
    <3>3. CASE <<m, y>> \in R
      <4>1. \A x \in T \ {y} : <<x, y>> \in R
        BY <3>1, <3>3 DEF Orders
      <4> QED BY <4>1
    <3> QED BY <3>1, <3>2, <3>3 DEF Orders
  <2> QED
    <3> HIDE DEF HasLast
    <3> QED BY <1>1, <2>1, <2>2, <2>3
<1>2. S \in C
  <2> HIDE DEF C
  <2> QED BY <1>1, SubsetByElement
<1> QED
  BY <1>2

\* Its members can be put in order.
LEMMA SortedExists ==
  ASSUME NEW S, IsFiniteSet(S), NEW R, Orders(R, S)
  PROVE  \E s \in SetToSeqs(S) : InOrder(s, R)
<1> DEFINE C == {T \in SUBSET S : \E s \in SetToSeqs(T) : InOrder(s, R)}
<1>1. ASSUME NEW T \in SUBSET S, \A x \in T : T \ {x} \in C
      PROVE  T \in C
  <2>0. IsFiniteSet(T)
    BY FS_Subset
  <2>1. CASE T = {}
    <3> DEFINE s == [i \in 1 .. 0 |-> 0]
    <3>1. s \in SetToSeqs(T)
      BY <2>1, FS_EmptySet DEF SetToSeqs
    <3> QED BY <3>1 DEF InOrder
  <2>2. CASE T # {}
    <3>1. PICK m \in T : \A x \in T \ {m} : <<x, m>> \in R
      <4>1. Orders(R, T)
        BY DEF Orders
      <4> QED BY <2>0, <2>2, <4>1, LastOf
    <3>2. PICK s \in SetToSeqs(T \ {m}) : InOrder(s, R)
      BY <1>1
    <3> DEFINE n == Cardinality(T)
               u == [i \in 1 .. n |-> IF i = n THEN m ELSE s[i]]
    <3>3. n \in Nat /\ n >= 1 /\ Cardinality(T \ {m}) = n - 1
      BY <2>0, FS_RemoveElement, FS_CardinalityType, FS_EmptySet
    <3>4. /\ DOMAIN s = 1 .. n - 1 /\ \A i \in 1 .. n - 1 : s[i] \in T \ {m}
          /\ \A i, j \in 1 .. n - 1 : i # j => s[i] # s[j]
      BY <3>2, <3>3 DEF SetToSeqs
    <3>5. \A i \in 1 .. n : i # n => i \in 1 .. n - 1
      BY <3>3
    <3>6. n \in 1 .. n
      BY <3>3
    <3> HIDE DEF n
    <3>7. u \in [1 .. n -> T] /\ \A i, j \in 1 .. n : i # j => u[i] # u[j]
      BY <3>4, <3>5
    <3>8. u \in SetToSeqs(T)
      BY <3>7 DEF SetToSeqs, n
    <3>9. InOrder(u, R)
      <4> SUFFICES ASSUME NEW i \in 1 .. n, NEW j \in 1 .. n, i < j
                   PROVE  <<u[i], u[j]>> \in R
        BY <3>7 DEF InOrder
      <4>1. i # n
        BY <3>3
      <4>2. CASE j = n
        BY <3>1, <3>4, <3>5, <4>1, <4>2
      <4>3. CASE j # n
        BY <3>2, <3>4, <3>5, <4>1, <4>3 DEF InOrder
      <4> QED BY <4>2, <4>3
    <3> QED BY <3>8, <3>9
  <2> QED BY <2>1, <2>2
<1>2. S \in C
  <2> HIDE DEF C
  <2> QED BY <1>1, SubsetByElement
<1> QED
  BY <1>2

\* A sequence of a finite set's members, each once, has all of them.
LEMMA SeqsAreOnto ==
  ASSUME NEW S, IsFiniteSet(S), NEW s \in SetToSeqs(S)
  PROVE  /\ Cardinality(S) \in Nat /\ s \in [1 .. Cardinality(S) -> S]
         /\ DOMAIN s = 1 .. Cardinality(S)
         /\ \A i, j \in DOMAIN s : i # j => s[i] # s[j]
         /\ \A x \in S : \E i \in DOMAIN s : s[i] = x
<1> DEFINE n == Cardinality(S)
<1>1. n \in Nat
  BY FS_CardinalityType
<1>2. s \in [1 .. n -> S] /\ \A i, j \in 1 .. n : i # j => s[i] # s[j]
  BY DEF SetToSeqs
<1> HIDE DEF n
<1>3. s \in Injection(1 .. n, S)
  BY <1>2 DEF Injection, IsInjective
<1>4. Cardinality(1 .. n) = n
  BY <1>1, FS_Interval
<1>5. s \in Surjection(1 .. n, S)
  BY <1>3, <1>4, FS_Injection DEF n
<1> QED
  BY <1>1, <1>2, <1>5 DEF Surjection, n

\* A map of 1 .. n into itself that keeps the order maps nothing below itself.
LEMMA OrderKeepingRises ==
  ASSUME NEW n \in Nat, NEW g \in [1 .. n -> 1 .. n],
         \A i, j \in 1 .. n : i < j => g[i] < g[j]
  PROVE  \A i \in 1 .. n : g[i] >= i
<1> DEFINE C == {k \in 0 .. n : k = 0 \/ g[k] >= k}
<1>1. 0 \in C
  OBVIOUS
<1>2. ASSUME NEW k \in 0 .. n - 1, k \in C
      PROVE  k + 1 \in C
  <2>1. k + 1 \in 1 .. n /\ g[k + 1] \in 1 .. n
    OBVIOUS
  <2>2. CASE k = 0
    BY <2>1, <2>2
  <2>3. CASE k # 0
    <3>1. k \in 1 .. n /\ g[k] \in 1 .. n /\ g[k] < g[k + 1] /\ g[k] >= k
      BY <1>2, <2>1, <2>3
    <3> QED BY <2>1, <3>1
  <2> QED BY <2>2, <2>3
<1>3. 0 .. n \subseteq C
  <2> HIDE DEF C
  <2> QED BY <1>1, <1>2, UpTo
<1> QED
  BY <1>3

\* Two sequences with the same members, both in order, are the same.
LEMMA SortedUnique ==
  ASSUME NEW n \in Nat, NEW S, NEW R, Orders(R, S),
         NEW a \in [1 .. n -> S], NEW b \in [1 .. n -> S], InOrder(a, R), InOrder(b, R),
         \A i \in 1 .. n : \E j \in 1 .. n : b[j] = a[i],
         \A i \in 1 .. n : \E j \in 1 .. n : a[j] = b[i]
  PROVE  a = b
<1> DEFINE g == [i \in 1 .. n |-> CHOOSE j \in 1 .. n : b[j] = a[i]]
           h == [i \in 1 .. n |-> CHOOSE j \in 1 .. n : a[j] = b[i]]
<1>1. g \in [1 .. n -> 1 .. n] /\ \A i \in 1 .. n : b[g[i]] = a[i]
  OBVIOUS
<1>2. h \in [1 .. n -> 1 .. n] /\ \A i \in 1 .. n : a[h[i]] = b[i]
  OBVIOUS
<1> HIDE DEF g, h
<1>3. ASSUME NEW c \in [1 .. n -> S], InOrder(c, R), NEW i \in 1 .. n, NEW j \in 1 .. n,
             <<c[i], c[j]>> \in R
      PROVE  i < j
  <2>1. ~ (j < i)
    <3>1. j < i => <<c[j], c[i]>> \in R
      BY <1>3 DEF InOrder
    <3> QED BY <1>3, <3>1 DEF Orders
  <2>2. i # j
    BY <1>3 DEF Orders
  <2> QED BY <2>1, <2>2
<1>4. \A i, j \in 1 .. n : i < j => g[i] < g[j]
  <2> SUFFICES ASSUME NEW i \in 1 .. n, NEW j \in 1 .. n, i < j PROVE g[i] < g[j]
    OBVIOUS
  <2>1. <<b[g[i]], b[g[j]]>> \in R
    <3>1. <<a[i], a[j]>> \in R
      BY DEF InOrder
    <3> QED BY <1>1, <3>1
  <2>2. g[i] \in 1 .. n /\ g[j] \in 1 .. n
    BY <1>1
  <2> QED BY <1>3, <2>1, <2>2
<1>5. \A i, j \in 1 .. n : i < j => h[i] < h[j]
  <2> SUFFICES ASSUME NEW i \in 1 .. n, NEW j \in 1 .. n, i < j PROVE h[i] < h[j]
    OBVIOUS
  <2>1. <<a[h[i]], a[h[j]]>> \in R
    <3>1. <<b[i], b[j]>> \in R
      BY DEF InOrder
    <3> QED BY <1>2, <3>1
  <2>2. h[i] \in 1 .. n /\ h[j] \in 1 .. n
    BY <1>2
  <2> QED BY <1>3, <2>1, <2>2
<1>6. (\A i \in 1 .. n : g[i] >= i) /\ (\A i \in 1 .. n : h[i] >= i)
  BY <1>1, <1>2, <1>4, <1>5, OrderKeepingRises
<1>7. ASSUME NEW i \in 1 .. n
      PROVE  a[i] = b[i]
  <2>1. g[i] \in 1 .. n /\ h[g[i]] \in 1 .. n
    BY <1>1, <1>2
  <2>2. a[h[g[i]]] = a[i]
    BY <1>1, <1>2, <2>1
  <2>3. h[g[i]] = i
    <3>1. \A k, l \in 1 .. n : k < l => a[k] # a[l]
      BY DEF InOrder, Orders
    <3> DEFINE k == h[g[i]]
    <3> HIDE DEF k
    <3>2. k \in 1 .. n /\ a[k] = a[i]
      BY <2>1, <2>2 DEF k
    <3>3. k = i
      BY <3>1, <3>2
    <3> QED BY <3>3 DEF k
  <2>4. g[i] = i
    <3> DEFINE k == g[i]
    <3> HIDE DEF k
    <3>1. k \in 1 .. n /\ k >= i /\ h[k] = i /\ h[k] >= k
      BY <1>6, <2>1, <2>3 DEF k
    <3>2. k = i
      BY <3>1
    <3> QED BY <3>2 DEF k
  <2> QED BY <1>1, <2>4
<1> QED
  BY <1>7

\* The greatest number of a finite set is one of its members.
LEMMA MaxIs ==
  ASSUME NEW S \in SUBSET Nat, IsFiniteSet(S), S # {}
  PROVE  Max(S) \in S /\ \A x \in S : x <= Max(S)
<1> DEFINE R == {p \in S \X S : p[1] < p[2]}
<1>1. \A x, y \in S : <<x, y>> \in R <=> x < y
  OBVIOUS
<1> HIDE DEF R
<1>2. Orders(R, S)
  BY <1>1 DEF Orders
<1>3. PICK m \in S : \A x \in S \ {m} : <<x, m>> \in R
  BY <1>2, LastOf
<1>4. ASSUME NEW x \in S PROVE m >= x
  <2>1. x \in Nat /\ m \in Nat
    OBVIOUS
  <2>2. CASE x # m
    <3>1. x < m
      BY <1>1, <1>3, <2>2
    <3> QED BY <2>1, <3>1
  <2> QED BY <2>1, <2>2
<1> QED
  BY <1>4 DEF Max

----------------------------------------------------------------------------
(* Folds over sequences, which go from the first member to the last.       *)

\* A fold over a sequence of length n, as a fold over the places 1 .. n, the greatest first.
FoldPick(n) == [S \in SUBSET (1 .. n) |-> Max(S)]

LEMMA FoldPicks ==
  ASSUME NEW n \in Nat, NEW S \in SUBSET (1 .. n), S # {}
  PROVE  FoldPick(n)[S] = Max(S) /\ Max(S) \in S
<1>1. IsFiniteSet(1 .. n) /\ 1 .. n \in SUBSET Nat
  BY FS_Interval
<1>2. IsFiniteSet(S) /\ S \in SUBSET Nat
  BY <1>1, FS_Subset
<1> QED BY <1>2, MaxIs DEF FoldPick

LEMMA UpToPicks ==
  ASSUME NEW n \in Nat, NEW k \in 1 .. n
  PROVE  /\ 1 .. k \in SUBSET (1 .. n) /\ 1 .. k # {}
         /\ Max(1 .. k) = k /\ (1 .. k) \ {k} = 1 .. k - 1
<1>1. IsFiniteSet(1 .. k) /\ 1 .. k \in SUBSET Nat
  BY FS_Interval
<1>2. k \in 1 .. k
  OBVIOUS
<1>3. Max(1 .. k) \in 1 .. k /\ k <= Max(1 .. k)
  BY <1>1, <1>2, MaxIs
<1> QED BY <1>2, <1>3

\* f[k] is what a fold has after k members.
IsRunOf(f, n, V, base, step) ==
  /\ f \in [0 .. n -> V]
  /\ f[0] = base
  /\ \A k \in 1 .. n : f[k] = step[k][f[k - 1]]

FoldStart(n, V, base, step) == n \in Nat /\ base \in V /\ step \in [1 .. n -> [V -> V]]

SolvesFold(g, n, V, base, step) ==
  /\ g[{}] = base
  /\ \A S \in SUBSET (1 .. n) :
       S # {} /\ g[S \ {Max(S)}] \in V => g[S] = step[Max(S)][g[S \ {Max(S)}]]

\* The recursion of such a fold, the greatest place first, has a solution.
LEMMA FoldHasSolution ==
  ASSUME NEW n, NEW V, NEW base, NEW step, FoldStart(n, V, base, step)
  PROVE  \E g \in [SUBSET (1 .. n) -> V] : SolvesFold(g, n, V, base, step)
<1> USE DEF FoldStart
<1>1. FoldData(1 .. n, V, base, FoldPick(n), step)
  <2>1. IsFiniteSet(1 .. n)
    BY FS_Interval
  <2>2. \A S \in SUBSET (1 .. n) : S # {} => FoldPick(n)[S] \in S
    BY FoldPicks
  <2> QED BY <2>1, <2>2 DEF FoldData
<1>2. PICK g : IsFold(g, 1 .. n, V, base, FoldPick(n), step)
  BY <1>1, FoldExists
<1>3. g \in [SUBSET (1 .. n) -> V]
  BY <1>2 DEF IsFold
<1>4. ASSUME NEW S \in SUBSET (1 .. n), S # {}
      PROVE  g[S] = step[Max(S)][g[S \ {Max(S)}]]
  <2>1. FoldPick(n)[S] = Max(S) /\ Max(S) \in S
    BY <1>4, FoldPicks
  <2> QED BY <1>2, <1>3, <1>4, <2>1 DEF IsFold
<1> QED
  BY <1>2, <1>3, <1>4 DEF IsFold, SolvesFold

\* Every solution of it runs through the sequence.
LEMMA FoldRuns ==
  ASSUME NEW n, NEW V, NEW base, NEW step, FoldStart(n, V, base, step),
         NEW w, SolvesFold(w, n, V, base, step)
  PROVE  \E f : IsRunOf(f, n, V, base, step) /\ f[n] = w[1 .. n]
<1> USE DEF FoldStart
<1> DEFINE f == [k \in 0 .. n |-> w[1 .. k]]
           C == {k \in 0 .. n : f[k] \in V}
<1>1. f[0] = base /\ 0 \in C
  <2>1. 1 .. 0 = {} /\ 0 \in 0 .. n
    OBVIOUS
  <2>2. f[0] = w[{}]
    BY <2>1
  <2> QED BY <2>1, <2>2 DEF SolvesFold
<1>2. ASSUME NEW k \in 1 .. n, f[k - 1] \in V
      PROVE  f[k] = step[k][f[k - 1]] /\ f[k] \in V
  <2>1. k \in 0 .. n /\ k - 1 \in 0 .. n
    OBVIOUS
  <2>2. f[k] = w[1 .. k] /\ f[k - 1] = w[1 .. k - 1]
    BY <2>1
  <2>3. /\ 1 .. k \in SUBSET (1 .. n) /\ 1 .. k # {}
        /\ Max(1 .. k) = k /\ (1 .. k) \ {k} = 1 .. k - 1
    BY UpToPicks
  <2> HIDE DEF f
  <2>4. w[1 .. k] = step[k][w[1 .. k - 1]]
    BY <1>2, <2>2, <2>3 DEF SolvesFold
  <2> QED BY <1>2, <2>2, <2>4
<1> HIDE DEF f
<1>3. ASSUME NEW k \in 0 .. n - 1, k \in C
      PROVE  k + 1 \in C
  <2>1. k + 1 \in 1 .. n /\ (k + 1) - 1 = k
    OBVIOUS
  <2>2. f[k + 1] \in V
    BY <1>2, <1>3, <2>1
  <2> QED BY <2>1, <2>2
<1>4. 0 .. n \subseteq C
  <2> HIDE DEF C
  <2> QED BY <1>1, <1>3, UpTo
<1>5. f \in [0 .. n -> V] /\ f[n] = w[1 .. n]
  <2>1. \A k \in 0 .. n : f[k] \in V
    BY <1>4
  <2>2. n \in 0 .. n
    OBVIOUS
  <2> QED BY <2>1, <2>2 DEF f
<1>6. \A k \in 1 .. n : f[k] = step[k][f[k - 1]]
  <2>1. \A k \in 1 .. n : k - 1 \in 0 .. n
    OBVIOUS
  <2> QED BY <1>2, <1>4, <2>1
<1> QED
  BY <1>1, <1>5, <1>6 DEF IsRunOf
=============================================================================
