-------------------------- MODULE RateLimitProofs ---------------------------
(***************************************************************************)
(* Theorems about RateLimit, for every limit, window, size of a bucket,    *)
(* number of processes and set of devices.                                 *)
(***************************************************************************)
EXTENDS RateLimit, FiniteSetTheorems, TLAPS

(***************************************************************************)
(* Induction, and sums over finite sets.                                   *)
(***************************************************************************)
\* A set of naturals that is not empty has a least element.
LEMMA Least ==
    ASSUME NEW T \in SUBSET Nat, T # {}
    PROVE  \E n \in T : \A m \in T : n <= m
<1> DEFINE R == {p \in Nat \X Nat : p[1] < p[2]}
<1>1. IsWellFoundedOn(R, Nat)
  BY NatLessThanWellFounded DEF OpToRel
<1>2. \E x \in T : \A y \in T : ~ (<<y, x>> \in R)
  <2> HIDE DEF R
  <2> QED BY <1>1, WFMin
<1>3. \A x, y \in T : ~ (<<y, x>> \in R) => x <= y
  BY SMT
<1> QED BY <1>2, <1>3

\* Induction, with a set of naturals for the predicate: a predicate would be
\* a parameter that no prover can instantiate.
LEMMA Induction ==
    ASSUME NEW T \in SUBSET Nat, 0 \in T, \A n \in T : n + 1 \in T
    PROVE  T = Nat
<1> SUFFICES ASSUME Nat \ T # {} PROVE FALSE
  OBVIOUS
<1>1. PICK n \in Nat \ T : \A m \in Nat \ T : n <= m
  <2> DEFINE U == Nat \ T
  <2>1. U \in SUBSET Nat /\ U # {}
    OBVIOUS
  <2> QED BY <2>1, Least
<1>2. n # 0 /\ n - 1 \in Nat /\ n - 1 < n
  OBVIOUS
<1>3. n - 1 \in T
  BY <1>1, <1>2
<1> QED BY <1>3, <1>2

\* The element that a fold takes from a set.
Choice(T) == CHOOSE x \in T : TRUE

\* g is the function that the fold over S is defined by.
IsFold(h, S, g) ==
    g = [T \in SUBSET S |-> IF T = {} THEN 0 ELSE h[Choice(T)] + g[T \ {Choice(T)}]]

\* g obeys the recursion of the fold on every subset of S.
Folds(h, S, g) ==
    \A T \in SUBSET S :
        g[T] = IF T = {} THEN 0 ELSE h[Choice(T)] + g[T \ {Choice(T)}]

\* The recursion defines a function: one for the sets of at most n elements
\* extends to the sets of n + 1.
LEMMA FoldExists ==
    ASSUME NEW h, NEW S, IsFiniteSet(S)
    PROVE  \E g : IsFold(h, S, g)
<1> DEFINE Step(g, T) == IF T = {} THEN 0 ELSE h[Choice(T)] + g[T \ {Choice(T)}]
           Level(n) == {T \in SUBSET S : Cardinality(T) <= n}
           L == {n \in Nat : \E g : g = [T \in Level(n) |-> Step(g, T)]}
<1>1. 0 \in L
  <2>1. \A T \in Level(0) : T = {}
    BY FS_Subset, FS_EmptySet, FS_CardinalityType
  <2> DEFINE g == [T \in Level(0) |-> 0]
  <2>2. g = [T \in Level(0) |-> Step(g, T)]
    BY <2>1
  <2> QED BY <2>2
<1>2. ASSUME NEW n \in L PROVE n + 1 \in L
  <2>1. PICK g : g = [T \in Level(n) |-> Step(g, T)]
    BY <1>2
  <2> DEFINE f == [T \in Level(n + 1) |-> Step(g, T)]
  <2>2. \A T \in Level(n + 1) : T # {} => Choice(T) \in T /\ T \ {Choice(T)} \in Level(n)
    <3> SUFFICES ASSUME NEW T \in Level(n + 1), T # {}
                 PROVE  Choice(T) \in T /\ T \ {Choice(T)} \in Level(n)
      OBVIOUS
    <3>1. Choice(T) \in T
      BY DEF Choice
    <3>2. IsFiniteSet(T)
      BY FS_Subset
    <3>3. Cardinality(T \ {Choice(T)}) = Cardinality(T) - 1 /\ Cardinality(T) \in Nat
      BY <3>1, <3>2, FS_RemoveElement, FS_CardinalityType
    <3> QED BY <3>1, <3>3
  <2>3. \A T \in Level(n) : g[T] = f[T]
    <3>1. \A T \in Level(n) : T \in Level(n + 1)
      <4> SUFFICES ASSUME NEW T \in Level(n) PROVE T \in Level(n + 1)
        OBVIOUS
      <4>1. Cardinality(T) \in Nat
        BY FS_Subset, FS_CardinalityType
      <4> QED BY <4>1
    <3> HIDE DEF Level, Step
    <3>2. \A T \in Level(n) : g[T] = Step(g, T)
      BY <2>1
    <3> QED BY <3>1, <3>2
  <2>4. \A T \in Level(n + 1) : Step(g, T) = Step(f, T)
    <3> HIDE DEF Level, f
    <3> QED BY <2>2, <2>3
  <2>5. f = [T \in Level(n + 1) |-> Step(f, T)]
    <3> HIDE DEF Level, Step
    <3> QED BY <2>4
  <2>6. n + 1 \in Nat
    OBVIOUS
  <2> HIDE DEF f, Step, Level
  <2> QED BY <2>5, <2>6
<1>3. L = Nat
  <2> HIDE DEF L
  <2>1. L \in SUBSET Nat
    BY DEF L
  <2> QED BY <1>1, <1>2, <2>1, Induction
<1>4. Cardinality(S) \in Nat /\ Level(Cardinality(S)) = SUBSET S
  <2>1. Cardinality(S) \in Nat
    BY FS_CardinalityType
  <2>2. \A T \in SUBSET S : Cardinality(T) <= Cardinality(S)
    BY FS_Subset
  <2> QED BY <2>1, <2>2
<1>5. PICK g : g = [T \in Level(Cardinality(S)) |-> Step(g, T)]
  <2> HIDE DEF Step, Level
  <2> QED BY <1>3, <1>4
<1> QED BY <1>4, <1>5 DEF IsFold

\* A set of n + 1 elements has one to choose, and n without any of them.
LEMMA OneLess ==
    ASSUME NEW T, IsFiniteSet(T), NEW n \in Nat, Cardinality(T) = n + 1
    PROVE  /\ T # {} /\ Choice(T) \in T
           /\ \A y \in T : Cardinality(T \ {y}) = n
<1>1. T # {}
  BY FS_EmptySet
<1>2. Choice(T) \in T
  BY <1>1 DEF Choice
<1>3. \A y \in T : Cardinality(T \ {y}) = n
  BY FS_RemoveElement
<1> QED BY <1>1, <1>2, <1>3

\* The sum of the community modules is such a fold.
LEMMA SumIsFold ==
    ASSUME NEW h, NEW S, IsFiniteSet(S)
    PROVE  \E g : Folds(h, S, g) /\ g[S] = SumFunctionOnSet(h, S)
<1> DEFINE g == CHOOSE g : IsFold(h, S, g)
<1>1. IsFold(h, S, g)
  BY FoldExists
<1>2. g[S] = SumFunctionOnSet(h, S)
  BY Zenon DEF SumFunctionOnSet, FoldFunctionOnSet, MapThenFoldSet, Choice, IsFold
<1>3. Folds(h, S, g)
  <2> HIDE DEF g
  <2> QED BY <1>1 DEF Folds, IsFold
<1> QED BY <1>2, <1>3

\* Folds over a set and over a part of it agree on the part.
LEMMA FoldsAgree ==
    ASSUME NEW h, NEW S, IsFiniteSet(S), NEW R \in SUBSET S, NEW f, NEW g,
           Folds(h, S, f), Folds(h, R, g)
    PROVE  f[R] = g[R]
<1> DEFINE L == {n \in Nat : \A T \in SUBSET R : Cardinality(T) = n => f[T] = g[T]}
<1>1. 0 \in L
  <2> SUFFICES ASSUME NEW T \in SUBSET R, Cardinality(T) = 0
               PROVE  f[T] = g[T]
    OBVIOUS
  <2>1. T = {}
    BY FS_Subset, FS_EmptySet
  <2> QED BY <2>1 DEF Folds
<1>2. ASSUME NEW n \in L PROVE n + 1 \in L
  <2> SUFFICES ASSUME NEW T \in SUBSET R, Cardinality(T) = n + 1
               PROVE  f[T] = g[T]
    OBVIOUS
  <2>1. IsFiniteSet(T)
    BY FS_Subset
  <2>2. T # {} /\ Choice(T) \in T
    BY <2>1, OneLess
  <2>4. Cardinality(T \ {Choice(T)}) = n
    BY <2>1, <2>2, OneLess
  <2>5. f[T \ {Choice(T)}] = g[T \ {Choice(T)}]
    BY <2>4
  <2> QED BY <2>2, <2>5 DEF Folds
<1>3. L = Nat
  <2>1. L \in SUBSET Nat
    OBVIOUS
  <2> HIDE DEF L
  <2> QED BY <1>1, <1>2, <2>1, Induction
<1>4. Cardinality(R) \in Nat
  BY FS_Subset, FS_CardinalityType
<1> QED BY <1>3, <1>4

\* The sum over no element.
LEMMA SumOfNothing ==
    ASSUME NEW h
    PROVE  SumFunctionOnSet(h, {}) = 0
BY SumIsFold, FS_EmptySet DEF Folds

\* The sum unfolds at the element the fold takes.
LEMMA SumOfChoice ==
    ASSUME NEW h, NEW S, IsFiniteSet(S), S # {}
    PROVE  SumFunctionOnSet(h, S) =
               h[Choice(S)] + SumFunctionOnSet(h, S \ {Choice(S)})
<1> DEFINE R == S \ {Choice(S)}
<1>1. PICK f : Folds(h, S, f) /\ f[S] = SumFunctionOnSet(h, S)
  BY SumIsFold
<1>2. IsFiniteSet(R)
  BY FS_Subset
<1>3. PICK g : Folds(h, R, g) /\ g[R] = SumFunctionOnSet(h, R)
  BY <1>2, SumIsFold
<1>4. f[R] = g[R]
  BY <1>1, <1>3, FoldsAgree
<1>5. f[S] = h[Choice(S)] + f[R]
  BY <1>1 DEF Folds
<1> QED BY <1>1, <1>3, <1>4, <1>5

\* h has natural values on S.
Naturals(h, S) == \A x \in S : h[x] \in Nat

\* A sum of naturals is a natural.
LEMMA SumIsNatural ==
    ASSUME NEW h, NEW S, IsFiniteSet(S), Naturals(h, S)
    PROVE  SumFunctionOnSet(h, S) \in Nat
<1> DEFINE L == {n \in Nat : \A T \in SUBSET S :
                   Cardinality(T) = n => SumFunctionOnSet(h, T) \in Nat}
<1>1. 0 \in L
  BY FS_Subset, FS_EmptySet, SumOfNothing
<1>2. ASSUME NEW n \in L PROVE n + 1 \in L
  <2> SUFFICES ASSUME NEW T \in SUBSET S, Cardinality(T) = n + 1
               PROVE  SumFunctionOnSet(h, T) \in Nat
    OBVIOUS
  <2>1. IsFiniteSet(T)
    BY FS_Subset
  <2>2. T # {} /\ Choice(T) \in T
    BY <2>1, OneLess
  <2>3. Cardinality(T \ {Choice(T)}) = n
    BY <2>1, <2>2, OneLess
  <2>4. SumFunctionOnSet(h, T \ {Choice(T)}) \in Nat /\ h[Choice(T)] \in Nat
    BY <2>2, <2>3 DEF Naturals
  <2> QED BY <2>1, <2>2, <2>4, SumOfChoice
<1>3. L = Nat
  <2>1. L \in SUBSET Nat
    OBVIOUS
  <2> HIDE DEF L
  <2> QED BY <1>1, <1>2, <2>1, Induction
<1> QED BY <1>3, FS_CardinalityType

\* The sum unfolds at any element: the order does not matter.
LEMMA SumRemove ==
    ASSUME NEW h, NEW S, IsFiniteSet(S), Naturals(h, S), NEW x \in S
    PROVE  SumFunctionOnSet(h, S) = h[x] + SumFunctionOnSet(h, S \ {x})
<1> DEFINE Sum(T) == SumFunctionOnSet(h, T)
           L == {n \in Nat : \A T \in SUBSET S : Cardinality(T) = n =>
                     \A y \in T : Sum(T) = h[y] + Sum(T \ {y})}
<1>1. 0 \in L
  BY FS_Subset, FS_EmptySet
<1>2. ASSUME NEW n \in L PROVE n + 1 \in L
  <2> SUFFICES ASSUME NEW T \in SUBSET S, Cardinality(T) = n + 1, NEW y \in T
               PROVE  Sum(T) = h[y] + Sum(T \ {y})
    OBVIOUS
  <2> DEFINE c == Choice(T)
  <2>1. IsFiniteSet(T)
    BY FS_Subset
  <2>2. T # {} /\ c \in T
    BY <2>1, OneLess
  <2>3. Sum(T) = h[c] + Sum(T \ {c})
    BY <2>1, <2>2, SumOfChoice
  <2>4. CASE y = c
    BY <2>3, <2>4
  <2>5. CASE y # c
    <3> DEFINE U == (T \ {c}) \ {y}
    <3>1. Cardinality(T \ {c}) = n /\ Cardinality(T \ {y}) = n
      BY <2>1, <2>2, OneLess
    <3>2. Sum(T \ {c}) = h[y] + Sum(U)
      BY <3>1, <2>5
    <3>3. U = (T \ {y}) \ {c}
      OBVIOUS
    <3>4. Sum(T \ {y}) = h[c] + Sum(U)
      BY <3>1, <3>3, <2>5, <2>2
    <3>5. h[c] \in Nat /\ h[y] \in Nat
      BY <2>2 DEF Naturals
    <3>6. Sum(U) \in Nat
      BY <2>1, FS_Subset, SumIsNatural DEF Naturals
    <3> HIDE DEF Sum, U, c
    <3> QED BY <2>3, <3>2, <3>4, <3>5, <3>6
  <2> QED BY <2>4, <2>5
<1>3. L = Nat
  <2>1. L \in SUBSET Nat
    OBVIOUS
  <2> HIDE DEF L
  <2> QED BY <1>1, <1>2, <2>1, Induction
<1> QED BY <1>3, FS_CardinalityType

\* Induction on a finite set, with a set of its subsets for the predicate.
LEMMA SetInduction ==
    ASSUME NEW S, IsFiniteSet(S), NEW F \in SUBSET SUBSET S, {} \in F,
           \A T \in F : \A x \in S \ T : T \union {x} \in F
    PROVE  S \in F
<1> DEFINE L == {n \in Nat : \A T \in SUBSET S : Cardinality(T) = n => T \in F}
<1>1. 0 \in L
  BY FS_Subset, FS_EmptySet
<1>2. ASSUME NEW n \in L PROVE n + 1 \in L
  <2> SUFFICES ASSUME NEW T \in SUBSET S, Cardinality(T) = n + 1
               PROVE  T \in F
    OBVIOUS
  <2> DEFINE x == Choice(T)
  <2>1. IsFiniteSet(T)
    BY FS_Subset
  <2>2. x \in T /\ Cardinality(T \ {x}) = n
    BY <2>1, OneLess
  <2>3. T \ {x} \in F
    BY <2>2
  <2>4. T = (T \ {x}) \union {x}
    BY <2>2
  <2> HIDE DEF x
  <2> QED BY <2>2, <2>3, <2>4
<1>3. L = Nat
  <2>1. L \in SUBSET Nat
    OBVIOUS
  <2> HIDE DEF L
  <2> QED BY <1>1, <1>2, <2>1, Induction
<1> QED BY <1>3, FS_CardinalityType

\* The sum over one element more.
LEMMA SumAdd ==
    ASSUME NEW h, NEW S, IsFiniteSet(S), NEW x, x \notin S, Naturals(h, S \union {x})
    PROVE  SumFunctionOnSet(h, S \union {x}) = h[x] + SumFunctionOnSet(h, S)
<1>1. IsFiniteSet(S \union {x})
  BY FS_AddElement
<1>2. (S \union {x}) \ {x} = S /\ x \in S \union {x}
  OBVIOUS
<1> QED BY <1>1, <1>2, SumRemove

\* The sum over two sets without a common element.
LEMMA SumUnion ==
    ASSUME NEW h, NEW S, IsFiniteSet(S), NEW R, IsFiniteSet(R), S \intersect R = {},
           Naturals(h, S \union R)
    PROVE  SumFunctionOnSet(h, S \union R) =
               SumFunctionOnSet(h, S) + SumFunctionOnSet(h, R)
<1> DEFINE Sum(T) == SumFunctionOnSet(h, T)
           F == {T \in SUBSET R : Sum(S \union T) = Sum(S) + Sum(T)}
<1>1. {} \in F
  <2>1. S \union {} = S
    OBVIOUS
  <2>2. Sum(S) \in Nat
    BY SumIsNatural DEF Naturals
  <2> QED BY <2>1, <2>2, SumOfNothing
<1>2. ASSUME NEW T \in F, NEW x \in R \ T PROVE T \union {x} \in F
  <2>1. IsFiniteSet(T) /\ IsFiniteSet(S \union T)
    BY FS_Subset, FS_Union
  <2>2. Sum(T \union {x}) = h[x] + Sum(T)
    BY <2>1, SumAdd DEF Naturals
  <2>3. Sum((S \union T) \union {x}) = h[x] + Sum(S \union T)
    BY <2>1, SumAdd DEF Naturals
  <2>4. (S \union T) \union {x} = S \union (T \union {x})
    OBVIOUS
  <2>5. Sum(S) \in Nat /\ Sum(T) \in Nat /\ h[x] \in Nat
    BY <2>1, SumIsNatural DEF Naturals
  <2>6. Sum(S \union T) = Sum(S) + Sum(T)
    OBVIOUS
  <2>7. T \union {x} \in SUBSET R
    OBVIOUS
  <2>8. Sum(S \union (T \union {x})) = h[x] + Sum(S \union T)
    BY <2>3, <2>4, Zenon
  <2>9. Sum(S \union (T \union {x})) = Sum(S) + Sum(T \union {x})
    <3> HIDE DEF Sum
    <3> QED BY <2>2, <2>5, <2>6, <2>8
  <2> QED BY <2>7, <2>9
<1>3. F \in SUBSET SUBSET R
  OBVIOUS
<1> HIDE DEF F
<1>4. R \in F
  BY <1>1, <1>2, <1>3, SetInduction
<1> QED BY <1>4 DEF F

\* Functions that agree on a set have the same sum over it.
LEMMA SumSame ==
    ASSUME NEW h, NEW g, NEW S, IsFiniteSet(S), Naturals(h, S),
           \A x \in S : g[x] = h[x]
    PROVE  SumFunctionOnSet(g, S) = SumFunctionOnSet(h, S)
<1> DEFINE F == {T \in SUBSET S : SumFunctionOnSet(g, T) = SumFunctionOnSet(h, T)}
<1>1. {} \in F
  BY SumOfNothing
<1>2. ASSUME NEW T \in F, NEW x \in S \ T PROVE T \union {x} \in F
  <2>1. IsFiniteSet(T)
    BY FS_Subset
  <2>2. SumFunctionOnSet(h, T \union {x}) = h[x] + SumFunctionOnSet(h, T)
    BY <2>1, SumAdd DEF Naturals
  <2>3. SumFunctionOnSet(g, T \union {x}) = g[x] + SumFunctionOnSet(g, T)
    BY <2>1, SumAdd DEF Naturals
  <2> QED BY <2>2, <2>3
<1>3. F \in SUBSET SUBSET S
  OBVIOUS
<1> HIDE DEF F
<1>4. S \in F
  BY <1>1, <1>2, <1>3, SetInduction
<1> QED BY <1>4 DEF F

\* A sum of zeros.
LEMMA SumOfZeros ==
    ASSUME NEW h, NEW S, IsFiniteSet(S), \A x \in S : h[x] = 0
    PROVE  SumFunctionOnSet(h, S) = 0
<1> DEFINE F == {T \in SUBSET S : SumFunctionOnSet(h, T) = 0}
<1>1. {} \in F
  BY SumOfNothing
<1>2. ASSUME NEW T \in F, NEW x \in S \ T PROVE T \union {x} \in F
  <2>1. IsFiniteSet(T)
    BY FS_Subset
  <2>2. SumFunctionOnSet(h, T \union {x}) = h[x] + SumFunctionOnSet(h, T)
    BY <2>1, SumAdd DEF Naturals
  <2> QED BY <2>2
<1>3. F \in SUBSET SUBSET S
  OBVIOUS
<1> HIDE DEF F
<1>4. S \in F
  BY <1>1, <1>2, <1>3, SetInduction
<1> QED BY <1>4 DEF F

\* The sum of smaller values is smaller.
LEMMA SumMonotone ==
    ASSUME NEW h, NEW g, NEW S, IsFiniteSet(S), Naturals(h, S), Naturals(g, S),
           \A x \in S : g[x] <= h[x]
    PROVE  SumFunctionOnSet(g, S) <= SumFunctionOnSet(h, S)
<1> DEFINE F == {T \in SUBSET S : SumFunctionOnSet(g, T) <= SumFunctionOnSet(h, T)}
<1>1. {} \in F
  BY SumOfNothing
<1>2. ASSUME NEW T \in F, NEW x \in S \ T PROVE T \union {x} \in F
  <2>1. IsFiniteSet(T)
    BY FS_Subset
  <2>2. SumFunctionOnSet(h, T \union {x}) = h[x] + SumFunctionOnSet(h, T)
    BY <2>1, SumAdd DEF Naturals
  <2>3. SumFunctionOnSet(g, T \union {x}) = g[x] + SumFunctionOnSet(g, T)
    BY <2>1, SumAdd DEF Naturals
  <2>4. /\ h[x] \in Nat /\ g[x] \in Nat /\ g[x] <= h[x]
        /\ SumFunctionOnSet(h, T) \in Nat /\ SumFunctionOnSet(g, T) \in Nat
    BY <2>1, SumIsNatural DEF Naturals
  <2> QED BY <2>2, <2>3, <2>4
<1>3. F \in SUBSET SUBSET S
  OBVIOUS
<1> HIDE DEF F
<1>4. S \in F
  BY <1>1, <1>2, <1>3, SetInduction
<1> QED BY <1>4 DEF F

\* What lies outside R, if it is zero, does not count.
LEMMA SumWithin ==
    ASSUME NEW h, NEW S, IsFiniteSet(S), NEW R, IsFiniteSet(R), Naturals(h, S \union R),
           \A x \in S \ R : h[x] = 0
    PROVE  SumFunctionOnSet(h, S) <= SumFunctionOnSet(h, R)
<1> DEFINE B == S \intersect R
<1>1. IsFiniteSet(B) /\ IsFiniteSet(S \ R) /\ IsFiniteSet(R \ B)
  BY FS_Subset
<1>2. Naturals(h, B) /\ Naturals(h, S \ R) /\ Naturals(h, R \ B)
  BY DEF Naturals
<1>3. S = B \union (S \ R) /\ R = B \union (R \ B)
  OBVIOUS
<1>4. B \intersect (S \ R) = {} /\ B \intersect (R \ B) = {}
  OBVIOUS
<1>5. Naturals(h, B \union (S \ R)) /\ Naturals(h, B \union (R \ B))
  BY DEF Naturals
<1> HIDE DEF B
<1>6. /\ SumFunctionOnSet(h, S) = SumFunctionOnSet(h, B) + SumFunctionOnSet(h, S \ R)
      /\ SumFunctionOnSet(h, R) = SumFunctionOnSet(h, B) + SumFunctionOnSet(h, R \ B)
  BY <1>1, <1>3, <1>4, <1>5, SumUnion
<1>7. SumFunctionOnSet(h, S \ R) = 0
  BY <1>1, SumOfZeros
<1>8. SumFunctionOnSet(h, B) \in Nat /\ SumFunctionOnSet(h, R \ B) \in Nat
  BY <1>1, <1>2, SumIsNatural
<1> QED BY <1>6, <1>7, <1>8

\* A sum of values up to k.
LEMMA SumBounded ==
    ASSUME NEW h, NEW k \in Nat, NEW S, IsFiniteSet(S), Naturals(h, S),
           \A x \in S : h[x] <= k
    PROVE  SumFunctionOnSet(h, S) <= Cardinality(S) * k
<1> DEFINE F == {T \in SUBSET S : SumFunctionOnSet(h, T) <= Cardinality(T) * k}
<1>1. {} \in F
  BY SumOfNothing, FS_EmptySet
<1>2. ASSUME NEW T \in F, NEW x \in S \ T PROVE T \union {x} \in F
  <2>1. IsFiniteSet(T)
    BY FS_Subset
  <2>2. SumFunctionOnSet(h, T \union {x}) = h[x] + SumFunctionOnSet(h, T)
    BY <2>1, SumAdd DEF Naturals
  <2>3. Cardinality(T \union {x}) = Cardinality(T) + 1 /\ Cardinality(T) \in Nat
    BY <2>1, FS_AddElement, FS_CardinalityType
  <2>4. h[x] \in Nat /\ h[x] <= k /\ SumFunctionOnSet(h, T) \in Nat
    BY <2>1, SumIsNatural DEF Naturals
  <2>5. (Cardinality(T) + 1) * k = Cardinality(T) * k + k /\ Cardinality(T) * k \in Nat
    BY <2>3
  <2>6. SumFunctionOnSet(h, T) <= Cardinality(T) * k
    OBVIOUS
  <2>7. SumFunctionOnSet(h, T \union {x}) <= Cardinality(T \union {x}) * k
    BY <2>2, <2>3, <2>4, <2>5, <2>6
  <2> QED BY <2>7
<1>3. F \in SUBSET SUBSET S
  OBVIOUS
<1> HIDE DEF F
<1>4. S \in F
  BY <1>1, <1>2, <1>3, SetInduction
<1> QED BY <1>4 DEF F

-----------------------------------------------------------------------------
(***************************************************************************)
(* Buckets, and the part of a list that Since keeps.                       *)
(***************************************************************************)
\* The bucket of a second.
Start(t) == (t \div Bucket) * Bucket

\* A second lies in its bucket, which starts at a multiple of Bucket.
LEMMA StartOf ==
    ASSUME NEW t \in Nat
    PROVE  /\ Start(t) \in Nat /\ Start(t) % Bucket = 0
           /\ Start(t) <= t /\ t < Start(t) + Bucket
<1> DEFINE q == t \div Bucket
<1>1. /\ q \in Nat /\ t % Bucket \in 0..Bucket - 1
      /\ t = Bucket * q + (t % Bucket)
  BY TimeAssumption
<1>2. q * Bucket \in Nat /\ Bucket * q = q * Bucket
  BY <1>1, TimeAssumption
<1>3. (q * Bucket) % Bucket = 0
  <2> DEFINE p == q * Bucket
             k == p \div Bucket
             r == p % Bucket
  <2>1. k \in Nat /\ r \in 0..Bucket - 1 /\ p = Bucket * k + r
    BY <1>2, TimeAssumption
  <2>2. r = Bucket * (q - k)
    BY <1>1, <2>1, TimeAssumption
  <2>3. q - k <= 0
    <3> SUFFICES ASSUME q - k >= 1 PROVE FALSE
      BY <1>1, <2>1
    <3>1. Bucket * (q - k) >= Bucket
      BY <1>1, <2>1, TimeAssumption
    <3> QED BY <3>1, <2>1, <2>2, TimeAssumption
  <2>4. q - k >= 0
    <3> SUFFICES ASSUME q - k <= -1 PROVE FALSE
      BY <1>1, <2>1
    <3>1. Bucket * (q - k) <= -Bucket
      BY <1>1, <2>1, TimeAssumption
    <3> QED BY <3>1, <2>1, <2>2, TimeAssumption
  <2>5. q - k = 0
    BY <1>1, <2>1, <2>3, <2>4
  <2> QED BY <2>2, <2>5, TimeAssumption
<1> HIDE DEF q
<1>4. q * Bucket <= t /\ t < q * Bucket + Bucket
  BY <1>1, <1>2, TimeAssumption
<1> QED BY <1>2, <1>3, <1>4 DEF Start, q

\* Two multiples of Bucket are Bucket apart.
LEMMA StartsApart ==
    ASSUME NEW a \in Nat, NEW b \in Nat, a % Bucket = 0, b % Bucket = 0, a < b
    PROVE  a + Bucket <= b
<1> DEFINE p == a \div Bucket
           q == b \div Bucket
<1>1. p \in Nat /\ a = Bucket * p
  BY TimeAssumption
<1>2. q \in Nat /\ b = Bucket * q
  BY TimeAssumption
<1> HIDE DEF p, q
<1>3. q > p
  <2> SUFFICES ASSUME q <= p PROVE FALSE
    BY <1>1, <1>2
  <2> QED BY <1>1, <1>2, TimeAssumption
<1>4. Bucket * (q - p) >= Bucket
  BY <1>1, <1>2, <1>3, TimeAssumption
<1> QED BY <1>1, <1>2, <1>4, TimeAssumption

\* A second lies in no other bucket.
LEMMA OwnStart ==
    ASSUME NEW a \in Nat, NEW t \in Nat, a % Bucket = 0, a <= t, t < a + Bucket
    PROVE  a = Start(t)
<1>1. /\ Start(t) \in Nat /\ Start(t) % Bucket = 0
      /\ Start(t) <= t /\ t < Start(t) + Bucket
  BY StartOf
<1>2. ~ (a < Start(t))
  BY <1>1, StartsApart, TimeAssumption
<1>3. ~ (Start(t) < a)
  BY <1>1, StartsApart, TimeAssumption
<1> QED BY <1>1, <1>2, <1>3

-----------------------------------------------------------------------------
\* Entries of a list.
Listed == [ts : Nat, count : Nat]

\* g is the function that Since is defined by.
Keeps(b, cutoff, g) ==
    g = [i \in 0..Len(b) |->
            IF i = 0 THEN <<>>
            ELSE IF b[i].ts >= cutoff THEN Append(g[i - 1], b[i]) ELSE g[i - 1]]

\* The recursion of Since defines a function.
LEMMA KeepsExists ==
    ASSUME NEW b, NEW cutoff, Len(b) \in Nat
    PROVE  \E g : Keeps(b, cutoff, g)
<1> DEFINE Step(g, i) ==
               IF i = 0 THEN <<>>
               ELSE IF b[i].ts >= cutoff THEN Append(g[i - 1], b[i]) ELSE g[i - 1]
           L == {n \in Nat : \E g : g = [i \in 0..n |-> Step(g, i)]}
<1>1. 0 \in L
  <2> DEFINE g == [i \in 0..0 |-> <<>>]
  <2>1. g = [i \in 0..0 |-> Step(g, i)]
    OBVIOUS
  <2> QED BY <2>1
<1>2. ASSUME NEW n \in L PROVE n + 1 \in L
  <2>1. PICK g : g = [i \in 0..n |-> Step(g, i)]
    BY <1>2
  <2> DEFINE f == [i \in 0..n + 1 |-> Step(g, i)]
  <2>2. \A i \in 0..n : f[i] = g[i]
    <3> HIDE DEF Step
    <3> QED BY <2>1
  <2>3. \A i \in 0..n + 1 : Step(g, i) = Step(f, i)
    <3> HIDE DEF f
    <3> QED BY <2>2
  <2>4. f = [i \in 0..n + 1 |-> Step(f, i)]
    <3> HIDE DEF Step
    <3> QED BY <2>3
  <2> HIDE DEF f, Step
  <2> QED BY <2>4
<1>3. L = Nat
  <2>1. L \in SUBSET Nat
    OBVIOUS
  <2> HIDE DEF L
  <2> QED BY <1>1, <1>2, <2>1, Induction
<1>4. PICK g : g = [i \in 0..Len(b) |-> Step(g, i)]
  <2> HIDE DEF Step
  <2> QED BY <1>3
<1> QED BY <1>4 DEF Keeps

\* Since is its value at the end of the list.
LEMMA SinceKeeps ==
    ASSUME NEW b, NEW cutoff, Len(b) \in Nat
    PROVE  \E g : Keeps(b, cutoff, g) /\ Since(b, cutoff) = g[Len(b)]
<1> DEFINE g == CHOOSE g : Keeps(b, cutoff, g)
<1>1. Keeps(b, cutoff, g)
  BY KeepsExists
<1>2. Since(b, cutoff) = g[Len(b)]
  BY Zenon DEF Since, Keeps
<1> QED BY <1>1, <1>2

\* r is what is left of the first n elements of b without the first k of them.
Rest(r, b, n, k) ==
    r \in Seq(Listed) /\ Len(r) = n - k /\ \A i \in 1..n - k : r[i] = b[i + k]

\* Of a list in order, Since takes a first part away.
LEMMA SinceIsRest ==
    ASSUME NEW b \in Seq(Listed), NEW cutoff \in Int,
           \A i, j \in 1..Len(b) : i < j => b[i].ts < b[j].ts
    PROVE  \E k \in 0..Len(b) :
               /\ Rest(Since(b, cutoff), b, Len(b), k)
               /\ \A i \in 1..Len(b) : b[i].ts >= cutoff <=> i > k
<1>1. PICK g : Keeps(b, cutoff, g) /\ Since(b, cutoff) = g[Len(b)]
  BY SinceKeeps
<1>0. Len(b) \in Nat /\ \A i \in 1..Len(b) : b[i] \in Listed /\ b[i].ts \in Nat
  <2>1. Len(b) \in Nat /\ \A i \in 1..Len(b) : b[i] \in Listed
    OBVIOUS
  <2> QED BY <2>1 DEF Listed
<1>2. /\ g[0] = <<>>
      /\ \A i \in 1..Len(b) :
             g[i] = IF b[i].ts >= cutoff THEN Append(g[i - 1], b[i]) ELSE g[i - 1]
  <2>1. 0 \in 0..Len(b) /\ \A i \in 1..Len(b) : i \in 0..Len(b) /\ i # 0
    BY <1>0
  <2> QED BY <2>1, <1>1 DEF Keeps
<1> DEFINE P(n) == \E k \in 0..n :
                      /\ Rest(g[n], b, n, k)
                      /\ \A i \in 1..n : b[i].ts >= cutoff <=> i > k
           L == {n \in Nat : n <= Len(b) => P(n)}
<1>3. 0 \in L
  <2>1. Rest(g[0], b, 0, 0)
    BY <1>2 DEF Rest
  <2> QED BY <2>1
<1>4. ASSUME NEW n \in L, n + 1 <= Len(b) PROVE P(n + 1)
  <2>1. PICK k \in 0..n : /\ Rest(g[n], b, n, k)
                          /\ \A i \in 1..n : b[i].ts >= cutoff <=> i > k
    BY <1>0, <1>4
  <2>2. n \in Nat /\ n + 1 \in 1..Len(b) /\ b[n + 1] \in Listed /\ b[n + 1].ts \in Nat
    BY <1>0, <1>4
  <2> HIDE DEF P, L
  <2>3. CASE b[n + 1].ts >= cutoff
    <3>1. g[n + 1] = Append(g[n], b[n + 1])
      <4>1. g[n + 1] = IF b[n + 1].ts >= cutoff THEN Append(g[(n + 1) - 1], b[n + 1])
                       ELSE g[(n + 1) - 1]
        BY <1>2, <2>2
      <4> QED BY <4>1, <2>2, <2>3
    <3>2. Rest(g[n + 1], b, n + 1, k)
      BY <3>1, <2>1, <2>2 DEF Rest
    <3>3. \A i \in 1..n + 1 : b[i].ts >= cutoff <=> i > k
      <4> SUFFICES ASSUME NEW i \in 1..n + 1 PROVE b[i].ts >= cutoff <=> i > k
        OBVIOUS
      <4>1. i \in 1..n \/ i = n + 1
        BY <2>2
      <4> QED BY <2>1, <2>2, <2>3, <4>1
    <3>4. k \in 0..n + 1
      BY <2>1, <2>2
    <3> QED BY <3>2, <3>3, <3>4 DEF P
  <2>4. CASE ~ (b[n + 1].ts >= cutoff)
    <3>1. g[n + 1] = g[n]
      <4>1. g[n + 1] = IF b[n + 1].ts >= cutoff THEN Append(g[(n + 1) - 1], b[n + 1])
                       ELSE g[(n + 1) - 1]
        BY <1>2, <2>2
      <4> QED BY <4>1, <2>2, <2>4
    <3>2. \A i \in 1..n : ~ (b[i].ts >= cutoff)
      <4> SUFFICES ASSUME NEW i \in 1..n PROVE ~ (b[i].ts >= cutoff)
        OBVIOUS
      <4>1. b[i].ts < b[n + 1].ts /\ b[i].ts \in Nat
        BY <1>0, <2>2
      <4> QED BY <4>1, <2>2, <2>4
    <3>3. k = n
      <4> SUFFICES ASSUME k < n PROVE FALSE
        BY <2>1, <2>2
      <4>1. n \in 1..n
        BY <2>1, <2>2
      <4> QED BY <2>1, <2>2, <3>2, <4>1
    <3>4. Rest(g[n + 1], b, n + 1, n + 1)
      BY <2>1, <3>1, <3>3 DEF Rest
    <3>5. \A i \in 1..n + 1 : b[i].ts >= cutoff <=> i > n + 1
      <4> SUFFICES ASSUME NEW i \in 1..n + 1 PROVE b[i].ts >= cutoff <=> i > n + 1
        OBVIOUS
      <4>1. i \in 1..n \/ i = n + 1
        BY <2>2
      <4> QED BY <2>2, <2>4, <3>2, <4>1
    <3> QED BY <2>2, <3>4, <3>5 DEF P
  <2> QED BY <2>3, <2>4
<1>5. L = Nat
  <2>1. L \in SUBSET Nat
    OBVIOUS
  <2>2. \A n \in L : n + 1 \in L
    <3> HIDE DEF P
    <3> QED BY <1>4
  <2> HIDE DEF L
  <2> QED BY <1>3, <2>2, <2>1, Induction
<1>6. P(Len(b))
  <2> HIDE DEF P
  <2> QED BY <1>5
<1> QED BY <1>1, <1>6

-----------------------------------------------------------------------------
(***************************************************************************)
(* What a list of buckets says of the history of a device.                 *)
(***************************************************************************)
\* The seconds of the bucket that starts at t.
Seconds(t) == {u \in Times : t <= u /\ u < t + Bucket}

\* The entries are in order, start at multiples of Bucket, and all lie within
\* one window: the last to be added had the others pruned before it.
IsList(b, clock) ==
    /\ b \in Seq(Listed)
    /\ \A i \in 1..Len(b) : b[i].ts % Bucket = 0 /\ b[i].ts <= clock /\ b[i].count > 0
    /\ \A i, j \in 1..Len(b) : i < j => b[i].ts < b[j].ts
    /\ \A i, j \in 1..Len(b) : b[j].ts <= b[i].ts + Window

\* An entry counts what was charged in its seconds.
Exact(b, h) == \A i \in 1..Len(b) : b[i].count = SumFunctionOnSet(h, Seconds(b[i].ts))

\* What was charged within the window has its entry, and nothing is charged
\* ahead of time.
Covers(b, h, clock) ==
    \A t \in Times : h[t] > 0 =>
        /\ t <= clock
        /\ Start(t) >= clock - Window => \E i \in 1..Len(b) : b[i].ts = Start(t)

\* A list is a faithful account of a history.
Accounts(b, h, clock) == IsList(b, clock) /\ Exact(b, h) /\ Covers(b, h, clock)

\* The list is pruned.
Fresh(b, clock) == \A i \in 1..Len(b) : b[i].ts >= clock - Window

\* The types of the entries.
LEMMA Elements ==
    ASSUME NEW b \in Seq(Listed)
    PROVE  Len(b) \in Nat /\ \A i \in 1..Len(b) : b[i].ts \in Nat /\ b[i].count \in Nat
<1>1. Len(b) \in Nat /\ \A i \in 1..Len(b) : b[i] \in Listed
  OBVIOUS
<1> QED BY <1>1 DEF Listed

\* Sets of moments are finite.
LEMMA TimesFinite ==
    ASSUME NEW S \in SUBSET Times
    PROVE  IsFiniteSet(S)
<1>1. IsFiniteSet(Times)
  BY FS_Interval, TimeAssumption DEF Times
<1> QED BY <1>1, FS_Subset

\* Entries are Bucket apart and lie within one window: there are no more of
\* them than the window has buckets.
LEMMA LengthBound ==
    ASSUME NEW b, NEW clock, IsList(b, clock)
    PROVE  Len(b) <= (Window \div Bucket) + 1
<1>1. /\ Len(b) \in Nat
      /\ \A i \in 1..Len(b) : b[i].ts \in Nat
      /\ \A i \in 1..Len(b) : b[i].ts % Bucket = 0
      /\ \A i, j \in 1..Len(b) : i < j => b[i].ts < b[j].ts
      /\ \A i, j \in 1..Len(b) : b[j].ts <= b[i].ts + Window
  BY Elements DEF IsList
<1> DEFINE L == {n \in Nat : n + 1 <= Len(b) => b[n + 1].ts >= b[1].ts + n * Bucket}
<1>2. 0 \in L
  BY <1>1, TimeAssumption
<1>3. ASSUME NEW n \in L PROVE n + 1 \in L
  <2>1. n \in Nat
    OBVIOUS
  <2> SUFFICES ASSUME (n + 1) + 1 <= Len(b)
               PROVE  b[(n + 1) + 1].ts >= b[1].ts + (n + 1) * Bucket
    BY <2>1
  <2>2. b[n + 1].ts >= b[1].ts + n * Bucket
    BY <1>1, <2>1
  <2>3. n + 1 \in 1..Len(b) /\ (n + 1) + 1 \in 1..Len(b) /\ 1 \in 1..Len(b)
    BY <1>1, <2>1
  <2>4. b[n + 1].ts + Bucket <= b[(n + 1) + 1].ts
    BY <1>1, <2>1, <2>3, StartsApart
  <2>5. (n + 1) * Bucket = n * Bucket + Bucket /\ n * Bucket \in Nat
    BY <2>1, TimeAssumption
  <2>6. /\ b[1].ts \in Nat /\ b[n + 1].ts \in Nat /\ b[(n + 1) + 1].ts \in Nat
    BY <1>1, <2>3
  <2> DEFINE x == b[1].ts
             y == b[n + 1].ts
             z == b[(n + 1) + 1].ts
             p == n * Bucket
             q == (n + 1) * Bucket
  <2>7. /\ x \in Nat /\ y \in Nat /\ z \in Nat /\ p \in Nat
        /\ q = p + Bucket /\ y >= x + p /\ y + Bucket <= z
    BY <2>2, <2>4, <2>5, <2>6
  <2>8. z >= x + q
    <3> HIDE DEF x, y, z, p, q
    <3> QED BY <2>7, TimeAssumption
  <2> QED BY <2>8
<1>4. L = Nat
  <2>1. L \in SUBSET Nat
    OBVIOUS
  <2> HIDE DEF L
  <2> QED BY <1>2, <1>3, <2>1, Induction
<1>5. CASE Len(b) = 0
  BY <1>5, TimeAssumption
<1>6. CASE Len(b) > 0
  <2> DEFINE m == Len(b) - 1
  <2>1. m \in Nat /\ m + 1 = Len(b) /\ Len(b) \in 1..Len(b) /\ 1 \in 1..Len(b)
    BY <1>1, <1>6
  <2>2. b[m + 1].ts >= b[1].ts + m * Bucket
    BY <1>4, <2>1
  <2>3. b[m + 1].ts <= b[1].ts + Window /\ b[1].ts \in Nat /\ b[m + 1].ts \in Nat
    BY <1>1, <2>1
  <2>4. m * Bucket \in Nat
    BY <2>1, TimeAssumption
  <2>5. m * Bucket <= Window
    BY <2>2, <2>3, <2>4, TimeAssumption
  <2>6. m <= Window \div Bucket
    <3> HIDE DEF m
    <3> QED BY <2>1, <2>5, TimeAssumption
  <2> QED BY <2>1, <2>6, TimeAssumption
<1> QED BY <1>1, <1>5, <1>6

\* Pruning keeps the account of what is within the window.
LEMMA LiveAccounts ==
    ASSUME NEW b, NEW h, now \in Nat, Accounts(b, h, now)
    PROVE  Accounts(Live(b), h, now) /\ Fresh(Live(b), now)
<1> DEFINE r == Live(b)
           cutoff == now - Window
<1>1. /\ b \in Seq(Listed)
      /\ \A i, j \in 1..Len(b) : i < j => b[i].ts < b[j].ts
      /\ Len(b) \in Nat
      /\ cutoff \in Int
  BY Elements, TimeAssumption DEF Accounts, IsList
<1>2. PICK k \in 0..Len(b) : /\ Rest(r, b, Len(b), k)
                             /\ \A i \in 1..Len(b) : b[i].ts >= cutoff <=> i > k
  <2> HIDE DEF cutoff
  <2> QED BY <1>1, SinceIsRest DEF Live, cutoff
<1> HIDE DEF r, cutoff
<1>3. /\ r \in Seq(Listed)
      /\ \A i \in 1..Len(r) : i + k \in 1..Len(b) /\ i + k > k /\ r[i] = b[i + k]
      /\ Len(r) = Len(b) - k
  BY <1>1, <1>2 DEF Rest
<1>4. Fresh(r, now)
  BY <1>2, <1>3 DEF Fresh, cutoff
<1>5. IsList(r, now)
  <2>1. \A i, j \in 1..Len(r) : i < j => r[i].ts < r[j].ts
    <3> SUFFICES ASSUME NEW i \in 1..Len(r), NEW j \in 1..Len(r), i < j
                 PROVE  r[i].ts < r[j].ts
      OBVIOUS
    <3>1. i + k \in 1..Len(b) /\ j + k \in 1..Len(b) /\ i + k < j + k
      BY <1>1, <1>2, <1>3
    <3> QED BY <1>1, <1>3, <3>1
  <2>2. \A i, j \in 1..Len(r) : r[j].ts <= r[i].ts + Window
    BY <1>3 DEF Accounts, IsList
  <2>3. \A i \in 1..Len(r) : r[i].ts % Bucket = 0 /\ r[i].ts <= now /\ r[i].count > 0
    BY <1>3 DEF Accounts, IsList
  <2> QED BY <1>3, <2>1, <2>2, <2>3 DEF IsList
<1>6. Exact(r, h)
  BY <1>3 DEF Accounts, Exact
<1>7. Covers(r, h, now)
  <2> SUFFICES ASSUME NEW t \in Times, h[t] > 0, Start(t) >= now - Window
               PROVE  \E i \in 1..Len(r) : r[i].ts = Start(t)
    BY DEF Covers, Accounts
  <2>1. PICK i \in 1..Len(b) : b[i].ts = Start(t)
    BY DEF Accounts, Covers
  <2>2. i > k
    BY <1>2, <2>1 DEF cutoff
  <2>3. i - k \in 1..Len(r) /\ (i - k) + k = i
    BY <1>1, <1>3, <2>2
  <2>4. r[i - k].ts = Start(t)
    BY <1>3, <2>1, <2>3
  <2> QED BY <2>3, <2>4
<1> QED BY <1>4, <1>5, <1>6, <1>7 DEF Accounts, r

\* What a device is charged, or admitted, by the second.
History == [Times -> Nat]

\* Charging n in a second adds n to the sums over that second.
LEMMA SumCharged ==
    ASSUME NEW h \in History, NEW u \in Times, NEW n \in Nat, NEW S \in SUBSET Times
    PROVE  SumFunctionOnSet([h EXCEPT ![u] = @ + n], S) =
               SumFunctionOnSet(h, S) + (IF u \in S THEN n ELSE 0)
<1> DEFINE g == [h EXCEPT ![u] = @ + n]
<1>1. IsFiniteSet(S) /\ IsFiniteSet(S \ {u})
  BY TimesFinite
<1>2. \A x \in Times : h[x] \in Nat /\ g[x] \in Nat
  BY DEF History
<1>3. g[u] = h[u] + n /\ \A x \in S \ {u} : g[x] = h[x]
  BY DEF History
<1>4. Naturals(h, S) /\ Naturals(g, S) /\ Naturals(h, S \ {u})
  BY <1>2 DEF Naturals
<1> HIDE DEF g
<1>5. SumFunctionOnSet(g, S \ {u}) = SumFunctionOnSet(h, S \ {u})
  BY <1>1, <1>3, <1>4, SumSame
<1>6. SumFunctionOnSet(h, S \ {u}) \in Nat
  BY <1>1, <1>4, SumIsNatural
<1>7. CASE u \in S
  <2>1. /\ SumFunctionOnSet(h, S) = h[u] + SumFunctionOnSet(h, S \ {u})
        /\ SumFunctionOnSet(g, S) = g[u] + SumFunctionOnSet(g, S \ {u})
    BY <1>1, <1>4, <1>7, SumRemove
  <2>2. h[u] \in Nat
    BY <1>2
  <2> QED BY <1>3, <1>5, <1>6, <1>7, <2>1, <2>2 DEF g
<1>8. CASE u \notin S
  <2>1. S \ {u} = S
    BY <1>8
  <2> QED BY <1>5, <1>6, <1>8, <2>1 DEF g
<1> QED BY <1>7, <1>8

\* A charge keeps the account, whether it finds an entry for the current
\* bucket or adds one.
LEMMA ChargeAccounts ==
    ASSUME NEW b, NEW h \in History, now \in Times, NEW n \in Nat \ {0},
           Accounts(b, h, now)
    PROVE  /\ Accounts(Charge(b, n), [h EXCEPT ![now] = @ + n], now)
           /\ Fresh(Charge(b, n), now)
<1> DEFINE g == [h EXCEPT ![now] = @ + n]
           r == Live(b)
           last == Len(r)
           cur == Start(now)
           c == Charge(b, n)
<1>1. now \in Nat /\ Times \subseteq Nat
  BY TimeAssumption DEF Times
<1>2. IsList(r, now) /\ Exact(r, h) /\ Covers(r, h, now) /\ Fresh(r, now)
  BY <1>1, LiveAccounts DEF Accounts
<1>3. /\ cur \in Nat /\ cur % Bucket = 0 /\ cur <= now /\ now < cur + Bucket
      /\ cur >= now - Window
  <2>1. /\ cur \in Nat /\ cur % Bucket = 0 /\ cur <= now /\ now < cur + Bucket
    BY <1>1, StartOf
  <2> HIDE DEF cur
  <2> QED BY <2>1, <1>1, TimeAssumption
<1>4. CurrentTs = cur
  BY DEF CurrentTs, Start
<1>5. /\ r \in Seq(Listed) /\ last \in Nat
      /\ \A i \in 1..last : r[i] \in Listed
      /\ \A i \in 1..last : r[i].ts \in Nat /\ r[i].count \in Nat
      /\ \A i \in 1..last : r[i].ts % Bucket = 0 /\ r[i].ts <= now /\ r[i].count > 0
      /\ \A i, j \in 1..last : i < j => r[i].ts < r[j].ts
      /\ \A i \in 1..last : r[i].ts >= now - Window
  BY <1>2, Elements DEF IsList, Fresh
<1>6. \A i \in 1..last : r[i].ts <= cur
  <2> SUFFICES ASSUME NEW i \in 1..last, cur < r[i].ts PROVE FALSE
    BY <1>3, <1>5
  <2> HIDE DEF cur, last, r
  <2>1. cur + Bucket <= r[i].ts
    BY <1>3, <1>5, StartsApart
  <2> QED BY <1>1, <1>3, <1>5, <2>1, TimeAssumption
<1>7. \A i \in 1..last : r[i].ts # cur =>
          SumFunctionOnSet(g, Seconds(r[i].ts)) = r[i].count
  <2> SUFFICES ASSUME NEW i \in 1..last, r[i].ts # cur
               PROVE  SumFunctionOnSet(g, Seconds(r[i].ts)) = r[i].count
    OBVIOUS
  <2>1. now \notin Seconds(r[i].ts)
    BY <1>1, <1>5, OwnStart DEF Seconds
  <2>2. Seconds(r[i].ts) \in SUBSET Times
    BY DEF Seconds
  <2>3. SumFunctionOnSet(g, Seconds(r[i].ts)) = SumFunctionOnSet(h, Seconds(r[i].ts)) + 0
    BY <2>1, <2>2, SumCharged
  <2>4. SumFunctionOnSet(h, Seconds(r[i].ts)) = r[i].count /\ r[i].count \in Nat
    BY <1>2, <1>5 DEF Exact
  <2> QED BY <2>3, <2>4
<1>8. now \in Seconds(cur) /\ Seconds(cur) \in SUBSET Times
  BY <1>3 DEF Seconds
<1>9. SumFunctionOnSet(g, Seconds(cur)) = SumFunctionOnSet(h, Seconds(cur)) + n
  BY <1>8, SumCharged
<1>10. \A t \in Times : g[t] > 0 => h[t] > 0 \/ t = now
  BY DEF History
<1> HIDE DEF g, r, last, cur
<1>11. CASE r # <<>> /\ r[last].ts = cur
  <2> DEFINE m == r[last].count
  <2>1. c = [r EXCEPT ![last].count = @ + n]
    BY <1>4, <1>11 DEF Charge, r, last, c
  <2>2. last \in 1..last
    BY <1>5, <1>11 DEF last
  <2>3. /\ c \in Seq(Listed) /\ Len(c) = last
        /\ \A i \in 1..last : c[i].ts = r[i].ts
        /\ \A i \in 1..last : i # last => c[i].count = r[i].count
        /\ c[last].count = r[last].count + n
    <3>1. r \in [1..last -> Listed] /\ last = Len(r)
      BY <1>5 DEF last
    <3>2. r[last] \in [ts : Nat, count : Nat]
      BY <3>1, <2>2 DEF Listed
    <3>3. [r[last] EXCEPT !.count = @ + n] = [ts |-> r[last].ts, count |-> r[last].count + n]
      BY <3>2
    <3>4. c = [r EXCEPT ![last] = [ts |-> r[last].ts, count |-> r[last].count + n]]
      BY <2>1, <3>3
    <3>5. [ts |-> r[last].ts, count |-> r[last].count + n] \in Listed
      BY <1>5, <2>2 DEF Listed
    <3> QED BY <3>1, <3>4, <3>5, <2>2, <1>5
  <2> HIDE DEF c
  <2>4. IsList(c, now)
    <3>1. \A i \in 1..Len(c) : c[i].ts % Bucket = 0 /\ c[i].ts <= now /\ c[i].count > 0
      <4> SUFFICES ASSUME NEW i \in 1..last
                   PROVE  c[i].ts % Bucket = 0 /\ c[i].ts <= now /\ c[i].count > 0
        BY <2>3
      <4>1. CASE i = last
        BY <1>5, <2>2, <2>3, <4>1
      <4>2. CASE i # last
        BY <1>5, <2>3, <4>2
      <4> QED BY <4>1, <4>2
    <3>2. \A i, j \in 1..Len(c) : i < j => c[i].ts < c[j].ts
      BY <1>5, <2>3
    <3>3. \A i, j \in 1..Len(c) : c[j].ts <= c[i].ts + Window
      <4> SUFFICES ASSUME NEW i \in 1..last, NEW j \in 1..last
                   PROVE  r[j].ts <= r[i].ts + Window
        BY <2>3
      <4> QED BY <1>1, <1>5, TimeAssumption
    <3> QED BY <2>3, <3>1, <3>2, <3>3 DEF IsList
  <2>5. Exact(c, g)
    <3> SUFFICES ASSUME NEW i \in 1..last
                 PROVE  c[i].count = SumFunctionOnSet(g, Seconds(c[i].ts))
      BY <2>3 DEF Exact
    <3>1. CASE i = last
      <4>1. r[last].count = SumFunctionOnSet(h, Seconds(cur))
        BY <1>2, <1>11, <2>2 DEF Exact, last
      <4> QED BY <1>9, <1>11, <2>3, <3>1, <4>1
    <3>2. CASE i # last
      <4>1. r[i].ts < r[last].ts
        BY <1>5, <2>2, <3>2
      <4>2. r[i].ts # cur
        BY <4>1, <1>5, <1>11, <1>3
      <4> QED BY <1>7, <2>3, <3>2, <4>2
    <3> QED BY <3>1, <3>2
  <2>6. Covers(c, g, now)
    <3> SUFFICES ASSUME NEW t \in Times, g[t] > 0
                 PROVE  /\ t <= now
                        /\ Start(t) >= now - Window => \E i \in 1..Len(c) : c[i].ts = Start(t)
      BY DEF Covers
    <3>1. CASE t = now
      BY <1>1, <1>11, <2>2, <2>3, <3>1 DEF cur
    <3>2. CASE h[t] > 0
      BY <1>2, <2>3, <3>2 DEF Covers, last
    <3> QED BY <1>10, <3>1, <3>2
  <2>7. Fresh(c, now)
    BY <1>5, <2>3 DEF Fresh
  <2> QED BY <2>4, <2>5, <2>6, <2>7 DEF Accounts, c, g
<1>12. CASE ~ (r # <<>> /\ r[last].ts = cur)
  <2>1. c = Append(r, [ts |-> cur, count |-> n])
    BY <1>4, <1>12 DEF Charge, r, last, c
  <2>2. /\ c \in Seq(Listed) /\ Len(c) = last + 1
        /\ \A i \in 1..last : c[i] = r[i]
        /\ c[last + 1] = [ts |-> cur, count |-> n]
    <3>1. [ts |-> cur, count |-> n] \in Listed
      BY <1>3 DEF Listed
    <3>2. last = Len(r)
      BY DEF last
    <3> QED BY <1>5, <2>1, <3>1, <3>2
  <2>3. c[last + 1].ts = cur /\ c[last + 1].count = n
    BY <2>2
  <2>4. \A i \in 1..last : r[i].ts < cur
    <3> SUFFICES ASSUME NEW i \in 1..last, r[i].ts = cur PROVE FALSE
      BY <1>3, <1>5, <1>6
    <3>1. last \in 1..last /\ r # <<>>
      BY <1>5 DEF last
    <3>2. CASE i = last
      BY <1>12, <3>1, <3>2
    <3>3. CASE i # last
      <4>1. r[i].ts < r[last].ts
        BY <1>5, <3>1, <3>3
      <4> QED BY <1>3, <1>5, <1>6, <3>1, <4>1
    <3> QED BY <3>2, <3>3
  <2> HIDE DEF c
  <2>5. \A i \in 1..Len(c) : i \in 1..last \/ i = last + 1
    BY <1>5, <2>2
  <2>6. IsList(c, now) /\ Fresh(c, now)
    <3>1. \A i \in 1..Len(c) : c[i].ts % Bucket = 0 /\ c[i].ts <= now /\ c[i].count > 0
      BY <1>3, <1>5, <2>2, <2>3, <2>5
    <3>2. \A i, j \in 1..Len(c) : i < j => c[i].ts < c[j].ts
      <4> SUFFICES ASSUME NEW i \in 1..Len(c), NEW j \in 1..Len(c), i < j
                   PROVE  c[i].ts < c[j].ts
        OBVIOUS
      <4>1. i \in 1..last
        BY <1>5, <2>2
      <4>2. CASE j \in 1..last
        BY <1>5, <2>2, <4>1, <4>2
      <4>3. CASE j = last + 1
        BY <2>2, <2>3, <2>4, <4>1, <4>3
      <4> QED BY <2>5, <4>2, <4>3
    <3>3. \A i \in 1..Len(c) : c[i].ts \in Nat /\ c[i].ts >= now - Window
      BY <1>3, <1>5, <2>2, <2>3, <2>5
    <3>4. \A i, j \in 1..Len(c) : c[j].ts <= c[i].ts + Window
      BY <1>1, <3>1, <3>3, TimeAssumption
    <3> QED BY <2>2, <3>1, <3>2, <3>3, <3>4 DEF IsList, Fresh
  <2>7. SumFunctionOnSet(h, Seconds(cur)) = 0
    <3>1. ASSUME NEW t \in Seconds(cur) PROVE h[t] = 0
      <4>1. t \in Times /\ t \in Nat /\ Start(t) = cur
        BY <1>1, <1>3, OwnStart DEF Seconds
      <4>2. ~ (h[t] > 0)
        <5> SUFFICES ASSUME h[t] > 0 PROVE FALSE
          OBVIOUS
        <5>1. \E i \in 1..last : r[i].ts = cur
          BY <1>2, <1>3, <4>1 DEF Covers, last
        <5> QED BY <2>4, <5>1, <1>3
      <4> QED BY <4>1, <4>2 DEF History
    <3> QED BY <1>8, <3>1, TimesFinite, SumOfZeros
  <2>8. Exact(c, g)
    <3> SUFFICES ASSUME NEW i \in 1..Len(c)
                 PROVE  c[i].count = SumFunctionOnSet(g, Seconds(c[i].ts))
      BY DEF Exact
    <3>1. CASE i = last + 1
      BY <1>9, <2>3, <2>7, <3>1
    <3>2. CASE i \in 1..last
      <4>1. r[i].ts # cur
        BY <2>4, <3>2, <1>3, <1>5
      <4> QED BY <1>7, <2>2, <3>2, <4>1
    <3> QED BY <2>5, <3>1, <3>2
  <2>9. Covers(c, g, now)
    <3> SUFFICES ASSUME NEW t \in Times, g[t] > 0
                 PROVE  /\ t <= now
                        /\ Start(t) >= now - Window => \E i \in 1..Len(c) : c[i].ts = Start(t)
      BY DEF Covers
    <3>1. last + 1 \in 1..Len(c) /\ 1..last \subseteq 1..Len(c)
      BY <1>5, <2>2
    <3>2. CASE t = now
      BY <1>1, <2>3, <3>1, <3>2 DEF cur
    <3>3. CASE h[t] > 0
      BY <1>2, <2>2, <3>1, <3>3 DEF Covers, last
    <3> QED BY <1>10, <3>2, <3>3
  <2> QED BY <2>6, <2>8, <2>9 DEF Accounts, c, g
<1> QED BY <1>11, <1>12

-----------------------------------------------------------------------------
(***************************************************************************)
(* The total of a list against exact windows.                              *)
(***************************************************************************)
\* The seconds that the first n buckets of r stand for.
Covered(r, n) == {u \in Times : \E i \in 1..n : u \in Seconds(r[i].ts)}

\* The total of a list is the sum of the history over the seconds that its
\* entries stand for: no second counts twice.
LEMMA TotalIsSum ==
    ASSUME NEW r, NEW h \in History, NEW clock \in Nat, Accounts(r, h, clock)
    PROVE  Total(r) = SumFunctionOnSet(h, Covered(r, Len(r)))
<1> DEFINE f == [i \in DOMAIN r |-> r[i].count]
<1>1. /\ Len(r) \in Nat /\ DOMAIN r = 1..Len(r)
      /\ \A i \in 1..Len(r) : r[i].ts \in Nat /\ r[i].count \in Nat
      /\ \A i \in 1..Len(r) : r[i].ts % Bucket = 0
      /\ \A i, j \in 1..Len(r) : i < j => r[i].ts < r[j].ts
      /\ \A i \in 1..Len(r) : r[i].count = SumFunctionOnSet(h, Seconds(r[i].ts))
  BY Elements DEF Accounts, IsList, Exact
<1>2. \A i \in 1..Len(r) : f[i] = r[i].count
  BY <1>1
<1> HIDE DEF f
<1> DEFINE P(n) == SumFunctionOnSet(f, 1..n) = SumFunctionOnSet(h, Covered(r, n))
           L == {n \in Nat : n <= Len(r) => P(n)}
<1>3. 0 \in L
  <2>1. Covered(r, 0) = {} /\ 1..0 = {}
    BY DEF Covered
  <2> QED BY <2>1, SumOfNothing
<1>4. ASSUME NEW n \in L PROVE n + 1 \in L
  <2>0. n \in Nat
    OBVIOUS
  <2> SUFFICES ASSUME n + 1 <= Len(r) PROVE P(n + 1)
    BY <2>0
  <2>1. P(n)
    BY <2>0, <1>1
  <2> HIDE DEF L
  <2> DEFINE C == Covered(r, n)
             S == Seconds(r[n + 1].ts)
  <2>2. n + 1 \in 1..Len(r) /\ 1..n + 1 = (1..n) \union {n + 1} /\ n + 1 \notin 1..n
        /\ 1..n \subseteq 1..Len(r)
    BY <2>0, <1>1
  <2>3. Covered(r, n + 1) = C \union S
    BY <2>2 DEF Covered, Seconds
  <2>4. C \intersect S = {}
    <3> SUFFICES ASSUME NEW u \in Times, NEW i \in 1..n,
                        u \in Seconds(r[i].ts), u \in Seconds(r[n + 1].ts)
                 PROVE  FALSE
      BY DEF Covered
    <3>1. i \in 1..Len(r) /\ i < n + 1
      BY <2>0, <2>2
    <3>2. /\ r[i].ts \in Nat /\ r[n + 1].ts \in Nat /\ r[i].ts < r[n + 1].ts
          /\ r[i].ts % Bucket = 0 /\ r[n + 1].ts % Bucket = 0
      BY <1>1, <2>2, <3>1
    <3>3. u \in Nat /\ u < r[i].ts + Bucket /\ r[n + 1].ts <= u
      BY TimeAssumption DEF Seconds, Times
    <3> QED BY <3>2, <3>3, StartsApart, TimeAssumption
  <2>5. /\ C \in SUBSET Times /\ S \in SUBSET Times
        /\ IsFiniteSet(C) /\ IsFiniteSet(S) /\ IsFiniteSet(1..n)
    <3>1. C \in SUBSET Times /\ S \in SUBSET Times
      BY DEF Covered, Seconds
    <3>2. IsFiniteSet(1..n)
      BY <2>0, FS_Interval
    <3> QED BY <3>1, <3>2, TimesFinite
  <2>6. Naturals(h, C \union S)
    BY <2>5 DEF Naturals, History
  <2> HIDE DEF C, S
  <2>7. SumFunctionOnSet(h, C \union S) = SumFunctionOnSet(h, C) + SumFunctionOnSet(h, S)
    BY <2>4, <2>5, <2>6, SumUnion
  <2>8. SumFunctionOnSet(f, (1..n) \union {n + 1}) = f[n + 1] + SumFunctionOnSet(f, 1..n)
    <3>1. Naturals(f, (1..n) \union {n + 1})
      BY <1>1, <1>2, <2>2 DEF Naturals
    <3> QED BY <2>2, <2>5, <3>1, SumAdd
  <2>9. f[n + 1] = SumFunctionOnSet(h, S)
    BY <1>1, <1>2, <2>2 DEF S
  <2>10. SumFunctionOnSet(h, C) \in Nat /\ SumFunctionOnSet(h, S) \in Nat
    BY <2>5, <2>6, SumIsNatural DEF Naturals
  <2>11. SumFunctionOnSet(f, 1..n) = SumFunctionOnSet(h, C)
    BY <2>1 DEF C
  <2>12. SumFunctionOnSet(f, 1..n + 1) = SumFunctionOnSet(f, (1..n) \union {n + 1})
         /\ SumFunctionOnSet(h, Covered(r, n + 1)) = SumFunctionOnSet(h, C \union S)
    BY <2>2, <2>3
  <2> QED BY <2>7, <2>8, <2>9, <2>10, <2>11, <2>12
<1>5. L = Nat
  <2>1. L \in SUBSET Nat
    OBVIOUS
  <2> HIDE DEF L
  <2> QED BY <1>3, <1>4, <2>1, Induction
<1>6. P(Len(r))
  <2> HIDE DEF P
  <2> QED BY <1>1, <1>5
<1>7. Total(r) = SumFunctionOnSet(f, 1..Len(r))
  BY <1>1 DEF Total, SumFunction, f
<1> QED BY <1>6, <1>7

\* The total of a pruned list lies between the two exact windows.
LEMMA FreshBounds ==
    ASSUME NEW r, NEW h \in History, NEW clock \in Times,
           Accounts(r, h, clock), Fresh(r, clock)
    PROVE  /\ Items(h, clock - Window + Bucket - 1, clock) <= Total(r)
           /\ Total(r) <= Items(h, clock - Window, clock)
<1> DEFINE C == Covered(r, Len(r))
           From == {t \in Times : clock - Window <= t /\ t <= clock}
           Late == {t \in Times : clock - Window + Bucket - 1 <= t /\ t <= clock}
<1>1. clock \in Nat /\ Times \subseteq Nat
  BY TimeAssumption DEF Times
<1>2. /\ Len(r) \in Nat
      /\ \A i \in 1..Len(r) : r[i].ts \in Nat
      /\ \A i \in 1..Len(r) : r[i].ts >= clock - Window
  BY Elements DEF Accounts, IsList, Fresh
<1>3. /\ C \in SUBSET Times /\ From \in SUBSET Times /\ Late \in SUBSET Times
      /\ IsFiniteSet(C) /\ IsFiniteSet(From) /\ IsFiniteSet(Late)
  <2>1. C \in SUBSET Times /\ From \in SUBSET Times /\ Late \in SUBSET Times
    BY DEF Covered
  <2> QED BY <2>1, TimesFinite
<1>4. \A S \in SUBSET Times : Naturals(h, S)
  BY DEF Naturals, History
<1>5. Total(r) = SumFunctionOnSet(h, C)
  BY <1>1, TotalIsSum
<1>6. \A t \in C : t >= clock - Window
  <2> SUFFICES ASSUME NEW t \in Times, NEW i \in 1..Len(r), t \in Seconds(r[i].ts)
               PROVE  t >= clock - Window
    BY DEF Covered
  <2> QED BY <1>1, <1>2, TimeAssumption DEF Seconds
<1>7. \A t \in Times \ C : t \in Late => h[t] = 0
  <2> SUFFICES ASSUME NEW t \in Times, t \in Late, h[t] # 0
               PROVE  t \in C
    OBVIOUS
  <2>1. h[t] > 0 /\ t \in Nat
    BY <1>1 DEF History
  <2>2. Start(t) \in Nat /\ Start(t) <= t /\ t < Start(t) + Bucket
    BY <2>1, StartOf
  <2>3. Start(t) >= clock - Window
    BY <1>1, <2>1, <2>2, TimeAssumption
  <2>4. PICK i \in 1..Len(r) : r[i].ts = Start(t)
    BY <2>1, <2>3 DEF Accounts, Covers
  <2> QED BY <2>2, <2>4 DEF Covered, Seconds
<1>8. \A t \in C : t \notin From => h[t] = 0
  <2> SUFFICES ASSUME NEW t \in C, t \notin From, h[t] # 0 PROVE FALSE
    OBVIOUS
  <2>1. t \in Times /\ h[t] > 0
    BY <1>3 DEF History
  <2>2. t <= clock
    BY <2>1 DEF Accounts, Covers
  <2> QED BY <1>6, <2>1, <2>2
<1> HIDE DEF C, From, Late
<1>9. SumFunctionOnSet(h, Late) <= SumFunctionOnSet(h, C)
  <2>1. \A t \in Late \ C : h[t] = 0
    BY <1>3, <1>7
  <2>2. Naturals(h, Late \union C)
    BY <1>3, <1>4
  <2> QED BY <1>3, <2>1, <2>2, SumWithin
<1>10. SumFunctionOnSet(h, C) <= SumFunctionOnSet(h, From)
  <2>1. \A t \in C \ From : h[t] = 0
    BY <1>8
  <2>2. Naturals(h, C \union From)
    BY <1>3, <1>4
  <2> QED BY <1>3, <2>1, <2>2, SumWithin
<1> QED BY <1>5, <1>9, <1>10 DEF Items, From, Late

\* The window in which the limit holds.
Span == Window - Bucket

\* A request that is let through leaves every window below the limit: in the
\* windows it falls into, what was admitted was charged, and is in the total.
LEMMA AdmittedStaysBelow ==
    ASSUME NEW b, NEW h \in History, NEW a \in History, now \in Times,
           NEW n \in Nat \ {0}, Accounts(b, h, now),
           \A t \in Times : a[t] <= h[t],
           \A t \in Times : Items(a, t - Span, t) <= Limit,
           Total(Charge(b, n)) <= Limit
    PROVE  \A t \in Times : Items([a EXCEPT ![now] = @ + n], t - Span, t) <= Limit
<1> DEFINE g == [h EXCEPT ![now] = @ + n]
           e == [a EXCEPT ![now] = @ + n]
           c == Charge(b, n)
           Late == {u \in Times : now - Window + Bucket - 1 <= u /\ u <= now}
<1>1. now \in Nat /\ Times \subseteq Nat /\ Window \in Nat /\ Bucket \in Nat
  BY TimeAssumption DEF Times
<1>2. Accounts(c, g, now) /\ Fresh(c, now)
  BY ChargeAccounts
<1>3. g \in History /\ e \in History /\ \A u \in Times : e[u] <= g[u]
  <2>1. g \in History /\ e \in History
    BY DEF History
  <2>2. ASSUME NEW u \in Times PROVE e[u] <= g[u]
    <3>1. a[u] \in Nat /\ h[u] \in Nat /\ a[u] <= h[u]
      BY DEF History
    <3>2. CASE u = now
      <4>1. e[u] = a[u] + n /\ g[u] = h[u] + n
        BY <3>2 DEF History
      <4> QED BY <3>1, <4>1
    <3>3. CASE u # now
      <4>1. e[u] = a[u] /\ g[u] = h[u]
        BY <3>3 DEF History
      <4> QED BY <3>1, <4>1
    <3> QED BY <3>2, <3>3
  <2> QED BY <2>1, <2>2
<1> HIDE DEF c, g
<1>4. Items(g, now - Window + Bucket - 1, now) <= Total(c) /\ Total(c) <= Limit
  BY <1>2, <1>3, FreshBounds DEF c
<1> SUFFICES ASSUME NEW t \in Times PROVE Items(e, t - Span, t) <= Limit
  OBVIOUS
<1> DEFINE R == {u \in Times : t - Span <= u /\ u <= t}
<1>5. R \in SUBSET Times /\ IsFiniteSet(R) /\ Late \in SUBSET Times /\ IsFiniteSet(Late)
  <2>1. R \in SUBSET Times /\ Late \in SUBSET Times
    OBVIOUS
  <2> QED BY <2>1, TimesFinite
<1>6. Items(e, t - Span, t) = SumFunctionOnSet(e, R)
  BY DEF Items
<1>7. CASE now \notin R
  <2>1. SumFunctionOnSet(e, R) = SumFunctionOnSet(a, R) + 0
    <3> HIDE DEF R
    <3> QED BY <1>5, <1>7, SumCharged
  <2>2. SumFunctionOnSet(a, R) \in Nat
    BY <1>5, SumIsNatural DEF Naturals, History
  <2>3. SumFunctionOnSet(a, R) <= Limit
    BY DEF Items
  <2> QED BY <1>6, <2>1, <2>2, <2>3
<1>8. CASE now \in R
  <2>1. \A S \in SUBSET Times : Naturals(g, S) /\ Naturals(e, S)
    BY <1>3 DEF Naturals, History
  <2>2. SumFunctionOnSet(e, R) <= SumFunctionOnSet(g, R)
    BY <1>3, <1>5, <2>1, SumMonotone
  <2>3. \A u \in R \ Late : g[u] = 0
    <3> SUFFICES ASSUME NEW u \in R, u \notin Late, g[u] # 0 PROVE FALSE
      OBVIOUS
    <3>1. u \in Times /\ g[u] > 0
      BY <1>3 DEF History
    <3>2. u <= now
      BY <1>2, <3>1 DEF Accounts, Covers
    <3> QED BY <1>1, <1>8, <3>1, <3>2 DEF Span
  <2>4. SumFunctionOnSet(g, R) <= SumFunctionOnSet(g, Late)
    <3>1. Naturals(g, R \union Late)
      BY <1>5, <2>1
    <3> HIDE DEF R, Late
    <3> QED BY <1>5, <2>3, <3>1, SumWithin
  <2>5. SumFunctionOnSet(g, Late) <= Total(c)
    BY <1>4 DEF Items
  <2>6. /\ SumFunctionOnSet(e, R) \in Nat /\ SumFunctionOnSet(g, R) \in Nat
        /\ SumFunctionOnSet(g, Late) \in Nat
    BY <1>5, <2>1, SumIsNatural
  <2>7. Total(c) \in Int
    <3>1. Total(c) = SumFunctionOnSet(g, Covered(c, Len(c)))
      BY <1>1, <1>2, <1>3, TotalIsSum
    <3>2. Covered(c, Len(c)) \in SUBSET Times
      BY DEF Covered
    <3> QED BY <2>1, <3>1, <3>2, TimesFinite, SumIsNatural
  <2> HIDE DEF R, Late, e
  <2> QED BY <1>4, <1>6, <2>2, <2>4, <2>5, <2>6, <2>7, LimitAssumption
<1> QED BY <1>7, <1>8
-----------------------------------------------------------------------------
(***************************************************************************)
(* The inductive invariant, and the theorems.                              *)
(***************************************************************************)
\* The types that the sums need.
Typed ==
    /\ now \in Times
    /\ buckets \in [Workers -> [Devices -> Seq(Listed)]]
    /\ charged \in [Workers -> [Devices -> [Times -> 0..MaxPerSecond]]]
    /\ admitted \in [Workers -> [Devices -> [Times -> 0..MaxPerSecond]]]

\* Every list is an account of what its device was charged.
Accounted == \A w \in Workers, d \in Devices : Accounts(buckets[w][d], charged[w][d], now)

\* What was let through was charged.
AdmittedWasCharged ==
    \A w \in Workers, d \in Devices, t \in Times : admitted[w][d][t] <= charged[w][d][t]

\* The inductive invariant.
IInv == Typed /\ Accounted /\ AdmittedWasCharged /\ LimitHolds

\* The types of the histories.
LEMMA Histories ==
    ASSUME Typed
    PROVE  /\ now \in Nat
           /\ \A w \in Workers, d \in Devices :
                  charged[w][d] \in History /\ admitted[w][d] \in History
<1>1. now \in Nat /\ 0..MaxPerSecond \subseteq Nat
  BY TimeAssumption DEF Typed, Times
<1>2. \A h \in [Times -> 0..MaxPerSecond] : h \in History
  BY <1>1 DEF History
<1> QED BY <1>1, <1>2 DEF Typed

\* A process starts with empty lists.
THEOREM InitIInv == Init => IInv
<1> SUFFICES ASSUME Init PROVE IInv
  OBVIOUS
<1> DEFINE h0 == [t \in Times |-> 0]
<1>1. Typed
  <2>1. h0 \in [Times -> 0..MaxPerSecond] /\ 0 \in Times /\ <<>> \in Seq(Listed)
    BY TimeAssumption DEF Times
  <2> QED BY <2>1 DEF Init, Typed
<1>2. \A w \in Workers, d \in Devices :
          buckets[w][d] = <<>> /\ charged[w][d] = h0 /\ admitted[w][d] = h0
  BY DEF Init
<1>3. Accounted
  <2>1. IsList(<<>>, now)
    BY DEF IsList
  <2>2. Exact(<<>>, h0) /\ Covers(<<>>, h0, now)
    BY DEF Exact, Covers
  <2> QED BY <1>2, <2>1, <2>2 DEF Accounted, Accounts
<1>4. AdmittedWasCharged
  BY <1>2 DEF AdmittedWasCharged
<1>5. LimitHolds
  <2> SUFFICES ASSUME NEW t \in Times PROVE Items(h0, t - (Window - Bucket), t) <= Limit
    BY <1>2 DEF LimitHolds
  <2> DEFINE R == {u \in Times : t - (Window - Bucket) <= u /\ u <= t}
  <2>1. R \in SUBSET Times
    OBVIOUS
  <2>2. IsFiniteSet(R)
    BY <2>1, TimesFinite
  <2>3. SumFunctionOnSet(h0, R) = 0
    BY <2>2, SumOfZeros
  <2> QED BY <2>3, LimitAssumption DEF Items
<1> QED BY <1>1, <1>3, <1>4, <1>5 DEF IInv

\* Time passes: less is within the window, and the lists stay.
LEMMA WaitKeepsIInv ==
    ASSUME IInv, Wait
    PROVE  IInv'
<1>1. Typed /\ Accounted /\ AdmittedWasCharged /\ LimitHolds
  BY DEF IInv
<1>2. /\ now \in Nat /\ now' = now + 1 /\ now' \in Times
      /\ buckets' = buckets /\ charged' = charged /\ admitted' = admitted
  BY <1>1, TimeAssumption DEF Wait, Typed, Times
<1>3. Typed'
  BY <1>1, <1>2 DEF Typed
<1>4. Accounted'
  <2> SUFFICES ASSUME NEW w \in Workers, NEW d \in Devices
               PROVE  Accounts(buckets[w][d], charged[w][d], now + 1)
    BY <1>2 DEF Accounted
  <2> DEFINE b == buckets[w][d]
             h == charged[w][d]
  <2>1. IsList(b, now) /\ Exact(b, h) /\ Covers(b, h, now)
    BY <1>1 DEF Accounted, Accounts
  <2> HIDE DEF b, h
  <2>2. IsList(b, now + 1)
    <3>1. \A i \in 1..Len(b) : b[i].ts \in Nat
      BY <2>1, Elements DEF IsList
    <3> QED BY <1>2, <2>1, <3>1 DEF IsList
  <2>3. Covers(b, h, now + 1)
    <3> SUFFICES ASSUME NEW t \in Times, h[t] > 0
                 PROVE  /\ t <= now + 1
                        /\ Start(t) >= (now + 1) - Window =>
                               \E i \in 1..Len(b) : b[i].ts = Start(t)
      BY DEF Covers
    <3>1. t \in Nat /\ Start(t) \in Nat
      BY TimeAssumption, StartOf DEF Times
    <3> QED BY <1>2, <2>1, <3>1, TimeAssumption DEF Covers
  <2> QED BY <2>1, <2>2, <2>3 DEF Accounts, b, h
<1>5. AdmittedWasCharged' /\ LimitHolds'
  BY <1>1, <1>2 DEF AdmittedWasCharged, LimitHolds, Items
<1> QED BY <1>3, <1>4, <1>5 DEF IInv

\* A request keeps the invariant, whether it is let through or refused.
LEMMA CheckKeepsIInv ==
    ASSUME IInv, NEW w \in Workers, NEW d \in Devices, NEW n \in Counts, Check(w, d, n)
    PROVE  IInv'
<1> DEFINE b == buckets[w][d]
           h == charged[w][d]
           a == admitted[w][d]
           c == Charge(b, n)
           g == [h EXCEPT ![now] = @ + n]
           e == IF Total(c) > Limit THEN a ELSE [a EXCEPT ![now] = @ + n]
<1>1. Typed /\ Accounted /\ AdmittedWasCharged /\ LimitHolds
  BY DEF IInv
<1>2. /\ now \in Times /\ now \in Nat /\ n \in Nat \ {0}
      /\ h \in History /\ a \in History
      /\ h[now] \in Nat /\ a[now] \in Nat /\ h[now] + n \in 0..MaxPerSecond
  <2>1. /\ now \in Times /\ now \in Nat /\ n \in Nat \ {0}
        /\ h \in History /\ a \in History
    BY <1>1, Histories, LimitAssumption DEF Typed
  <2>2. h[now] \in Nat /\ a[now] \in Nat
    BY <2>1 DEF History
  <2> QED BY <2>1, <2>2, TimeAssumption DEF Check
<1>3. now' = now
  BY DEF Check
<1>4. buckets' = [buckets EXCEPT ![w][d] = c]
  BY DEF Check
<1>5. charged' = [charged EXCEPT ![w][d] = g]
  BY <1>1 DEF Check, Typed
<1>6. admitted' = [admitted EXCEPT ![w][d] = e]
  BY <1>1 DEF Check, Typed
<1>7. /\ \A v \in Workers, x \in Devices :
             ~ (v = w /\ x = d) => /\ buckets'[v][x] = buckets[v][x]
                                   /\ charged'[v][x] = charged[v][x]
                                   /\ admitted'[v][x] = admitted[v][x]
      /\ buckets'[w][d] = c /\ charged'[w][d] = g /\ admitted'[w][d] = e
  BY <1>1, <1>4, <1>5, <1>6 DEF Typed
<1>8. Accounts(b, h, now) /\ \A t \in Times : a[t] <= h[t]
  BY <1>1 DEF Accounted, AdmittedWasCharged
<1>9. Accounts(c, g, now)
  BY <1>2, <1>8, ChargeAccounts
<1>10. \A t \in Times : Items(a, t - Span, t) <= Limit
  BY <1>1 DEF LimitHolds, Span
<1>11. /\ g \in [Times -> 0..MaxPerSecond] /\ e \in [Times -> 0..MaxPerSecond]
       /\ \A t \in Times : e[t] <= g[t]
  <2>1. /\ h \in [Times -> 0..MaxPerSecond] /\ a \in [Times -> 0..MaxPerSecond]
    BY <1>1 DEF Typed
  <2>2. a[now] + n \in 0..MaxPerSecond
    BY <1>2, <1>8, TimeAssumption
  <2>3. g \in [Times -> 0..MaxPerSecond] /\ e \in [Times -> 0..MaxPerSecond]
    BY <1>2, <2>1, <2>2
  <2>4. ASSUME NEW t \in Times PROVE e[t] <= g[t]
    <3>1. h[t] \in Nat /\ a[t] \in Nat /\ a[t] <= h[t]
      BY <1>2, <1>8 DEF History
    <3>2. g[t] = IF t = now THEN h[t] + n ELSE h[t]
      BY <1>2, <2>1
    <3>3. e[t] = a[t] \/ e[t] = IF t = now THEN a[t] + n ELSE a[t]
      BY <1>2, <2>1
    <3> QED BY <1>2, <3>1, <3>2, <3>3
  <2> QED BY <2>3, <2>4
<1>12. \A t \in Times : Items(e, t - Span, t) <= Limit
  <2>1. CASE Total(c) > Limit
    BY <1>10, <2>1
  <2>2. CASE ~ (Total(c) > Limit)
    <3>1. Total(c) <= Limit
      <4>1. Total(c) = SumFunctionOnSet(g, Covered(c, Len(c)))
        BY <1>2, <1>9, TotalIsSum DEF History
      <4>2. Covered(c, Len(c)) \in SUBSET Times /\ g \in History
        BY <1>2 DEF Covered, History
      <4>3. Total(c) \in Nat
        BY <4>1, <4>2, TimesFinite, SumIsNatural DEF Naturals, History
      <4> QED BY <2>2, <4>3, LimitAssumption
    <3> QED BY <1>2, <1>8, <1>10, <2>2, <3>1, AdmittedStaysBelow
  <2> QED BY <2>1, <2>2
<1> HIDE DEF b, h, a, c, g, e
<1>13. Typed'
  <2>1. c \in Seq(Listed)
    BY <1>9 DEF Accounts, IsList
  <2> QED BY <1>1, <1>2, <1>3, <1>4, <1>5, <1>6, <1>11, <2>1 DEF Typed
<1>14. Accounted'
  BY <1>1, <1>3, <1>7, <1>9 DEF Accounted
<1>15. AdmittedWasCharged'
  BY <1>1, <1>7, <1>11 DEF AdmittedWasCharged
<1>16. LimitHolds'
  <2> SUFFICES ASSUME NEW v \in Workers, NEW x \in Devices, NEW t \in Times
               PROVE  Items(admitted'[v][x], t - Span, t) <= Limit
    BY DEF LimitHolds, Span, Items
  <2>1. CASE v = w /\ x = d
    BY <1>7, <1>12, <2>1
  <2>2. CASE ~ (v = w /\ x = d)
    BY <1>1, <1>7, <2>2 DEF LimitHolds, Span
  <2> QED BY <2>1, <2>2
<1> QED BY <1>13, <1>14, <1>15, <1>16 DEF IInv

\* Every step keeps the invariant.
THEOREM StepIInv == IInv /\ [Next]_vars => IInv'
<1> SUFFICES ASSUME IInv, [Next]_vars PROVE IInv'
  OBVIOUS
<1>1. CASE Wait
  BY <1>1, WaitKeepsIInv
<1>2. ASSUME NEW w \in Workers, NEW d \in Devices, NEW n \in Counts, Check(w, d, n)
      PROVE  IInv'
  BY <1>2, CheckKeepsIInv
<1>3. CASE UNCHANGED vars
  BY <1>3 DEF vars, IInv, Typed, Accounted, AdmittedWasCharged, LimitHolds, Items
<1> QED BY <1>1, <1>2, <1>3 DEF Next

\* The invariant holds in every reachable state.
THEOREM Invariance == Spec => []IInv
BY InitIInv, StepIInv, PTL DEF Spec

\* The lists stay sorted, aligned and no longer than the window has buckets,
\* for every size of the window and of a bucket (rate_limit.py:37-57).
THEOREM TypeCorrect == Spec => []TypeOK
<1>1. IInv => TypeOK
  <2> SUFFICES ASSUME IInv, NEW w \in Workers, NEW d \in Devices
               PROVE  WellFormed(buckets[w][d])
    BY DEF TypeOK, IInv, Typed
  <2> DEFINE b == buckets[w][d]
  <2>1. IsList(b, now)
    BY DEF IInv, Accounted, Accounts
  <2> HIDE DEF b
  <2>2. DOMAIN b = 1..Len(b)
    BY <2>1, Elements DEF IsList
  <2> QED BY <2>1, <2>2, LengthBound DEF WellFormed, IsList, b
<1> QED BY <1>1, Invariance, PTL

\* The bucketed count is never below what was charged in a window one bucket
\* short, nor above what was charged in the whole window (rate_limit.py:31-57).
THEOREM CountIsWindowedAlways == Spec => []CountIsWindowed
<1>1. IInv => CountIsWindowed
  <2> SUFFICES ASSUME IInv, NEW w \in Workers, NEW d \in Devices
               PROVE  LET total == Total(Live(buckets[w][d]))
                      IN  /\ Items(charged[w][d], now - Window + Bucket - 1, now) <= total
                          /\ total <= Items(charged[w][d], now - Window, now)
    BY DEF CountIsWindowed
  <2>1. /\ now \in Times /\ now \in Nat /\ charged[w][d] \in History
        /\ Accounts(buckets[w][d], charged[w][d], now)
    BY Histories DEF IInv, Typed, Accounted
  <2>2. /\ Accounts(Live(buckets[w][d]), charged[w][d], now)
        /\ Fresh(Live(buckets[w][d]), now)
    BY <2>1, LiveAccounts
  <2> QED BY <2>1, <2>2, FreshBounds
<1> QED BY <1>1, Invariance, PTL

\* A process never lets more than the limit through for a device in a window
\* one bucket short of the documented one (rate_limit.py:79-94).
THEOREM LimitHoldsAlways == Spec => []LimitHolds
<1>1. IInv => LimitHolds
  BY DEF IInv
<1> QED BY <1>1, Invariance, PTL

\* All processes together let at most the limit through as often as there are
\* processes (rate_limit.py:26-28: the store is in the memory of each).
DeviceLimit ==
    \A d \in Devices, t \in Times :
        SumFunction([w \in Workers |-> Items(admitted[w][d], t - Span, t)])
            <= Cardinality(Workers) * Limit

\* DeviceLimit, for every number of processes: the factor by which the
\* documented limit is missed is never more than that number.
THEOREM DeviceLimitAlways == Spec => []DeviceLimit
<1>1. IInv => DeviceLimit
  <2> SUFFICES ASSUME IInv, NEW d \in Devices, NEW t \in Times
               PROVE  SumFunction([w \in Workers |-> Items(admitted[w][d], t - Span, t)])
                          <= Cardinality(Workers) * Limit
    BY DEF DeviceLimit
  <2> DEFINE R == {u \in Times : t - Span <= u /\ u <= t}
             f == [w \in Workers |-> Items(admitted[w][d], t - Span, t)]
  <2>1. \A w \in Workers : f[w] \in Nat
    <3> SUFFICES ASSUME NEW w \in Workers
                 PROVE  SumFunctionOnSet(admitted[w][d], R) \in Nat
      BY DEF Items
    <3>1. R \in SUBSET Times
      OBVIOUS
    <3>2. IsFiniteSet(R)
      BY <3>1, TimesFinite
    <3>3. admitted[w][d] \in History
      BY Histories DEF IInv
    <3>4. Naturals(admitted[w][d], R)
      BY <3>3 DEF Naturals, History
    <3> QED BY <3>2, <3>4, SumIsNatural
  <2>2. \A w \in Workers : f[w] <= Limit
    BY DEF IInv, LimitHolds, Span
  <2>3. DOMAIN f = Workers
    OBVIOUS
  <2> HIDE DEF f
  <2>4. SumFunctionOnSet(f, Workers) <= Cardinality(Workers) * Limit
    BY <2>1, <2>2, SumBounded, WorkersAssumption, LimitAssumption DEF Naturals
  <2> QED BY <2>3, <2>4 DEF SumFunction, f
<1> QED BY <1>1, Invariance, PTL
=============================================================================
