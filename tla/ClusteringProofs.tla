-------------------------- MODULE ClusteringProofs --------------------------
(***************************************************************************)
(* What holds of a clustering run for any observations, wherever they lie  *)
(* and however DBSCAN assigns its border points, any failures, and repairs *)
(* at any time: types, rows that say what they link to, a row for every    *)
(* group, and how far repairs are final.  And what holds of the score and  *)
(* the fusion that make an observation a member of a cluster, for any      *)
(* fits, densities and images: the last five theorems.  Both rest on the   *)
(* same lemmas about sums over finite sets.                                *)
(***************************************************************************)
EXTENDS Clustering, Scoring, FiniteSetTheorems, TLAPS

\* A table, or a list of groups, is a sequence.
IsTable(s) == s \in Seq({s[i] : i \in DOMAIN s})

Tables ==
    /\ detected \subseteq Observations
    /\ IsTable(clusters) /\ IsTable(draft)

\* What a run has written so far: one row for each group.
WrittenSoFar ==
    InTransaction =>
        /\ IsTable(found) /\ done \in 0..Len(found)
        /\ matched \subseteq DOMAIN draft
        /\ IsFiniteSet(matched) /\ Cardinality(matched) = done
        /\ {draft[c].links : c \in matched} = {found[i] : i \in 1..done}
        /\ pc = "writing" =>
            done < Len(found) /\ (target = New \/ target \in DOMAIN draft \ matched)

\* The transaction leaves alone the rows it has not written; a row that it has
\* written is open, or was repaired while it was the target.
RepairsPreserved ==
    InTransaction =>
        /\ \A c \in DOMAIN clusters :
               c \in DOMAIN draft /\ (c \notin matched => draft[c] = clusters[c])
        /\ \A r \in Repaired(clusters) \intersect matched :
               r \in raced /\ draft[r].repaired = clusters[r].repaired
        /\ pc = "writing" /\ target \in Repaired(draft) => target \in raced

-----------------------------------------------------------------------------
(***************************************************************************)
(* Induction, sums and maxima over finite sets.                            *)
(***************************************************************************)
\* A set of naturals that is not empty has a least element.
LEMMA LeastExists ==
    ASSUME NEW T \in SUBSET Nat, T # {}
    PROVE  \E n \in T : \A m \in T : n <= m
<1> DEFINE R == {p \in Nat \X Nat : p[1] < p[2]}
<1>1. IsWellFoundedOn(R, Nat)
  BY NatLessThanWellFounded DEF OpToRel
<1>2. \E x \in T : \A y \in T : ~ (<<y, x>> \in R)
  <2> HIDE DEF R
  <2> QED BY <1>1, WFMin
<1>3. \A x, y \in T : ~ (<<y, x>> \in R) => x <= y
  BY SMT
<1> QED BY <1>2, <1>3

\* Induction, with a set of naturals for the predicate: a predicate would be
\* a parameter that no prover can instantiate.
LEMMA Induction ==
    ASSUME NEW T \in SUBSET Nat, 0 \in T, \A n \in T : n + 1 \in T
    PROVE  T = Nat
<1> SUFFICES ASSUME Nat \ T # {} PROVE FALSE
  OBVIOUS
<1>1. PICK n \in Nat \ T : \A m \in Nat \ T : n <= m
  <2> DEFINE U == Nat \ T
  <2>1. U \in SUBSET Nat /\ U # {}
    OBVIOUS
  <2> QED BY <2>1, LeastExists
<1>2. n # 0 /\ n - 1 \in Nat /\ n - 1 < n
  OBVIOUS
<1>3. n - 1 \in T
  BY <1>1, <1>2
<1> QED BY <1>3, <1>2

\* The element that a fold takes from a set.
Choice(T) == CHOOSE x \in T : TRUE

\* g is the function that the fold over S is defined by.
IsFold(h, S, g) ==
    g = [T \in SUBSET S |-> IF T = {} THEN 0 ELSE h[Choice(T)] + g[T \ {Choice(T)}]]

\* g obeys the recursion of the fold on every subset of S.
Folds(h, S, g) ==
    \A T \in SUBSET S :
        g[T] = IF T = {} THEN 0 ELSE h[Choice(T)] + g[T \ {Choice(T)}]

\* The recursion defines a function: one for the sets of at most n elements
\* extends to the sets of n + 1.
LEMMA FoldExists ==
    ASSUME NEW h, NEW S, IsFiniteSet(S)
    PROVE  \E g : IsFold(h, S, g)
<1> DEFINE Step(g, T) == IF T = {} THEN 0 ELSE h[Choice(T)] + g[T \ {Choice(T)}]
           Level(n) == {T \in SUBSET S : Cardinality(T) <= n}
           L == {n \in Nat : \E g : g = [T \in Level(n) |-> Step(g, T)]}
<1>1. 0 \in L
  <2>1. \A T \in Level(0) : T = {}
    BY FS_Subset, FS_EmptySet, FS_CardinalityType
  <2> DEFINE g == [T \in Level(0) |-> 0]
  <2>2. g = [T \in Level(0) |-> Step(g, T)]
    BY <2>1
  <2> QED BY <2>2
<1>2. ASSUME NEW n \in L PROVE n + 1 \in L
  <2>1. PICK g : g = [T \in Level(n) |-> Step(g, T)]
    BY <1>2
  <2> DEFINE f == [T \in Level(n + 1) |-> Step(g, T)]
  <2>2. \A T \in Level(n + 1) : T # {} => Choice(T) \in T /\ T \ {Choice(T)} \in Level(n)
    <3> SUFFICES ASSUME NEW T \in Level(n + 1), T # {}
                 PROVE  Choice(T) \in T /\ T \ {Choice(T)} \in Level(n)
      OBVIOUS
    <3>1. Choice(T) \in T
      BY DEF Choice
    <3>2. IsFiniteSet(T)
      BY FS_Subset
    <3>3. Cardinality(T \ {Choice(T)}) = Cardinality(T) - 1 /\ Cardinality(T) \in Nat
      BY <3>1, <3>2, FS_RemoveElement, FS_CardinalityType
    <3> QED BY <3>1, <3>3
  <2>3. \A T \in Level(n) : g[T] = f[T]
    <3>1. \A T \in Level(n) : T \in Level(n + 1)
      <4> SUFFICES ASSUME NEW T \in Level(n) PROVE T \in Level(n + 1)
        OBVIOUS
      <4>1. Cardinality(T) \in Nat
        BY FS_Subset, FS_CardinalityType
      <4> QED BY <4>1
    <3> HIDE DEF Level, Step
    <3>2. \A T \in Level(n) : g[T] = Step(g, T)
      BY <2>1
    <3> QED BY <3>1, <3>2
  <2>4. \A T \in Level(n + 1) : Step(g, T) = Step(f, T)
    <3> HIDE DEF Level, f
    <3> QED BY <2>2, <2>3
  <2>5. f = [T \in Level(n + 1) |-> Step(f, T)]
    <3> HIDE DEF Level, Step
    <3> QED BY <2>4
  <2>6. n + 1 \in Nat
    OBVIOUS
  <2> HIDE DEF f, Step, Level
  <2> QED BY <2>5, <2>6
<1>3. L = Nat
  <2> HIDE DEF L
  <2>1. L \in SUBSET Nat
    BY DEF L
  <2> QED BY <1>1, <1>2, <2>1, Induction
<1>4. Cardinality(S) \in Nat /\ Level(Cardinality(S)) = SUBSET S
  <2>1. Cardinality(S) \in Nat
    BY FS_CardinalityType
  <2>2. \A T \in SUBSET S : Cardinality(T) <= Cardinality(S)
    BY FS_Subset
  <2> QED BY <2>1, <2>2
<1>5. PICK g : g = [T \in Level(Cardinality(S)) |-> Step(g, T)]
  <2> HIDE DEF Step, Level
  <2> QED BY <1>3, <1>4
<1> QED BY <1>4, <1>5 DEF IsFold

\* A set of n + 1 elements has one to choose, and n without any of them.
LEMMA OneLess ==
    ASSUME NEW T, IsFiniteSet(T), NEW n \in Nat, Cardinality(T) = n + 1
    PROVE  /\ T # {} /\ Choice(T) \in T
           /\ \A y \in T : Cardinality(T \ {y}) = n
<1>1. T # {}
  BY FS_EmptySet
<1>2. Choice(T) \in T
  BY <1>1 DEF Choice
<1>3. \A y \in T : Cardinality(T \ {y}) = n
  BY FS_RemoveElement
<1> QED BY <1>1, <1>2, <1>3

\* The sum of the community modules is such a fold.
LEMMA SumIsFold ==
    ASSUME NEW h, NEW S, IsFiniteSet(S)
    PROVE  \E g : Folds(h, S, g) /\ g[S] = SumFunctionOnSet(h, S)
<1> DEFINE g == CHOOSE g : IsFold(h, S, g)
<1>1. IsFold(h, S, g)
  BY FoldExists
<1>2. g[S] = SumFunctionOnSet(h, S)
  BY Zenon DEF SumFunctionOnSet, FoldFunctionOnSet, MapThenFoldSet, Choice, IsFold
<1>3. Folds(h, S, g)
  <2> HIDE DEF g
  <2> QED BY <1>1 DEF Folds, IsFold
<1> QED BY <1>2, <1>3

\* Folds over a set and over a part of it agree on the part.
LEMMA FoldsAgree ==
    ASSUME NEW h, NEW S, IsFiniteSet(S), NEW R \in SUBSET S, NEW f, NEW g,
           Folds(h, S, f), Folds(h, R, g)
    PROVE  f[R] = g[R]
<1> DEFINE L == {n \in Nat : \A T \in SUBSET R : Cardinality(T) = n => f[T] = g[T]}
<1>1. 0 \in L
  <2> SUFFICES ASSUME NEW T \in SUBSET R, Cardinality(T) = 0
               PROVE  f[T] = g[T]
    OBVIOUS
  <2>1. T = {}
    BY FS_Subset, FS_EmptySet
  <2> QED BY <2>1 DEF Folds
<1>2. ASSUME NEW n \in L PROVE n + 1 \in L
  <2> SUFFICES ASSUME NEW T \in SUBSET R, Cardinality(T) = n + 1
               PROVE  f[T] = g[T]
    OBVIOUS
  <2>1. IsFiniteSet(T)
    BY FS_Subset
  <2>2. T # {} /\ Choice(T) \in T
    BY <2>1, OneLess
  <2>4. Cardinality(T \ {Choice(T)}) = n
    BY <2>1, <2>2, OneLess
  <2>5. f[T \ {Choice(T)}] = g[T \ {Choice(T)}]
    BY <2>4
  <2> QED BY <2>2, <2>5 DEF Folds
<1>3. L = Nat
  <2>1. L \in SUBSET Nat
    OBVIOUS
  <2> HIDE DEF L
  <2> QED BY <1>1, <1>2, <2>1, Induction
<1>4. Cardinality(R) \in Nat
  BY FS_Subset, FS_CardinalityType
<1> QED BY <1>3, <1>4

\* The sum over no element.
LEMMA SumOfNothing ==
    ASSUME NEW h
    PROVE  SumFunctionOnSet(h, {}) = 0
BY SumIsFold, FS_EmptySet DEF Folds

\* The sum unfolds at the element the fold takes.
LEMMA SumOfChoice ==
    ASSUME NEW h, NEW S, IsFiniteSet(S), S # {}
    PROVE  SumFunctionOnSet(h, S) =
               h[Choice(S)] + SumFunctionOnSet(h, S \ {Choice(S)})
<1> DEFINE R == S \ {Choice(S)}
<1>1. PICK f : Folds(h, S, f) /\ f[S] = SumFunctionOnSet(h, S)
  BY SumIsFold
<1>2. IsFiniteSet(R)
  BY FS_Subset
<1>3. PICK g : Folds(h, R, g) /\ g[R] = SumFunctionOnSet(h, R)
  BY <1>2, SumIsFold
<1>4. f[R] = g[R]
  BY <1>1, <1>3, FoldsAgree
<1>5. f[S] = h[Choice(S)] + f[R]
  BY <1>1 DEF Folds
<1> QED BY <1>1, <1>3, <1>4, <1>5

\* h has natural values on S.
Naturals(h, S) == \A x \in S : h[x] \in Nat

\* A sum of naturals is a natural.
LEMMA SumIsNatural ==
    ASSUME NEW h, NEW S, IsFiniteSet(S), Naturals(h, S)
    PROVE  SumFunctionOnSet(h, S) \in Nat
<1> DEFINE L == {n \in Nat : \A T \in SUBSET S :
                   Cardinality(T) = n => SumFunctionOnSet(h, T) \in Nat}
<1>1. 0 \in L
  BY FS_Subset, FS_EmptySet, SumOfNothing
<1>2. ASSUME NEW n \in L PROVE n + 1 \in L
  <2> SUFFICES ASSUME NEW T \in SUBSET S, Cardinality(T) = n + 1
               PROVE  SumFunctionOnSet(h, T) \in Nat
    OBVIOUS
  <2>1. IsFiniteSet(T)
    BY FS_Subset
  <2>2. T # {} /\ Choice(T) \in T
    BY <2>1, OneLess
  <2>3. Cardinality(T \ {Choice(T)}) = n
    BY <2>1, <2>2, OneLess
  <2>4. SumFunctionOnSet(h, T \ {Choice(T)}) \in Nat /\ h[Choice(T)] \in Nat
    BY <2>2, <2>3 DEF Naturals
  <2> QED BY <2>1, <2>2, <2>4, SumOfChoice
<1>3. L = Nat
  <2>1. L \in SUBSET Nat
    OBVIOUS
  <2> HIDE DEF L
  <2> QED BY <1>1, <1>2, <2>1, Induction
<1> QED BY <1>3, FS_CardinalityType

\* The sum unfolds at any element: the order does not matter.
LEMMA SumRemove ==
    ASSUME NEW h, NEW S, IsFiniteSet(S), Naturals(h, S), NEW x \in S
    PROVE  SumFunctionOnSet(h, S) = h[x] + SumFunctionOnSet(h, S \ {x})
<1> DEFINE Sum(T) == SumFunctionOnSet(h, T)
           L == {n \in Nat : \A T \in SUBSET S : Cardinality(T) = n =>
                     \A y \in T : Sum(T) = h[y] + Sum(T \ {y})}
<1>1. 0 \in L
  BY FS_Subset, FS_EmptySet
<1>2. ASSUME NEW n \in L PROVE n + 1 \in L
  <2> SUFFICES ASSUME NEW T \in SUBSET S, Cardinality(T) = n + 1, NEW y \in T
               PROVE  Sum(T) = h[y] + Sum(T \ {y})
    OBVIOUS
  <2> DEFINE c == Choice(T)
  <2>1. IsFiniteSet(T)
    BY FS_Subset
  <2>2. T # {} /\ c \in T
    BY <2>1, OneLess
  <2>3. Sum(T) = h[c] + Sum(T \ {c})
    BY <2>1, <2>2, SumOfChoice
  <2>4. CASE y = c
    BY <2>3, <2>4
  <2>5. CASE y # c
    <3> DEFINE U == (T \ {c}) \ {y}
    <3>1. Cardinality(T \ {c}) = n /\ Cardinality(T \ {y}) = n
      BY <2>1, <2>2, OneLess
    <3>2. Sum(T \ {c}) = h[y] + Sum(U)
      BY <3>1, <2>5
    <3>3. U = (T \ {y}) \ {c}
      OBVIOUS
    <3>4. Sum(T \ {y}) = h[c] + Sum(U)
      BY <3>1, <3>3, <2>5, <2>2
    <3>5. h[c] \in Nat /\ h[y] \in Nat
      BY <2>2 DEF Naturals
    <3>6. Sum(U) \in Nat
      BY <2>1, FS_Subset, SumIsNatural DEF Naturals
    <3> HIDE DEF Sum, U, c
    <3> QED BY <2>3, <3>2, <3>4, <3>5, <3>6
  <2> QED BY <2>4, <2>5
<1>3. L = Nat
  <2>1. L \in SUBSET Nat
    OBVIOUS
  <2> HIDE DEF L
  <2> QED BY <1>1, <1>2, <2>1, Induction
<1> QED BY <1>3, FS_CardinalityType

\* Induction on a finite set, with a set of its subsets for the predicate.
LEMMA SetInduction ==
    ASSUME NEW S, IsFiniteSet(S), NEW F \in SUBSET SUBSET S, {} \in F,
           \A T \in F : \A x \in S \ T : T \union {x} \in F
    PROVE  S \in F
<1> DEFINE L == {n \in Nat : \A T \in SUBSET S : Cardinality(T) = n => T \in F}
<1>1. 0 \in L
  BY FS_Subset, FS_EmptySet
<1>2. ASSUME NEW n \in L PROVE n + 1 \in L
  <2> SUFFICES ASSUME NEW T \in SUBSET S, Cardinality(T) = n + 1
               PROVE  T \in F
    OBVIOUS
  <2> DEFINE x == Choice(T)
  <2>1. IsFiniteSet(T)
    BY FS_Subset
  <2>2. x \in T /\ Cardinality(T \ {x}) = n
    BY <2>1, OneLess
  <2>3. T \ {x} \in F
    BY <2>2
  <2>4. T = (T \ {x}) \union {x}
    BY <2>2
  <2> HIDE DEF x
  <2> QED BY <2>2, <2>3, <2>4
<1>3. L = Nat
  <2>1. L \in SUBSET Nat
    OBVIOUS
  <2> HIDE DEF L
  <2> QED BY <1>1, <1>2, <2>1, Induction
<1> QED BY <1>3, FS_CardinalityType

\* A part of a sum of naturals.
LEMMA SumOfPart ==
    ASSUME NEW h, NEW S, IsFiniteSet(S), Naturals(h, S), NEW T \in SUBSET S
    PROVE  SumFunctionOnSet(h, T) <= SumFunctionOnSet(h, S)
<1> DEFINE Sum(R) == SumFunctionOnSet(h, R)
           F == {R \in SUBSET (S \ T) : Sum(T) <= Sum(T \union R)}
<1>1. {} \in F
  <2>1. T \union {} = T
    OBVIOUS
  <2>2. Sum(T) \in Nat
    BY FS_Subset, SumIsNatural DEF Naturals
  <2> QED BY <2>1, <2>2
<1>2. ASSUME NEW R \in F, NEW x \in (S \ T) \ R PROVE R \union {x} \in F
  <2> DEFINE U == T \union (R \union {x})
  <2>1. U \in SUBSET S /\ x \in U /\ U \ {x} = T \union R
    OBVIOUS
  <2>2. IsFiniteSet(U) /\ IsFiniteSet(T \union R) /\ IsFiniteSet(T)
    BY <2>1, FS_Subset
  <2> HIDE DEF U
  <2>3. Sum(U) = h[x] + Sum(T \union R)
    BY <2>1, <2>2, SumRemove DEF Naturals
  <2>4. Sum(T) \in Nat /\ Sum(T \union R) \in Nat /\ h[x] \in Nat
    BY <2>2, SumIsNatural DEF Naturals
  <2>5. Sum(T) <= Sum(T \union R)
    OBVIOUS
  <2>6. Sum(T) <= Sum(U)
    <3> HIDE DEF Sum
    <3> QED BY <2>3, <2>4, <2>5
  <2> QED BY <2>6 DEF U
<1>3. F \in SUBSET SUBSET (S \ T)
  OBVIOUS
<1>4. IsFiniteSet(S \ T)
  BY FS_Subset
<1> HIDE DEF F
<1>5. S \ T \in F
  BY <1>1, <1>2, <1>3, <1>4, SetInduction
<1>6. T \union (S \ T) = S
  OBVIOUS
<1> QED BY <1>5, <1>6 DEF F

\* A sum of naturals is at least each of them.
LEMMA SumAtLeast ==
    ASSUME NEW h, NEW S, IsFiniteSet(S), Naturals(h, S), NEW x \in S
    PROVE  h[x] <= SumFunctionOnSet(h, S)
<1>1. SumFunctionOnSet(h, S) = h[x] + SumFunctionOnSet(h, S \ {x})
  BY SumRemove
<1>2. SumFunctionOnSet(h, S \ {x}) \in Nat /\ h[x] \in Nat
  BY FS_Subset, SumIsNatural DEF Naturals
<1> QED BY <1>1, <1>2

\* A sum of naturals is positive if its terms are and there is one.
LEMMA SumBounds ==
    ASSUME NEW h, NEW S, IsFiniteSet(S), \A x \in S : h[x] \in Nat
    PROVE  /\ SumFunctionOnSet(h, S) \in Nat
           /\ S # {} /\ (\A x \in S : h[x] > 0) => SumFunctionOnSet(h, S) > 0
<1>1. SumFunctionOnSet(h, S) \in Nat
  BY SumIsNatural DEF Naturals
<1>2. ASSUME NEW x \in S, h[x] > 0 PROVE SumFunctionOnSet(h, S) > 0
  <2>1. h[x] <= SumFunctionOnSet(h, S)
    BY SumAtLeast DEF Naturals
  <2> QED BY <1>1, <1>2, <2>1
<1> QED BY <1>1, <1>2

\* A finite set of naturals that is not empty has a greatest element.
LEMMA Greatest ==
    ASSUME NEW S \in SUBSET Nat, IsFiniteSet(S), S # {}
    PROVE  Max(S) \in S /\ \A x \in S : Max(S) >= x
<1> DEFINE L == {n \in Nat : \A T \in SUBSET S : Cardinality(T) = n /\ T # {} =>
                    \E x \in T : \A y \in T : x >= y}
<1>1. 0 \in L
  BY FS_Subset, FS_EmptySet
<1>2. ASSUME NEW n \in L PROVE n + 1 \in L
  <2> SUFFICES ASSUME NEW T \in SUBSET S, Cardinality(T) = n + 1
               PROVE  \E x \in T : \A y \in T : x >= y
    OBVIOUS
  <2>1. IsFiniteSet(T)
    BY FS_Subset
  <2> DEFINE c == Choice(T)
             R == T \ {c}
  <2>2. c \in T /\ Cardinality(R) = n /\ R \in SUBSET S
    BY <2>1, OneLess
  <2>3. T = R \union {c} /\ c \in Nat
    BY <2>2
  <2> HIDE DEF R, c
  <2>4. CASE R = {}
    BY <2>2, <2>3, <2>4
  <2>5. CASE R # {}
    <3>1. PICK x \in R : \A y \in R : x >= y
      BY <2>2, <2>5
    <3>2. CASE x >= c
      BY <2>3, <3>1, <3>2
    <3>3. CASE c > x
      <4>1. \A y \in R : y \in Nat /\ x \in Nat
        BY <2>2
      <4>2. \A y \in T : c >= y
        BY <2>3, <3>1, <3>3, <4>1
      <4> QED BY <2>2, <4>2
    <3>4. x \in Nat
      BY <2>2
    <3> QED BY <2>3, <3>2, <3>3, <3>4
  <2> QED BY <2>4, <2>5
<1>3. L = Nat
  <2>1. L \in SUBSET Nat
    OBVIOUS
  <2> HIDE DEF L
  <2> QED BY <1>1, <1>2, <2>1, Induction
<1>4. \E x \in S : \A y \in S : x >= y
  BY <1>3, FS_CardinalityType
<1> QED BY <1>4 DEF Max

-----------------------------------------------------------------------------
(* A table with one row more.                                              *)
LEMMA AppendRow ==
    ASSUME NEW s, IsTable(s), NEW x
    PROVE  /\ IsTable(Append(s, x))
           /\ Len(s) \in Nat /\ DOMAIN s = 1..Len(s)
           /\ DOMAIN Append(s, x) = 1..Len(s) + 1
           /\ Append(s, x)[Len(s) + 1] = x
           /\ \A c \in DOMAIN s : Append(s, x)[c] = s[c]
<1> DEFINE T == {s[i] : i \in DOMAIN s} \union {x}
           a == Append(s, x)
<1>1. s \in Seq(T) /\ x \in T
    BY DEF IsTable
<1> HIDE DEF T
<1>2. /\ a \in Seq(T) /\ Len(a) = Len(s) + 1 /\ Len(s) \in Nat
      /\ DOMAIN s = 1..Len(s) /\ DOMAIN a = 1..Len(s) + 1
      /\ a[Len(s) + 1] = x
      /\ \A c \in 1..Len(s) : a[c] = s[c]
    BY <1>1
<1> HIDE DEF a
<1>3. a \in Seq({a[i] : i \in DOMAIN a})
    BY <1>2
<1> QED
    BY <1>2, <1>3 DEF IsTable, a

(* A table with one row replaced.                                          *)
LEMMA ReplaceRow ==
    ASSUME NEW s, IsTable(s), NEW k \in DOMAIN s, NEW x
    PROVE  /\ IsTable([s EXCEPT ![k] = x])
           /\ Len(s) \in Nat /\ DOMAIN s = 1..Len(s)
           /\ Len([s EXCEPT ![k] = x]) = Len(s)
           /\ DOMAIN [s EXCEPT ![k] = x] = DOMAIN s
           /\ [s EXCEPT ![k] = x][k] = x
           /\ \A c \in DOMAIN s \ {k} : [s EXCEPT ![k] = x][c] = s[c]
<1> DEFINE T == {s[i] : i \in DOMAIN s}
           a == [s EXCEPT ![k] = x]
<1>1. s \in Seq(T)
    BY DEF IsTable
<1> HIDE DEF T
<1>2. /\ Len(s) \in Nat /\ DOMAIN s = 1..Len(s)
    BY <1>1
<1>3. /\ DOMAIN a = DOMAIN s /\ a[k] = x
      /\ \A c \in DOMAIN s \ {k} : a[c] = s[c]
      /\ a = [i \in DOMAIN a |-> a[i]]
    BY <1>1
<1> HIDE DEF a
<1>4. a \in Seq({a[i] : i \in DOMAIN a}) /\ Len(a) = Len(s)
    BY <1>2, <1>3
<1> QED
    BY <1>2, <1>3, <1>4 DEF IsTable, a

(* DBSCAN finds finitely many groups.                                      *)
LEMMA FinitelyManyGroups ==
    ASSUME NEW M \in SUBSET Observations, NEW groups \in Labellings(M)
    PROVE  IsFiniteSet(groups)
<1>1. IsFiniteSet(SUBSET Observations)
    BY FS_SUBSET, IdsAssumption
<1>2. Cores(M) \subseteq M
    BY DEF Cores
<1>3. Labels(M) \subseteq SUBSET Observations
    BY <1>2 DEF Labels
<1>4. groups \subseteq SUBSET Observations
  <2> DEFINE Border == {a \in M \ Cores(M) : NearSome(a, Cores(M))}
         Assigned == {h \in [Border -> Labels(M)] : \A a \in Border : NearSome(a, h[a])}
  <2>1. groups \in {{L \union {a \in Border : h[a] = L} : L \in Labels(M)} : h \in Assigned}
    BY DEF Labellings
  <2> HIDE DEF Assigned
  <2>2. PICK h \in Assigned : groups = {L \union {a \in Border : h[a] = L} : L \in Labels(M)}
    BY <2>1
  <2>3. ASSUME NEW L \in Labels(M)
        PROVE  L \union {a \in Border : h[a] = L} \in SUBSET Observations
    BY <1>3
  <2> QED
    BY <2>2, <2>3
<1> QED
    BY <1>1, <1>4, FS_Subset

-----------------------------------------------------------------------------
(* The tables stay tables, and DBSCAN's groups come as a list.             *)
LEMMA TablesStep ==
    ASSUME Tables, WrittenSoFar, [Next]_vars
    PROVE  Tables'
<1>1. IsTable(<<>>)
    BY DEF IsTable
<1>2. ASSUME Start \/ Count \/ Find \/ Fail \/ UNCHANGED vars
      PROVE  Tables'
    BY <1>1, <1>2 DEF Tables, Start, Count, Find, Fail, EndRun, vars, runVars, IsTable
<1>3. ASSUME Label \/ Commit
      PROVE  Tables'
    BY <1>1, <1>3 DEF Tables, Label, Commit, EndRun, IsTable
<1>4. ASSUME Write
      PROVE  Tables'
  <2>1. UNCHANGED <<detected, clusters>>
    BY <1>4 DEF Write
  <2>2. CASE target = New
    <3>1. draft' = Append(draft, Summary(Group, Never))
      BY <1>4, <2>2 DEF Write
    <3>2. IsTable(draft')
      BY <3>1, AppendRow DEF Tables
    <3> QED
      BY <2>1, <3>2 DEF Tables
  <2>3. CASE target # New
    <3>1. target \in DOMAIN draft
      BY <1>4, <2>3 DEF Write, WrittenSoFar, InTransaction
    <3>2. draft' = [draft EXCEPT ![target] = Rewrite(draft[target], Group)]
      BY <1>4, <2>3 DEF Write
    <3>3. IsTable(draft')
      BY <3>1, <3>2, ReplaceRow DEF Tables
    <3> QED
      BY <2>1, <3>3 DEF Tables
  <2> QED
    BY <2>2, <2>3
<1>5. ASSUME NEW o \in Observations, Detect(o) \/ Expire(o)
      PROVE  Tables'
    BY <1>5 DEF Tables, Detect, Expire, runVars, IsTable
<1>6. ASSUME NEW c \in DOMAIN clusters, NEW t \in RepairTimes, Repair(c, t)
      PROVE  Tables'
  <2>1. detected' = detected
    BY <1>6 DEF Repair
  <2>2. clusters' = [clusters EXCEPT ![c] = [clusters[c] EXCEPT !.repaired = t]]
    BY <1>6 DEF Repair
  <2>3. IsTable(clusters')
    BY <2>2, ReplaceRow DEF Tables
  <2>4. IsTable(draft')
    <3>1. CASE c \in DOMAIN draft
      <4>1. draft' = [draft EXCEPT ![c] = [draft[c] EXCEPT !.repaired = t]]
        BY <1>6, <3>1 DEF Repair
      <4> QED
        BY <3>1, <4>1, ReplaceRow DEF Tables
    <3>2. CASE c \notin DOMAIN draft
      BY <1>6, <3>2 DEF Repair, Tables
    <3> QED
      BY <3>1, <3>2
  <2> QED
    BY <2>1, <2>3, <2>4 DEF Tables
<1> QED
    BY <1>2, <1>3, <1>4, <1>5, <1>6 DEF Next, Run

(* A run begins with nothing written.                                      *)
LEMMA LabelWritesNothing ==
    ASSUME Tables, Label
    PROVE  WrittenSoFar'
<1>1. PICK groups \in Labellings(Members) :
          found' \in [1..Cardinality(groups) -> groups]
    BY DEF Label
<1>2. Members \subseteq Observations
    BY DEF Members, Tables
<1>3. Cardinality(groups) \in Nat
    BY <1>2, FinitelyManyGroups, FS_CardinalityType
<1>4. IsTable(found)' /\ Len(found') \in Nat
    BY <1>1, <1>3 DEF IsTable
<1>5. done' = 0 /\ matched' = {} /\ pc' = "finding"
    BY DEF Label
<1>6. IsFiniteSet({}) /\ Cardinality({}) = 0
    BY FS_EmptySet
<1>7. /\ {draft'[c].links : c \in matched'} = {found'[i] : i \in 1..done'}
      /\ done' \in 0..Len(found')
    BY <1>4, <1>5
<1> QED
    BY <1>4, <1>5, <1>6, <1>7 DEF WrittenSoFar, InTransaction, IsTable

(* Each turn of the loop gives the next group a row of its own.            *)
LEMMA WriteOne ==
    ASSUME Tables, WrittenSoFar, Write
    PROVE  WrittenSoFar'
<1>0. pc = "writing" /\ InTransaction
    BY DEF Write, InTransaction
<1>1. /\ IsTable(found) /\ done \in Nat /\ done < Len(found) /\ Len(found) \in Nat
      /\ matched \subseteq DOMAIN draft
      /\ IsFiniteSet(matched) /\ Cardinality(matched) = done
      /\ {draft[c].links : c \in matched} = {found[i] : i \in 1..done}
      /\ target = New \/ target \in DOMAIN draft \ matched
  <2>1. IsTable(found) /\ done \in 0..Len(found) /\ done < Len(found)
    BY <1>0 DEF WrittenSoFar
  <2>2. Len(found) \in Nat
    BY <2>1 DEF IsTable
  <2>3. done \in Nat
    BY <2>1, <2>2
  <2> QED
    BY <1>0, <2>1, <2>2, <2>3 DEF WrittenSoFar
<1>2. found' = found /\ done' = done + 1 /\ pc' = "finding"
    BY DEF Write
<1>3. \E k : /\ k \notin matched /\ matched' = matched \union {k}
             /\ matched' \subseteq DOMAIN draft'
             /\ draft'[k].links = found[done + 1]
             /\ \A c \in matched : draft'[c] = draft[c]
  <2>1. CASE target = New
    <3>1. draft' = Append(draft, Summary(Group, Never)) /\ matched' = matched \union {Len(draft) + 1}
      BY <2>1 DEF Write
    <3>2. /\ Len(draft) \in Nat /\ DOMAIN draft = 1..Len(draft)
          /\ DOMAIN draft' = 1..Len(draft) + 1
          /\ draft'[Len(draft) + 1] = Summary(Group, Never)
          /\ \A c \in DOMAIN draft : draft'[c] = draft[c]
      BY <3>1, AppendRow DEF Tables
    <3>3. Summary(Group, Never).links = found[done + 1]
      BY DEF Summary, Group
    <3>4. Len(draft) + 1 \notin matched /\ matched' \subseteq DOMAIN draft'
      BY <1>1, <3>1, <3>2
    <3> QED
      BY <1>1, <3>1, <3>2, <3>3, <3>4
  <2>2. CASE target # New
    <3>1. /\ draft' = [draft EXCEPT ![target] = Rewrite(draft[target], Group)]
          /\ matched' = matched \union {target}
      BY <2>2 DEF Write
    <3>2. target \in DOMAIN draft \ matched
      BY <1>1, <2>2
    <3>3. /\ DOMAIN draft' = DOMAIN draft
          /\ draft'[target] = Rewrite(draft[target], Group)
          /\ \A c \in DOMAIN draft \ {target} : draft'[c] = draft[c]
      BY <3>1, <3>2, ReplaceRow DEF Tables
    <3>4. Rewrite(draft[target], Group).links = found[done + 1]
      BY DEF Rewrite, Summary, Group
    <3> QED
      BY <1>1, <3>1, <3>2, <3>3, <3>4
  <2> QED
    BY <2>1, <2>2
<1>4. PICK k : /\ k \notin matched /\ matched' = matched \union {k}
               /\ matched' \subseteq DOMAIN draft'
               /\ draft'[k].links = found[done + 1]
               /\ \A c \in matched : draft'[c] = draft[c]
    BY <1>3
<1>5. IsFiniteSet(matched') /\ Cardinality(matched') = done'
    BY <1>1, <1>2, <1>4, FS_AddElement
<1>6. {draft'[c].links : c \in matched'} = {found'[i] : i \in 1..done'}
  <2>1. {draft'[c].links : c \in matched'}
            = {draft[c].links : c \in matched} \union {found[done + 1]}
    BY <1>4
  <2>2. 1..done' = 1..done \union {done + 1}
    BY <1>1, <1>2
  <2>3. {found'[i] : i \in 1..done'} = {found[i] : i \in 1..done} \union {found[done + 1]}
    BY <1>2, <2>2
  <2> QED
    BY <1>1, <2>1, <2>3
<1>7. done' \in 0..Len(found')
    BY <1>1, <1>2
<1> QED
    BY <1>1, <1>2, <1>4, <1>5, <1>6, <1>7 DEF WrittenSoFar, InTransaction, IsTable

(* A repair touches no row that the run has written.                       *)
LEMMA RepairBeside ==
    ASSUME Tables, WrittenSoFar, NEW c \in DOMAIN clusters, NEW t \in RepairTimes, Repair(c, t)
    PROVE  WrittenSoFar'
<1>1. UNCHANGED <<pc, found, done, target, matched>> /\ c \notin matched
    BY DEF Repair
<1>2. /\ DOMAIN draft' = DOMAIN draft
      /\ \A d \in DOMAIN draft \ {c} : draft'[d] = draft[d]
  <2>1. CASE c \in DOMAIN draft
    <3>1. draft' = [draft EXCEPT ![c] = [draft[c] EXCEPT !.repaired = t]]
      BY <2>1 DEF Repair
    <3> QED
      BY <2>1, <3>1, ReplaceRow DEF Tables
  <2>2. CASE c \notin DOMAIN draft
    BY <2>2 DEF Repair
  <2> QED
    BY <2>1, <2>2
<1>3. ASSUME InTransaction
      PROVE  {draft'[d].links : d \in matched} = {draft[d].links : d \in matched}
    BY <1>1, <1>2, <1>3 DEF WrittenSoFar
<1> QED
    BY <1>1, <1>2, <1>3 DEF WrittenSoFar, InTransaction, IsTable

(* What a run has written is one row for each group it has come to.        *)
LEMMA WrittenStep ==
    ASSUME Tables, WrittenSoFar, [Next]_vars
    PROVE  WrittenSoFar'
<1>1. ASSUME Start \/ Count \/ Fail \/ Commit
      PROVE  WrittenSoFar'
    BY <1>1 DEF Start, Count, Fail, Commit, EndRun, WrittenSoFar, InTransaction
<1>2. ASSUME Find
      PROVE  WrittenSoFar'
  <2>1. /\ pc = "finding" /\ pc' = "writing" /\ done < Len(found)
        /\ UNCHANGED <<found, done, matched, draft>>
    BY <1>2 DEF Find
  <2>2. target' = New \/ target' \in DOMAIN draft \ matched
    BY <1>2 DEF Find, Nearest, Candidates
  <2> QED
    BY <2>1, <2>2 DEF WrittenSoFar, InTransaction, IsTable
<1>3. ASSUME UNCHANGED runVars
      PROVE  WrittenSoFar'
    BY <1>3 DEF runVars, WrittenSoFar, InTransaction, IsTable
<1>4. ASSUME NEW o \in Observations, Detect(o) \/ Expire(o)
      PROVE  WrittenSoFar'
    BY <1>3, <1>4 DEF Detect, Expire
<1> QED
    BY <1>1, <1>2, <1>3, <1>4, LabelWritesNothing, WriteOne, RepairBeside
       DEF Next, Run, vars

(* A transaction leaves the rows alone that it does not write, and of the  *)
(* repaired ones it writes those only that were repaired as its target.    *)
LEMMA RepairsStep ==
    ASSUME Tables, WrittenSoFar, RepairsPreserved, [Next]_vars
    PROVE  RepairsPreserved'
<1>1. ASSUME Start \/ Count \/ Fail \/ Commit
      PROVE  RepairsPreserved'
    BY <1>1 DEF Start, Count, Fail, Commit, EndRun, RepairsPreserved, InTransaction
<1>2. ASSUME Label
      PROVE  RepairsPreserved'
  <2>1. draft' = clusters /\ clusters' = clusters /\ pc' = "finding" /\ matched' = {}
    BY <1>2 DEF Label
  <2> QED
    BY <2>1 DEF RepairsPreserved, InTransaction, Repaired
<1>3. ASSUME Find
      PROVE  RepairsPreserved'
  <2>1. /\ pc = "finding" /\ pc' = "writing"
        /\ UNCHANGED <<clusters, draft, matched, raced>>
    BY <1>3 DEF Find, history
  <2>2. target' = New \/ target' \in DOMAIN draft \ Repaired(draft)
    BY <1>3 DEF Find, Nearest, Candidates
  <2>3. New \notin DOMAIN draft
    <3>1. DOMAIN draft = 1..Len(draft) /\ Len(draft) \in Nat
      BY AppendRow DEF Tables
    <3> QED
      BY <3>1 DEF New
  <2>4. target' \notin Repaired(draft)
    BY <2>2, <2>3 DEF Repaired
  <2> QED
    BY <2>1, <2>4 DEF RepairsPreserved, InTransaction, Repaired
<1>4. ASSUME Write
      PROVE  RepairsPreserved'
  <2>1. pc = "writing" /\ pc' = "finding" /\ UNCHANGED <<clusters, raced>>
    BY <1>4 DEF Write, history
  <2>2. /\ \A c \in DOMAIN clusters :
               c \in DOMAIN draft /\ (c \notin matched => draft[c] = clusters[c])
        /\ \A r \in Repaired(clusters) \intersect matched :
               r \in raced /\ draft[r].repaired = clusters[r].repaired
        /\ target \in Repaired(draft) => target \in raced
        /\ matched \subseteq DOMAIN draft
        /\ target = New \/ target \in DOMAIN draft \ matched
    BY <2>1 DEF RepairsPreserved, WrittenSoFar, InTransaction
  <2>3. /\ \A c \in DOMAIN clusters :
               c \in DOMAIN draft' /\ (c \notin matched' => draft'[c] = clusters[c])
        /\ \A r \in Repaired(clusters) \intersect matched' :
               r \in raced /\ draft'[r].repaired = clusters[r].repaired
    <3>1. CASE target = New
      <4>1. /\ draft' = Append(draft, Summary(Group, Never))
            /\ matched' = matched \union {Len(draft) + 1}
        BY <1>4, <3>1 DEF Write
      <4>2. /\ DOMAIN draft = 1..Len(draft) /\ Len(draft) \in Nat
            /\ DOMAIN draft \subseteq DOMAIN draft'
            /\ \A c \in DOMAIN draft : draft'[c] = draft[c]
        BY <4>1, AppendRow DEF Tables
      <4>3. Len(draft) + 1 \notin DOMAIN clusters
        BY <2>2, <4>2
      <4> QED
        BY <2>2, <4>1, <4>2, <4>3 DEF Repaired
    <3>2. CASE target # New
      <4>1. /\ draft' = [draft EXCEPT ![target] = Rewrite(draft[target], Group)]
            /\ matched' = matched \union {target}
            /\ target \in DOMAIN draft \ matched
        BY <1>4, <2>2, <3>2 DEF Write
      <4>2. /\ DOMAIN draft' = DOMAIN draft
            /\ draft'[target] = Rewrite(draft[target], Group)
            /\ \A c \in DOMAIN draft \ {target} : draft'[c] = draft[c]
        BY <4>1, ReplaceRow DEF Tables
      <4>3. ASSUME target \in Repaired(clusters)
            PROVE  target \in raced /\ draft'[target].repaired = clusters[target].repaired
        <5>1. target \in DOMAIN clusters /\ draft[target] = clusters[target]
          BY <2>2, <4>1, <4>3 DEF Repaired
        <5>2. target \in Repaired(draft)
          BY <4>1, <4>3, <5>1 DEF Repaired
        <5> QED
          BY <2>2, <4>2, <5>1, <5>2 DEF Rewrite, Summary
      <4> QED
        BY <2>2, <4>1, <4>2, <4>3 DEF Repaired
    <3> QED
      BY <3>1, <3>2
  <2> QED
    BY <2>1, <2>3 DEF RepairsPreserved, InTransaction, Repaired
<1>5. ASSUME NEW c \in DOMAIN clusters, NEW t \in RepairTimes, Repair(c, t), InTransaction
      PROVE  RepairsPreserved'
  <2>1. /\ c \notin matched
        /\ clusters' = [clusters EXCEPT ![c] = [clusters[c] EXCEPT !.repaired = t]]
        /\ raced' = IF target = c THEN raced \union {c} ELSE raced
        /\ UNCHANGED <<pc, target, matched>>
    BY <1>5 DEF Repair
  <2>2. /\ \A d \in DOMAIN clusters :
               d \in DOMAIN draft /\ (d \notin matched => draft[d] = clusters[d])
        /\ \A r \in Repaired(clusters) \intersect matched :
               r \in raced /\ draft[r].repaired = clusters[r].repaired
        /\ pc = "writing" /\ target \in Repaired(draft) => target \in raced
    BY <1>5 DEF RepairsPreserved
  <2>3. c \in DOMAIN draft /\ draft[c] = clusters[c]
    BY <2>1, <2>2
  <2>4. draft' = [draft EXCEPT ![c] = [draft[c] EXCEPT !.repaired = t]]
    BY <1>5, <2>3 DEF Repair
  <2> DEFINE row == [clusters[c] EXCEPT !.repaired = t]
  <2>5. /\ DOMAIN clusters' = DOMAIN clusters /\ DOMAIN draft' = DOMAIN draft
        /\ clusters'[c] = row /\ draft'[c] = row
        /\ \A d \in DOMAIN clusters \ {c} : clusters'[d] = clusters[d]
        /\ \A d \in DOMAIN draft \ {c} : draft'[d] = draft[d]
    BY <2>1, <2>3, <2>4, ReplaceRow DEF Tables
  <2> HIDE DEF row
  <2>6. \A d \in DOMAIN clusters' :
            d \in DOMAIN draft' /\ (d \notin matched' => draft'[d] = clusters'[d])
    BY <2>1, <2>2, <2>3, <2>5
  <2>7. ASSUME NEW r \in DOMAIN clusters', clusters'[r].repaired # Never, r \in matched
        PROVE  r \in raced' /\ draft'[r].repaired = clusters'[r].repaired
    BY <2>1, <2>2, <2>5, <2>7 DEF Repaired
  <2>8. ASSUME pc = "writing", target \in DOMAIN draft', draft'[target].repaired # Never
        PROVE  target \in raced'
    BY <2>1, <2>2, <2>5, <2>8 DEF Repaired
  <2> QED
    BY <2>1, <2>6, <2>7, <2>8 DEF RepairsPreserved, Repaired
<1>6. ASSUME NEW c \in DOMAIN clusters, NEW t \in RepairTimes, Repair(c, t), ~InTransaction
      PROVE  RepairsPreserved'
    BY <1>6 DEF Repair, RepairsPreserved, InTransaction
<1>7. ASSUME UNCHANGED <<clusters, runVars, history>>
      PROVE  RepairsPreserved'
    BY <1>7 DEF runVars, history, RepairsPreserved, InTransaction, Repaired
<1>8. ASSUME NEW o \in Observations, Detect(o) \/ Expire(o)
      PROVE  RepairsPreserved'
    BY <1>7, <1>8 DEF Detect, Expire
<1> QED
    BY <1>1, <1>2, <1>3, <1>4, <1>5, <1>6, <1>7, <1>8 DEF Next, Run, vars

-----------------------------------------------------------------------------
\* A row says what it links to.
MatchesLinks(row) ==
    /\ row.links # {}
    /\ row.count = Cardinality(row.links)
    /\ row.devices = Cardinality({Obs[o].device : o \in row.links})
    /\ \E o \in row.links : Obs[o].ts = row.lastSeen
    /\ \A o \in row.links : Obs[o].ts <= row.lastSeen

RowsRight ==
    /\ \A c \in DOMAIN clusters : clusters[c] \in Row /\ MatchesLinks(clusters[c])
    /\ \A c \in DOMAIN draft : draft[c] \in Row /\ MatchesLinks(draft[c])

\* The groups that are still to be written are groups.
GroupsRight ==
    \A i \in DOMAIN found : found[i] \in SUBSET Observations /\ found[i] # {}

\* A run that is over has left nothing behind, and no row leaves the table.
Stage ==
    /\ faults \in 0..MaxFaults
    /\ expired \subseteq detected
    /\ pc \in Stages
    /\ raced \subseteq late /\ late \subseteq Repaired(clusters)
    /\ ~InTransaction =>
        /\ found = <<>> /\ done = 0 /\ target = New /\ matched = {} /\ draft = <<>>
        /\ late = {}
    /\ pc = "finding" => target = New
    /\ InTransaction => Len(draft) >= Len(clusters)

TInv == Tables /\ WrittenSoFar /\ RowsRight /\ GroupsRight /\ Stage

(* Every group that DBSCAN finds is a group of observations.               *)
LEMMA GroupsOfObservations ==
    ASSUME NEW M \in SUBSET Observations, NEW groups \in Labellings(M), NEW G \in groups
    PROVE  G \in SUBSET Observations /\ G # {}
<1>1. Cores(M) \subseteq M
    BY DEF Cores
<1>2. ASSUME NEW L \in Labels(M)
      PROVE  L \in SUBSET Observations /\ L # {}
  <2>1. PICK a \in Cores(M) : L = {b \in Cores(M) : Joined(a, b, Cores(M))}
    BY DEF Labels
  <2>2. Joined(a, a, Cores(M))
    BY DEF Joined
  <2> QED
    BY <1>1, <2>1, <2>2
<1> DEFINE Border == {a \in M \ Cores(M) : NearSome(a, Cores(M))}
           Assigned == {h \in [Border -> Labels(M)] : \A a \in Border : NearSome(a, h[a])}
<1>3. groups \in {{L \union {a \in Border : h[a] = L} : L \in Labels(M)} : h \in Assigned}
    BY DEF Labellings
<1> HIDE DEF Assigned
<1>4. PICK h \in Assigned : groups = {L \union {a \in Border : h[a] = L} : L \in Labels(M)}
    BY <1>3
<1>5. PICK L \in Labels(M) : G = L \union {a \in Border : h[a] = L}
    BY <1>4
<1> QED
    BY <1>2, <1>5

(* The row of a group is a row, and says what it links to.                 *)
LEMMA SummaryRight ==
    ASSUME NEW G \in SUBSET Observations, G # {}, NEW date \in {Never} \union RepairTimes
    PROVE  Summary(G, date) \in Row /\ MatchesLinks(Summary(G, date))
<1>1. IsFiniteSet(G) /\ Cardinality(G) \in Nat
    BY IdsAssumption, FS_Subset, FS_CardinalityType
<1>2. \A o \in G : /\ Obs[o].device \in Nat /\ Obs[o].ts \in Nat
                   /\ Obs[o].place \in Nat /\ Obs[o].weight \in Nat /\ Obs[o].weight > 0
    BY ObsAssumption
<1>3. Centroid(G) \in Nat
  <2> DEFINE weight == [o \in Observations |-> Obs[o].weight]
             moment == [o \in Observations |-> Obs[o].place * Obs[o].weight]
  <2>1. \A o \in G : weight[o] \in Nat /\ weight[o] > 0
    BY <1>2
  <2>2. \A o \in G : moment[o] \in Nat
    <3>1. ASSUME NEW p \in Nat, NEW w \in Nat
          PROVE  p * w \in Nat
      OBVIOUS
    <3> QED
      BY <1>2, <3>1
  <2>3. Weights(G) = SumFunctionOnSet(weight, G) /\ Moments(G) = SumFunctionOnSet(moment, G)
    BY DEF Weights, Moments
  <2> HIDE DEF weight, moment
  <2>4. Weights(G) \in Nat /\ Weights(G) > 0 /\ Moments(G) \in Nat
    BY <1>1, <2>1, <2>2, <2>3, SumBounds
  <2>5. ASSUME NEW n \in Nat, NEW d \in Nat, d > 0
        PROVE  n \div d \in Nat
    BY <2>5
  <2> QED
    BY <2>4, <2>5 DEF Centroid
<1> DEFINE D == {Obs[o].device : o \in G}
           T == {Obs[o].ts : o \in G}
<1>4. IsFiniteSet(D) /\ Cardinality(D) \in Nat
  <2>1. [o \in G |-> Obs[o].device] \in Surjection(G, D)
    BY DEF Surjection
  <2> HIDE DEF D
  <2> QED
    BY <1>1, <2>1, FS_Surjection, FS_CardinalityType
<1>5. Max(T) \in T /\ \A x \in T : Max(T) >= x
  <2>1. [o \in G |-> Obs[o].ts] \in Surjection(G, T)
    BY DEF Surjection
  <2>2. T # {} /\ T \in SUBSET Nat
    BY <1>2
  <2> HIDE DEF T
  <2>3. IsFiniteSet(T)
    BY <1>1, <2>1, FS_Surjection
  <2> QED
    BY <2>2, <2>3, Greatest
<1>6. /\ Max(T) \in Nat
      /\ \E o \in G : Obs[o].ts = Max(T)
      /\ \A o \in G : Obs[o].ts <= Max(T)
  <2> DEFINE m == Max(T)
  <2>1. m \in T /\ \A x \in T : m >= x
    BY <1>5
  <2> HIDE DEF m
  <2>2. m \in Nat /\ (\E o \in G : Obs[o].ts = m) /\ \A o \in G : Obs[o].ts <= m
    BY <1>2, <2>1
  <2> QED
    BY <2>2 DEF m
<1>7. Summary(G, date) =
          [centroid |-> Centroid(G), count |-> Cardinality(G), devices |-> Cardinality(D),
           lastSeen |-> Max(T), links |-> G, repaired |-> date]
    BY DEF Summary
<1> HIDE DEF T
<1>8. Summary(G, date) \in Row
    BY <1>1, <1>3, <1>4, <1>6, <1>7 DEF Row
<1>9. MatchesLinks(Summary(G, date))
    BY <1>6, <1>7 DEF MatchesLinks
<1> QED
    BY <1>8, <1>9

(* A row that is marked as repaired still says what it links to.           *)
LEMMA RepairedRow ==
    ASSUME NEW row \in Row, MatchesLinks(row), NEW t \in RepairTimes
    PROVE  [row EXCEPT !.repaired = t] \in Row /\ MatchesLinks([row EXCEPT !.repaired = t])
<1> DEFINE new == [row EXCEPT !.repaired = t]
<1>1. new \in Row
    BY DEF Row
<1>2. /\ new.links = row.links /\ new.count = row.count
      /\ new.devices = row.devices /\ new.lastSeen = row.lastSeen
    BY DEF Row
<1> HIDE DEF new
<1>3. MatchesLinks(new)
    BY <1>2 DEF MatchesLinks
<1> QED
    BY <1>1, <1>3 DEF new

(* The rows of the tables stay right.                                      *)
LEMMA RowsStep ==
    ASSUME TInv, [Next]_vars
    PROVE  RowsRight'
<1>1. ASSUME Start \/ Count \/ Find \/ UNCHANGED vars
      PROVE  RowsRight'
    BY <1>1 DEF Start, Count, Find, vars, runVars, TInv, RowsRight, MatchesLinks
<1>2. ASSUME Label
      PROVE  RowsRight'
    BY <1>2 DEF Label, TInv, RowsRight, MatchesLinks
<1>3. ASSUME Commit \/ Fail
      PROVE  RowsRight'
  <2>1. draft' = <<>> /\ (clusters' = clusters \/ clusters' = draft)
    BY <1>3 DEF Commit, Fail, EndRun
  <2>2. \A c \in DOMAIN clusters' : clusters'[c] \in Row /\ MatchesLinks(clusters'[c])
    BY <2>1 DEF TInv, RowsRight
  <2>3. DOMAIN draft' = {}
    BY <2>1
  <2> QED
    BY <2>2, <2>3 DEF RowsRight, MatchesLinks
<1>4. ASSUME Write
      PROVE  RowsRight'
  <2>1. /\ pc = "writing" /\ clusters' = clusters
        /\ Group \in SUBSET Observations /\ Group # {}
    <3>1. IsTable(found) /\ done \in 0..Len(found) /\ done < Len(found) /\ pc = "writing"
      BY <1>4 DEF Write, TInv, WrittenSoFar, InTransaction
    <3>2. done + 1 \in DOMAIN found
      BY <3>1 DEF IsTable
    <3> QED
      BY <1>4, <3>1, <3>2 DEF Write, Group, TInv, GroupsRight
  <2>2. CASE target = New
    <3>1. draft' = Append(draft, Summary(Group, Never))
      BY <1>4, <2>2 DEF Write
    <3>2. Summary(Group, Never) \in Row /\ MatchesLinks(Summary(Group, Never))
      BY <2>1, SummaryRight
    <3>3. /\ DOMAIN draft' = 1..Len(draft) + 1 /\ DOMAIN draft = 1..Len(draft)
          /\ Len(draft) \in Nat
          /\ draft'[Len(draft) + 1] = Summary(Group, Never)
          /\ \A c \in DOMAIN draft : draft'[c] = draft[c]
      BY <3>1, AppendRow DEF TInv, Tables
    <3>4. \A c \in DOMAIN draft' : c \in DOMAIN draft \/ c = Len(draft) + 1
      BY <3>3
    <3>5. \A c \in DOMAIN draft' : draft'[c] \in Row /\ MatchesLinks(draft'[c])
      BY <3>2, <3>3, <3>4 DEF TInv, RowsRight
    <3> QED
      BY <2>1, <3>5 DEF TInv, RowsRight, MatchesLinks
  <2>3. CASE target # New
    <3>1. target \in DOMAIN draft
      BY <2>1, <2>3 DEF TInv, WrittenSoFar, InTransaction
    <3>2. draft' = [draft EXCEPT ![target] = Rewrite(draft[target], Group)]
      BY <1>4, <2>3 DEF Write
    <3>3. draft[target].repaired \in {Never} \union RepairTimes
      BY <3>1 DEF TInv, RowsRight, Row
    <3>4. /\ Rewrite(draft[target], Group) \in Row
          /\ MatchesLinks(Rewrite(draft[target], Group))
      BY <2>1, <3>3, SummaryRight DEF Rewrite
    <3>5. /\ DOMAIN draft' = DOMAIN draft
          /\ draft'[target] = Rewrite(draft[target], Group)
          /\ \A c \in DOMAIN draft \ {target} : draft'[c] = draft[c]
      BY <3>1, <3>2, ReplaceRow DEF TInv, Tables
    <3>6. \A c \in DOMAIN draft' : draft'[c] \in Row /\ MatchesLinks(draft'[c])
      BY <3>4, <3>5 DEF TInv, RowsRight
    <3> QED
      BY <2>1, <3>6 DEF TInv, RowsRight, MatchesLinks
  <2> QED
    BY <2>2, <2>3
<1>5. ASSUME NEW c \in DOMAIN clusters, NEW t \in RepairTimes, Repair(c, t)
      PROVE  RowsRight'
  <2>1. ASSUME NEW s, IsTable(s), NEW k \in DOMAIN s,
               \A d \in DOMAIN s : s[d] \in Row /\ MatchesLinks(s[d])
        PROVE  LET a == [s EXCEPT ![k] = [s[k] EXCEPT !.repaired = t]]
               IN  \A d \in DOMAIN a : a[d] \in Row /\ MatchesLinks(a[d])
    <3> DEFINE row == [s[k] EXCEPT !.repaired = t]
               a == [s EXCEPT ![k] = row]
    <3>1. row \in Row /\ MatchesLinks(row)
      BY <2>1, RepairedRow
    <3> HIDE DEF row
    <3>2. DOMAIN a = DOMAIN s /\ a[k] = row /\ \A d \in DOMAIN s \ {k} : a[d] = s[d]
      BY <2>1, ReplaceRow
    <3> HIDE DEF a
    <3>3. \A d \in DOMAIN a : a[d] \in Row /\ MatchesLinks(a[d])
      BY <2>1, <3>1, <3>2
    <3> QED
      BY <3>3 DEF a, row
  <2>2. clusters' = [clusters EXCEPT ![c] = [clusters[c] EXCEPT !.repaired = t]]
    BY <1>5 DEF Repair
  <2>3. \A d \in DOMAIN clusters' : clusters'[d] \in Row /\ MatchesLinks(clusters'[d])
    BY <2>1, <2>2 DEF TInv, RowsRight, Tables
  <2>4. \A d \in DOMAIN draft' : draft'[d] \in Row /\ MatchesLinks(draft'[d])
    <3>1. CASE c \in DOMAIN draft
      <4>1. draft' = [draft EXCEPT ![c] = [draft[c] EXCEPT !.repaired = t]]
        BY <1>5, <3>1 DEF Repair
      <4> QED
        BY <2>1, <3>1, <4>1 DEF TInv, RowsRight, Tables
    <3>2. CASE c \notin DOMAIN draft
      BY <1>5, <3>2 DEF Repair, TInv, RowsRight
    <3> QED
      BY <3>1, <3>2
  <2> QED
    BY <2>3, <2>4 DEF RowsRight, MatchesLinks
<1>6. ASSUME NEW o \in Observations, Detect(o) \/ Expire(o)
      PROVE  RowsRight'
    BY <1>6 DEF Detect, Expire, runVars, TInv, RowsRight, MatchesLinks
<1> QED
    BY <1>1, <1>2, <1>3, <1>4, <1>5, <1>6 DEF Next, Run

(* What is to be written are always groups of observations.                *)
LEMMA GroupsStep ==
    ASSUME TInv, [Next]_vars
    PROVE  GroupsRight'
<1>1. ASSUME Label
      PROVE  GroupsRight'
  <2>1. PICK groups \in Labellings(Members) : found' \in [1..Cardinality(groups) -> groups]
    BY <1>1 DEF Label
  <2>2. Members \in SUBSET Observations
    BY DEF Members, TInv, Tables
  <2> QED
    BY <2>1, <2>2, GroupsOfObservations DEF GroupsRight
<1>2. ASSUME found' = <<>>
      PROVE  GroupsRight'
    BY <1>2 DEF GroupsRight
<1>3. ASSUME found' = found
      PROVE  GroupsRight'
    BY <1>3 DEF GroupsRight, TInv
<1> QED
    BY <1>1, <1>2, <1>3
       DEF Next, Run, Start, Count, Find, Write, Commit, Fail, EndRun, Detect, Expire,
           Repair, runVars, vars

(* A run goes through its stages, and leaves nothing behind.               *)
LEMMA StageStep ==
    ASSUME TInv, [Next]_vars
    PROVE  Stage'
<1> USE DEF TInv, Stage, InTransaction, history
<1>1. ASSUME Start \/ Count
      PROVE  Stage'
    BY <1>1 DEF Start, Count, Stages, Repaired
<1>2. ASSUME Label
      PROVE  Stage'
  <2>1. /\ pc = "labelling" /\ pc' = "finding" /\ draft' = clusters
        /\ UNCHANGED <<detected, expired, clusters, target, late, raced, faults>>
    BY <1>2 DEF Label
  <2>2. target = New /\ Len(clusters) \in Nat
    BY <2>1, AppendRow DEF Tables
  <2> QED
    BY <2>1, <2>2 DEF Stages, Repaired
<1>3. ASSUME Find
      PROVE  Stage'
    BY <1>3 DEF Find, Stages, Repaired
<1>4. ASSUME Write
      PROVE  Stage'
  <2>1. /\ pc = "writing" /\ pc' = "finding" /\ target' = New
        /\ UNCHANGED <<detected, expired, clusters, late, raced, faults>>
    BY <1>4 DEF Write
  <2>2. Len(draft) >= Len(clusters) /\ Len(clusters) \in Nat /\ Len(draft) \in Nat
    BY <2>1, AppendRow DEF Tables
  <2>3. Len(draft') >= Len(draft)
    <3>1. CASE target = New
      <4>1. draft' = Append(draft, Summary(Group, Never))
        BY <1>4, <3>1 DEF Write
      <4>2. DOMAIN draft' = 1..Len(draft) + 1 /\ IsTable(draft')
        BY <4>1, AppendRow DEF Tables
      <4>3. DOMAIN draft' = 1..Len(draft') /\ Len(draft') \in Nat
        BY <4>2, AppendRow
      <4> QED
        BY <2>2, <4>2, <4>3
    <3>2. CASE target # New
      <4>1. target \in DOMAIN draft
        BY <2>1, <3>2 DEF WrittenSoFar
      <4>2. draft' = [draft EXCEPT ![target] = Rewrite(draft[target], Group)]
        BY <1>4, <3>2 DEF Write
      <4>3. Len(draft') = Len(draft)
        BY <4>1, <4>2, ReplaceRow DEF Tables
      <4> QED
        BY <2>2, <4>3
    <3> QED
      BY <3>1, <3>2
  <2>4. Len(draft') \in Nat
    BY TablesStep, AppendRow DEF Tables
  <2>5. Len(draft') >= Len(clusters)
    BY <2>2, <2>3, <2>4
  <2> QED
    BY <2>1, <2>5 DEF Stages, Repaired
<1>5. ASSUME Commit \/ Fail
      PROVE  Stage'
  <2>1. /\ EndRun /\ UNCHANGED <<detected, expired>>
        /\ \/ faults' = faults
           \/ faults < MaxFaults /\ faults' = faults + 1
    BY <1>5 DEF Commit, Fail
  <2>2. faults' \in 0..MaxFaults
    BY <2>1, BoundsAssumption
  <2> QED
    BY <2>1, <2>2 DEF EndRun, Stages, Repaired
<1>6. ASSUME NEW c \in DOMAIN clusters, NEW t \in RepairTimes, Repair(c, t)
      PROVE  Stage'
  <2>1. /\ UNCHANGED <<detected, expired, pc, found, done, target, matched, faults>>
        /\ late' = IF InTransaction THEN late \union {c} ELSE late
        /\ raced' = IF target = c THEN raced \union {c} ELSE raced
    BY <1>6 DEF Repair
  <2>2. clusters' = [clusters EXCEPT ![c] = [clusters[c] EXCEPT !.repaired = t]]
    BY <1>6 DEF Repair
  <2>3. Len(clusters') = Len(clusters)
    BY <2>2, ReplaceRow DEF Tables
  <2>4. Len(draft') = Len(draft)
    <3>1. CASE c \in DOMAIN draft
      <4>1. draft' = [draft EXCEPT ![c] = [draft[c] EXCEPT !.repaired = t]]
        BY <1>6, <3>1 DEF Repair
      <4> QED
        BY <3>1, <4>1, ReplaceRow DEF Tables
    <3>2. CASE c \notin DOMAIN draft
      BY <1>6, <3>2 DEF Repair
    <3> QED
      BY <3>1, <3>2
  <2>5. ~InTransaction => draft' = <<>>
    BY <1>6 DEF Repair
  <2>6. raced' \subseteq late'
    <3>1. c # New
      <4>1. DOMAIN clusters = 1..Len(clusters) /\ Len(clusters) \in Nat
        BY AppendRow DEF Tables
      <4> QED
        BY <4>1 DEF New
    <3>2. target = c => InTransaction
      BY <3>1
    <3> QED
      BY <2>1, <3>2
  <2>7. late' \subseteq Repaired(clusters')
    <3>1. /\ DOMAIN clusters' = DOMAIN clusters
          /\ clusters'[c] = [clusters[c] EXCEPT !.repaired = t]
          /\ \A d \in DOMAIN clusters \ {c} : clusters'[d] = clusters[d]
      BY <2>2, ReplaceRow DEF Tables
    <3>2. clusters'[c].repaired = t /\ t # Never
      <4>1. clusters[c] \in Row
        BY DEF RowsRight
      <4>2. t # Never
        BY BoundsAssumption DEF Never
      <4> QED
        BY <3>1, <4>1, <4>2 DEF Row
    <3>3. c \in Repaired(clusters') /\ Repaired(clusters) \subseteq Repaired(clusters')
      BY <3>1, <3>2 DEF Repaired
    <3> QED
      BY <2>1, <3>3
  <2>8. (late \subseteq Repaired(clusters))'
    BY <2>7 DEF Repaired
  <2> QED
    BY <2>1, <2>3, <2>4, <2>5, <2>6, <2>8
<1>7. ASSUME NEW o \in Observations, Detect(o) \/ Expire(o)
      PROVE  Stage'
    BY <1>7 DEF Detect, Expire, runVars, Repaired
<1>8. CASE UNCHANGED vars
    BY <1>8 DEF vars, runVars, Repaired
<1> QED
    BY <1>1, <1>2, <1>3, <1>4, <1>5, <1>6, <1>7, <1>8 DEF Next, Run

-----------------------------------------------------------------------------
(* The initial states satisfy all parts of the invariant.                  *)
LEMMA Initially ==
    ASSUME Init
    PROVE  Tables /\ WrittenSoFar /\ RepairsPreserved
BY DEF Init, Tables, WrittenSoFar, RepairsPreserved, InTransaction, IsTable

(* The parts that hold whatever an administrator does.                     *)
LEMMA Invariance == Spec => [](Tables /\ WrittenSoFar)
<1>1. Init => Tables /\ WrittenSoFar
    BY Initially
<1>2. Tables /\ WrittenSoFar /\ [Next]_vars => (Tables /\ WrittenSoFar)'
    BY TablesStep, WrittenStep
<1> QED
    BY <1>1, <1>2, PTL DEF Spec

(***************************************************************************)
(* Every group that DBSCAN finds gets a row of its own that links to       *)
(* exactly its members, though an administrator marks rows as repaired     *)
(* while the run goes on (fusion/service.py:394-400, 485-513).             *)
(***************************************************************************)
THEOREM EveryGroupItsRow == Spec => []GroupsKeepApart
<1>1. Tables /\ WrittenSoFar => GroupsKeepApart
  <2> SUFFICES ASSUME Tables, WrittenSoFar, pc = "finding", done = Len(found)
               PROVE  /\ Cardinality(matched) = Len(found)
                      /\ {draft[c].links : c \in matched} = {found[i] : i \in DOMAIN found}
    BY DEF GroupsKeepApart
  <2>1. /\ IsTable(found) /\ Cardinality(matched) = done
        /\ {draft[c].links : c \in matched} = {found[i] : i \in 1..done}
    BY DEF WrittenSoFar, InTransaction
  <2>2. DOMAIN found = 1..Len(found)
    BY <2>1 DEF IsTable
  <2> QED
    BY <2>1, <2>2
<1> QED
    BY <1>1, Invariance, PTL

(***************************************************************************)
(* No run takes a repair back, and it rewrites a repaired row only if the  *)
(* repair fell between the SELECT that chose the row and its UPDATE        *)
(* (fusion/service.py:395, 485-497).                                       *)
(***************************************************************************)
THEOREM RepairsStand == Spec => RepairedUntouched
<1> DEFINE Inv == Tables /\ WrittenSoFar /\ RepairsPreserved
           Kept == \A r \in Repaired(clusters) :
                       \/ clusters'[r] = clusters[r]
                       \/ r \in raced /\ clusters'[r].repaired = clusters[r].repaired
<1>1. Init => Inv
    BY Initially
<1>2. Inv /\ [Next]_vars => Inv'
    BY TablesStep, WrittenStep, RepairsStep
<1>3. Inv /\ [Next]_vars => [Kept]_vars
  <2> SUFFICES ASSUME Inv, Next, NEW r \in Repaired(clusters)
               PROVE  \/ clusters'[r] = clusters[r]
                      \/ r \in raced /\ clusters'[r].repaired = clusters[r].repaired
    OBVIOUS
  <2>1. CASE Commit
    <3>1. clusters' = draft /\ InTransaction /\ r \in DOMAIN clusters
      BY <2>1 DEF Commit, InTransaction, Repaired
    <3> QED
      BY <3>1 DEF RepairsPreserved
  <2>2. ASSUME NEW c \in DOMAIN clusters, NEW t \in RepairTimes, Repair(c, t)
        PROVE  clusters'[r] = clusters[r]
    <3>1. c # r /\ r \in DOMAIN clusters
      BY <2>2 DEF Repair, Repaired
    <3>2. clusters' = [clusters EXCEPT ![c] = [clusters[c] EXCEPT !.repaired = t]]
      BY <2>2 DEF Repair
    <3> QED
      BY <3>1, <3>2, ReplaceRow DEF Tables
  <2>3. CASE clusters' = clusters
    BY <2>3
  <2> QED
    BY <2>1, <2>2, <2>3
       DEF Next, Run, Start, Count, Label, Find, Write, Fail, Detect, Expire
<1> QED
    BY <1>1, <1>2, <1>3, PTL DEF Spec, RepairedUntouched

(* The invariant behind the types and the contents of the rows.            *)
LEMMA TInvariance == Spec => []TInv
<1>1. Init => TInv
  <2> SUFFICES ASSUME Init PROVE TInv
    OBVIOUS
  <2>1. Tables /\ WrittenSoFar
    BY Initially
  <2>2. RowsRight /\ GroupsRight
    BY DEF Init, RowsRight, GroupsRight
  <2>3. Stage
    BY BoundsAssumption DEF Init, Stage, Stages, InTransaction
  <2> QED
    BY <2>1, <2>2, <2>3 DEF TInv
<1>2. TInv /\ [Next]_vars => TInv'
  <2> SUFFICES ASSUME TInv, [Next]_vars PROVE TInv'
    OBVIOUS
  <2>1. Tables' /\ WrittenSoFar'
    BY TablesStep, WrittenStep DEF TInv
  <2> QED
    BY <2>1, RowsStep, GroupsStep, StageStep DEF TInv
<1> QED
    BY <1>1, <1>2, PTL DEF Spec

(***************************************************************************)
(* Every variable has its type: a centroid, a count and a last sighting    *)
(* always exist, and no run loses a row of the table.                      *)
(***************************************************************************)
THEOREM TypeCorrect == Spec => []TypeOK
<1>1. ASSUME TInv PROVE TypeOK
  <2>1. Len(found) \in Nat /\ done \in 0..Len(found)
    <3>1. CASE InTransaction
      BY <1>1, <3>1, AppendRow DEF TInv, WrittenSoFar
    <3>2. CASE ~InTransaction
      BY <1>1, <3>2 DEF TInv, Stage
    <3> QED
      BY <3>1, <3>2
  <2>2. target \in {New} \union DOMAIN draft /\ matched \subseteq DOMAIN draft
    BY <1>1 DEF TInv, Stage, WrittenSoFar, InTransaction
  <2> QED
    BY <1>1, <2>1, <2>2 DEF TInv, Tables, RowsRight, Stage, InTransaction, TypeOK
<1> QED
    BY <1>1, TInvariance, PTL

(***************************************************************************)
(* What a stored row says is what it links to: inserts, rewrites, merges,  *)
(* repairs and failed runs leave no count of another group behind          *)
(* (fusion/service.py:377-380, 497-513).                                   *)
(***************************************************************************)
THEOREM RowsSayWhatTheyLink == Spec => []SummaryMatchesLinks
<1>1. TInv => SummaryMatchesLinks
    BY DEF TInv, RowsRight, SummaryMatchesLinks, MatchesLinks
<1> QED
    BY <1>1, TInvariance, PTL

-----------------------------------------------------------------------------
(***************************************************************************)
(* How far repairs are final.                                              *)
(***************************************************************************)
\* The detection o is one that the repaired row r explains.
ExplainedBy(o, r) ==
    clusters[r].repaired >= Obs[o].ts /\ Distance(clusters[r].centroid, Obs[o].place) <= Eps

\* No group of a run has a member that a repair explains, but for the repairs
\* that came after the members were read.
GroupsUnexplained ==
    InTransaction =>
        \A i \in DOMAIN found : \A o \in found[i] :
            \A r \in Repaired(clusters) \ late : ~ExplainedBy(o, r)

(* The groups that a run finds are groups of members.                      *)
LEMMA GroupsOfMembers ==
    ASSUME NEW M \in SUBSET Observations, NEW groups \in Labellings(M), NEW G \in groups
    PROVE  G \subseteq M
<1>1. Cores(M) \subseteq M
    BY DEF Cores
<1>2. \A L \in Labels(M) : L \subseteq M
    BY <1>1 DEF Labels
<1> DEFINE Border == {a \in M \ Cores(M) : NearSome(a, Cores(M))}
           Assigned == {h \in [Border -> Labels(M)] : \A a \in Border : NearSome(a, h[a])}
<1>3. groups \in {{L \union {a \in Border : h[a] = L} : L \in Labels(M)} : h \in Assigned}
    BY DEF Labellings
<1> HIDE DEF Assigned
<1>4. PICK h \in Assigned : groups = {L \union {a \in Border : h[a] = L} : L \in Labels(M)}
    BY <1>3
<1>5. PICK L \in Labels(M) : G = L \union {a \in Border : h[a] = L}
    BY <1>4
<1> QED
    BY <1>2, <1>5

(* What Label finds.                                                       *)
LEMMA LabelFinds ==
    ASSUME Tables, Label
    PROVE  \E groups \in Labellings(Members) : \A i \in DOMAIN found' : found'[i] \in groups
<1>1. PICK groups \in Labellings(Members) : found' \in [1..Cardinality(groups) -> groups]
    BY DEF Label
<1> QED
    BY <1>1

(* What a run has found is not disturbed by later repairs: the rows that    *)
(* were repaired before stay as they are until it commits.                 *)
LEMMA UnexplainedStep ==
    ASSUME TInv, GroupsUnexplained, [Next]_vars
    PROVE  GroupsUnexplained'
<1>1. ASSUME ~InTransaction'
      PROVE  GroupsUnexplained'
    BY <1>1 DEF GroupsUnexplained
<1>2. ASSUME Label
      PROVE  GroupsUnexplained'
  <2>1. UNCHANGED <<clusters, late>>
    BY <1>2 DEF Label, history
  <2>2. Members \in SUBSET Observations
    BY DEF Members, TInv, Tables
  <2>3. \A i \in DOMAIN found' : found'[i] \subseteq Members
    BY <1>2, <2>2, LabelFinds, GroupsOfMembers DEF TInv
  <2>4. \A i \in DOMAIN found' : \A o \in found'[i] : \A r \in Repaired(clusters) :
            ~ExplainedBy(o, r)
    BY <2>3 DEF Members, Explained, ExplainedBy
  <2> QED
    BY <2>1, <2>4 DEF GroupsUnexplained, ExplainedBy, Repaired
<1>3. ASSUME UNCHANGED <<clusters, found, late>>, InTransaction' => InTransaction
      PROVE  GroupsUnexplained'
    BY <1>3 DEF GroupsUnexplained, ExplainedBy, Repaired
<1>4. ASSUME Find \/ Write
      PROVE  GroupsUnexplained'
    BY <1>3, <1>4 DEF Find, Write, InTransaction, history
<1>5. ASSUME Start \/ Count \/ Commit \/ Fail
      PROVE  GroupsUnexplained'
    BY <1>1, <1>5 DEF Start, Count, Commit, Fail, EndRun, InTransaction
<1>6. ASSUME NEW c \in DOMAIN clusters, NEW t \in RepairTimes, Repair(c, t), InTransaction
      PROVE  GroupsUnexplained'
  <2>1. /\ clusters' = [clusters EXCEPT ![c] = [clusters[c] EXCEPT !.repaired = t]]
        /\ late' = late \union {c} /\ UNCHANGED found
    BY <1>6 DEF Repair
  <2>2. /\ DOMAIN clusters' = DOMAIN clusters
        /\ \A d \in DOMAIN clusters \ {c} : clusters'[d] = clusters[d]
    BY <2>1, ReplaceRow DEF TInv, Tables
  <2>3. ASSUME NEW r \in DOMAIN clusters', clusters'[r].repaired # Never, r \notin late'
        PROVE  r \in Repaired(clusters) \ late /\ clusters'[r] = clusters[r]
    BY <2>1, <2>2, <2>3 DEF Repaired
  <2> QED
    BY <1>6, <2>1, <2>3 DEF GroupsUnexplained, ExplainedBy, Repaired
<1>7. ASSUME NEW c \in DOMAIN clusters, NEW t \in RepairTimes, Repair(c, t), ~InTransaction
      PROVE  GroupsUnexplained'
    BY <1>1, <1>7 DEF Repair, InTransaction
<1>8. ASSUME NEW o \in Observations, Detect(o) \/ Expire(o)
      PROVE  GroupsUnexplained'
    BY <1>3, <1>8 DEF Detect, Expire, runVars, history, InTransaction
<1>9. CASE UNCHANGED vars
    BY <1>3, <1>9 DEF vars, runVars, history, InTransaction
<1> QED
    BY <1>2, <1>4, <1>5, <1>6, <1>7, <1>8, <1>9 DEF Next, Run

(***************************************************************************)
(* A repaired defect is not brought back by the detections it was repaired *)
(* for, as long as they are within Eps of its centroid and the repair is   *)
(* there when the run reads its members; repairs may come at any time.     *)
(* Neither exception can be spared: MCClusterChain.cfg and                 *)
(* MCClusterLate.cfg (fusion/service.py:324-333).                          *)
(***************************************************************************)
THEOREM RepairsAreFinal == Spec => []NoResurrection
<1>1. Init => GroupsUnexplained
    BY DEF Init, GroupsUnexplained, InTransaction
<1>2. TInv /\ GroupsUnexplained /\ [Next]_vars => GroupsUnexplained'
    BY UnexplainedStep
<1>3. ASSUME TInv, GroupsUnexplained
      PROVE  NoResurrection
  <2> SUFFICES ASSUME NEW c \in matched, NEW r \in Repaired(clusters) \ late,
                      NEW o \in clusters[r].links \intersect draft[c].links
               PROVE  \/ Obs[o].ts > clusters[r].repaired
                      \/ Distance(clusters[r].centroid, Obs[o].place) > Eps
    BY DEF NoResurrection
  <2>1. InTransaction
    BY <1>3 DEF TInv, Stage
  <2>2. PICK i \in 1..done : draft[c].links = found[i]
    BY <1>3, <2>1 DEF TInv, WrittenSoFar
  <2>3. i \in DOMAIN found
    <3>1. IsTable(found) /\ done \in 0..Len(found)
      BY <1>3, <2>1 DEF TInv, WrittenSoFar
    <3> QED
      BY <3>1 DEF IsTable
  <2>4. ~ExplainedBy(o, r)
    BY <1>3, <2>1, <2>2, <2>3 DEF GroupsUnexplained
  <2>5. r \in DOMAIN clusters
    BY DEF Repaired
  <2>6. /\ clusters[r].repaired \in Int /\ Obs[o].ts \in Int
        /\ Distance(clusters[r].centroid, Obs[o].place) \in Int
    <3>1. clusters[r] \in Row
      BY <1>3, <2>5 DEF TInv, RowsRight
    <3>2. /\ o \in Observations /\ clusters[r].repaired \in {Never} \union RepairTimes
          /\ clusters[r].centroid \in Nat
      BY <3>1 DEF Row
    <3>3. Obs[o].ts \in Nat /\ Obs[o].place \in Nat
      BY <3>2, ObsAssumption
    <3>4. \A t \in {Never} \union RepairTimes : t \in Int
      BY BoundsAssumption DEF Never
    <3>5. \A p, q \in Nat : Distance(p, q) \in Int
      BY DEF Distance
    <3> QED
      BY <3>2, <3>3, <3>4, <3>5
  <2>7. Eps \in Int
    BY BoundsAssumption
  <2> QED
    BY <2>4, <2>6, <2>7 DEF ExplainedBy
<1> QED
    BY <1>1, <1>2, <1>3, TInvariance, PTL DEF Spec

-----------------------------------------------------------------------------
(***************************************************************************)
(* Identity is stable as long as no two groups of a labelling have the     *)
(* same centroid: then no two open rows ever have, and a group finds the   *)
(* row at its own centroid, if there is one.                               *)
(***************************************************************************)
CentroidsApart ==
    \A M \in SUBSET Observations : \A groups \in Labellings(M) :
        \A G, H \in groups : Centroid(G) = Centroid(H) => G = H

RowsApart(S) ==
    \A c, d \in DOMAIN S \ Repaired(S) : S[c].centroid = S[d].centroid => c = d

\* The rows that the next group may take.
Unmatched == DOMAIN draft \ (Repaired(draft) \union matched)

\* The run has the rows of the groups it has come to, and has found the row at
\* the centroid of the next one if there is one.
WritingApart ==
    InTransaction =>
        /\ RowsApart(draft)
        /\ \A i, k \in DOMAIN found : Centroid(found[i]) = Centroid(found[k]) => i = k
        /\ \A c \in matched \ Repaired(draft) :
               \E i \in 1..done : draft[c] = Summary(found[i], Never)
        /\ late = {} =>
               \A i \in 1..done : \E c \in matched : draft[c] = Summary(found[i], Never)
        /\ pc = "writing" =>
            /\ late = {} /\ target # New => target \in Unmatched
            /\ \A c \in Unmatched : draft[c].centroid = Centroid(Group) => c = target

\* What the last run committed is still there.
LastStands ==
    \A i \in DOMAIN last : \E c \in DOMAIN clusters : clusters[c] = Summary(last[i], Never)

\* A run that finds the same again, or nothing, has changed nothing so far.
SameAgain ==
    InTransaction =>
        /\ found = last \/ found = <<>> => draft = clusters
        /\ late # {} => last = <<>>

ApartInv == RowsApart(clusters) /\ WritingApart /\ LastStands /\ SameAgain

(* Centroids are naturals, and no two of them at no distance.              *)
LEMMA Places ==
    /\ \A G \in SUBSET Observations : G # {} => Centroid(G) \in Nat
    /\ \A p, q \in Nat : Distance(p, q) \in Nat /\ Distance(p, p) = 0
    /\ \A p, q \in Nat : Distance(p, q) <= 0 => p = q
<1>1. ASSUME NEW G \in SUBSET Observations, G # {}
      PROVE  Centroid(G) \in Nat
  <2>1. Summary(G, Never) \in Row
    BY <1>1, SummaryRight
  <2> QED
    BY <2>1 DEF Summary, Row
<1>2. /\ \A p, q \in Nat : Distance(p, q) \in Nat /\ Distance(p, p) = 0
      /\ \A p, q \in Nat : Distance(p, q) <= 0 => p = q
    BY DEF Distance
<1> QED
    BY <1>1, <1>2

(* The group that is next, where a run stands.                             *)
LEMMA NextGroup ==
    ASSUME TInv, InTransaction, done < Len(found)
    PROVE  /\ done \in Nat /\ DOMAIN found = 1..Len(found)
           /\ done + 1 \in DOMAIN found /\ 1..done \subseteq DOMAIN found
           /\ Group \in SUBSET Observations /\ Group # {} /\ Centroid(Group) \in Nat
<1>1. IsTable(found) /\ done \in 0..Len(found)
    BY DEF TInv, WrittenSoFar
<1>2. Len(found) \in Nat /\ DOMAIN found = 1..Len(found)
    BY <1>1 DEF IsTable
<1>3. done \in Nat /\ done + 1 \in 1..Len(found) /\ 1..done \subseteq 1..Len(found)
    BY <1>1, <1>2
<1>4. Group \in SUBSET Observations /\ Group # {}
    BY <1>2, <1>3 DEF TInv, GroupsRight, Group
<1> QED
    BY <1>2, <1>3, <1>4, Places

(* A labelling lists groups that lie apart.                                *)
LEMMA ApartLabel ==
    ASSUME TInv, ApartInv, CentroidsApart, Label
    PROVE  ApartInv'
<1>1. PICK groups \in Labellings(Members) :
          \E order \in [1..Cardinality(groups) -> groups] :
              /\ \A i, k \in DOMAIN order : i < k => Min(order[i]) < Min(order[k])
              /\ found' = order
    BY DEF Label
<1>2. /\ found' \in [1..Cardinality(groups) -> groups]
      /\ \A i, k \in DOMAIN found' : i < k => Min(found'[i]) < Min(found'[k])
    BY <1>1
<1>3. /\ done' = 0 /\ matched' = {} /\ draft' = clusters /\ pc' = "finding"
      /\ UNCHANGED <<clusters, last, late>> /\ late = {}
    BY DEF Label, history, TInv, Stage, InTransaction
<1>4. Members \in SUBSET Observations
    BY DEF Members, TInv, Tables
<1>5. Cardinality(groups) \in Nat
    BY <1>4, FinitelyManyGroups, FS_CardinalityType
<1>6. ASSUME NEW G \in groups PROVE Min(G) \in Nat
  <2>1. G \in SUBSET Nat /\ G # {}
    BY <1>4, <1>6, GroupsOfObservations, IdsAssumption
  <2>2. \E x \in G : \A y \in G : x <= y
    BY <2>1, LeastExists
  <2> QED
    BY <2>1, <2>2 DEF Min
<1>7. ASSUME NEW i \in DOMAIN found', NEW k \in DOMAIN found',
             Centroid(found'[i]) = Centroid(found'[k])
      PROVE  i = k
  <2>1. found'[i] \in groups /\ found'[k] \in groups
    BY <1>2
  <2>2. found'[i] = found'[k]
    BY <1>4, <1>7, <2>1 DEF CentroidsApart
  <2>3. ~(i < k) /\ ~(k < i)
    <3>1. Min(found'[i]) \in Nat /\ Min(found'[k]) \in Nat /\ Min(found'[i]) = Min(found'[k])
      BY <1>6, <2>1, <2>2
    <3> QED
      BY <1>2, <3>1
  <2>4. i \in Nat /\ k \in Nat
    BY <1>2, <1>5
  <2> QED
    BY <2>3, <2>4
<1>8. RowsApart(draft)' /\ RowsApart(clusters)'
    BY <1>3 DEF ApartInv, RowsApart, Repaired
<1>9. WritingApart'
    BY <1>3, <1>7, <1>8 DEF WritingApart, Centroid, Moments, Weights
<1> QED
    BY <1>3, <1>8, <1>9 DEF ApartInv, LastStands, SameAgain, Summary, Centroid, Moments,
       Weights

(* The row at the centroid of a group is the only nearest one.             *)
LEMMA ApartFind ==
    ASSUME TInv, ApartInv, Find
    PROVE  ApartInv'
<1>1. /\ pc = "finding" /\ pc' = "writing" /\ done < Len(found)
      /\ UNCHANGED <<clusters, found, done, matched, draft, last, late>>
      /\ (Candidates = {} /\ target' = New) \/ target' \in Nearest(Candidates)
    BY DEF Find, history
<1>2. InTransaction
    BY <1>1 DEF InTransaction
<1>3. Centroid(Group) \in Nat
    BY <1>1, <1>2, NextGroup
<1>4. \A c \in DOMAIN draft : draft[c].centroid \in Nat
    BY DEF TInv, RowsRight, Row
<1>5. ASSUME NEW c \in Unmatched, draft[c].centroid = Centroid(Group)
      PROVE  c \in Candidates /\ DistanceTo(c) = 0
  <2>1. DistanceTo(c) = 0
    BY <1>3, <1>5, Places DEF DistanceTo
  <2> QED
    BY <2>1, BoundsAssumption DEF Unmatched, Candidates
<1>6. target' # New => target' \in Unmatched
    BY <1>1 DEF Nearest, Candidates, Unmatched
<1>7. ASSUME NEW c \in Unmatched, draft[c].centroid = Centroid(Group)
      PROVE  c = target'
  <2>1. c \in Candidates /\ DistanceTo(c) = 0
    BY <1>5, <1>7
  <2>2. target' \in Nearest(Candidates)
    BY <1>1, <2>1
  <2>3. target' \in Unmatched /\ DistanceTo(target') <= DistanceTo(c)
    BY <2>1, <2>2 DEF Nearest, Candidates, Unmatched
  <2> DEFINE t == target'
  <2>4. t \in DOMAIN draft /\ Distance(draft[t].centroid, Centroid(Group)) <= 0
    BY <2>1, <2>3 DEF Unmatched, DistanceTo
  <2>5. draft[t].centroid = Centroid(Group)
    BY <1>3, <1>4, <2>4, Places
  <2>6. c \in DOMAIN draft \ Repaired(draft) /\ t \in DOMAIN draft \ Repaired(draft)
    BY <2>3 DEF Unmatched
  <2> QED
    BY <1>2, <1>7, <2>5, <2>6 DEF ApartInv, WritingApart, RowsApart
<1>8. /\ Unmatched' = Unmatched /\ Group' = Group
      /\ RowsApart(draft)' = RowsApart(draft) /\ RowsApart(clusters)' = RowsApart(clusters)
    BY <1>1 DEF Unmatched, Repaired, Group, RowsApart
<1>9. WritingApart'
  <2>1. /\ RowsApart(draft)'
        /\ \A i, k \in DOMAIN found' : Centroid(found'[i]) = Centroid(found'[k]) => i = k
        /\ \A c \in matched' \ Repaired(draft') :
               \E i \in 1..done' : draft'[c] = Summary(found'[i], Never)
        /\ late' = {} => \A i \in 1..done' :
               \E c \in matched' : draft'[c] = Summary(found'[i], Never)
    BY <1>1, <1>2, <1>8 DEF ApartInv, WritingApart, Repaired
  <2>2. Centroid(Group)' = Centroid(Group)
    BY <1>8 DEF Centroid, Moments, Weights
  <2>3. \A c \in Unmatched' : draft'[c].centroid = Centroid(Group)' => c = target'
    BY <1>1, <1>7, <1>8, <2>2
  <2> QED
    BY <1>6, <1>8, <2>1, <2>3 DEF WritingApart, Summary, Centroid, Moments, Weights, Repaired
<1> QED
    BY <1>1, <1>2, <1>8, <1>9 DEF ApartInv, LastStands, SameAgain, InTransaction, Summary,
       Centroid, Moments, Weights

(* A row that is written is the only open one at its centroid, and the same *)
(* as before if the group is.                                              *)
LEMMA ApartWrite ==
    ASSUME TInv, ApartInv, Write
    PROVE  ApartInv'
<1>1. /\ pc = "writing" /\ pc' = "finding" /\ done' = done + 1
      /\ UNCHANGED <<clusters, found, last, late>>
    BY DEF Write, history
<1>2. InTransaction /\ done < Len(found)
    BY <1>1 DEF InTransaction, TInv, WrittenSoFar
<1>3. /\ done \in Nat /\ done + 1 \in DOMAIN found /\ 1..done \subseteq DOMAIN found
      /\ \A i \in 1..done : i # done + 1
    BY <1>2, NextGroup
<1> DEFINE date == IF target = New THEN Never ELSE draft[target].repaired
           row == Summary(Group, date)
<1>4. row.centroid = Centroid(Group) /\ row.repaired = date
    BY DEF Summary
\* The row is open, if no repair came since the run began to write.
<1>04. late = {} => date = Never
    BY <1>1, <1>2 DEF ApartInv, WritingApart, Unmatched, Repaired
<1>5. matched \subseteq DOMAIN draft
    BY <1>2 DEF TInv, WrittenSoFar
\* One row is written, and it is the only open one at its centroid.
<1>6. \E k : /\ k \notin matched /\ matched' = matched \union {k}
             /\ DOMAIN draft' = DOMAIN draft \union {k}
             /\ draft'[k] = row
             /\ \A c \in DOMAIN draft : c # k => draft'[c] = draft[c]
             /\ \A c \in Unmatched : draft[c].centroid = Centroid(Group) => c = k
             /\ target # New => k = target /\ draft' = [draft EXCEPT ![target] = row]
  <2>1. CASE target = New
    <3>1. /\ draft' = Append(draft, row)
          /\ matched' = matched \union {Len(draft) + 1}
      BY <2>1 DEF Write
    <3> HIDE DEF row, date
    <3>2. /\ Len(draft) \in Nat /\ DOMAIN draft = 1..Len(draft)
          /\ DOMAIN draft' = 1..Len(draft) + 1
          /\ draft'[Len(draft) + 1] = row
          /\ \A c \in DOMAIN draft : draft'[c] = draft[c]
      BY <3>1, AppendRow DEF TInv, Tables
    <3>3. DOMAIN draft' = DOMAIN draft \union {Len(draft) + 1}
      BY <3>2
    <3>4. Len(draft) + 1 \notin matched
      BY <1>5, <3>2
    <3>5. New \notin DOMAIN draft
      BY <3>2 DEF New
    <3>6. \A c \in Unmatched : draft[c].centroid # Centroid(Group)
      <4>1. \A c \in Unmatched : c \in DOMAIN draft
        BY DEF Unmatched
      <4> QED
        BY <1>1, <1>2, <2>1, <3>5, <4>1 DEF ApartInv, WritingApart
    <3> QED
      BY <2>1, <3>1, <3>2, <3>3, <3>4, <3>6
  <2>2. CASE target # New
    <3>1. target \in DOMAIN draft /\ target \notin matched
      BY <1>1, <1>2, <2>2 DEF TInv, WrittenSoFar
    <3>2. Rewrite(draft[target], Group) = row
      BY <2>2 DEF Rewrite
    <3>3. /\ draft' = [draft EXCEPT ![target] = Rewrite(draft[target], Group)]
          /\ matched' = matched \union {target}
      BY <2>2 DEF Write
    <3>4. draft' = [draft EXCEPT ![target] = row]
      BY <3>2, <3>3
    <3> HIDE DEF row, date
    <3>5. /\ DOMAIN draft' = DOMAIN draft /\ draft'[target] = row
          /\ \A c \in DOMAIN draft \ {target} : draft'[c] = draft[c]
      BY <3>1, <3>4, ReplaceRow DEF TInv, Tables
    <3>6. \A c \in Unmatched : draft[c].centroid = Centroid(Group) => c = target
      BY <1>1, <1>2 DEF ApartInv, WritingApart
    <3> QED
      BY <3>1, <3>3, <3>4, <3>5, <3>6
  <2> QED
    BY <2>1, <2>2
<1>7. PICK k : /\ k \notin matched /\ matched' = matched \union {k}
               /\ DOMAIN draft' = DOMAIN draft \union {k}
               /\ draft'[k] = row
               /\ \A c \in DOMAIN draft : c # k => draft'[c] = draft[c]
               /\ \A c \in Unmatched : draft[c].centroid = Centroid(Group) => c = k
               /\ target # New => k = target /\ draft' = [draft EXCEPT ![target] = row]
    BY <1>6
<1>8. ASSUME NEW c \in DOMAIN draft \ Repaired(draft), c # k
      PROVE  draft[c].centroid # Centroid(Group)
  <2>1. CASE c \in matched
    <3>1. PICK i \in 1..done : draft[c] = Summary(found[i], Never)
      BY <1>2, <1>8, <2>1 DEF ApartInv, WritingApart
    <3>2. draft[c].centroid = Centroid(found[i])
      BY <3>1 DEF Summary
    <3>3. Centroid(found[i]) # Centroid(found[done + 1])
      BY <1>2, <1>3 DEF ApartInv, WritingApart
    <3> QED
      BY <3>2, <3>3 DEF Group
  <2>2. CASE c \notin matched
    BY <1>7, <1>8, <2>2 DEF Unmatched
  <2> QED
    BY <2>1, <2>2
<1>9. RowsApart(draft')
  <2> SUFFICES ASSUME NEW c \in DOMAIN draft' \ Repaired(draft'),
                      NEW d \in DOMAIN draft' \ Repaired(draft'),
                      draft'[c].centroid = draft'[d].centroid
               PROVE  c = d
    BY DEF RowsApart
  <2>1. \A x \in DOMAIN draft' \ Repaired(draft') :
            x # k => x \in DOMAIN draft \ Repaired(draft) /\ draft'[x] = draft[x]
    BY <1>7 DEF Repaired
  <2>2. draft'[k].centroid = Centroid(Group)
    BY <1>4, <1>7
  <2>3. CASE c # k /\ d # k
    BY <1>2, <2>1, <2>3 DEF ApartInv, WritingApart, RowsApart
  <2>4. CASE c = k \/ d = k
    BY <1>8, <2>1, <2>2, <2>4
  <2> QED
    BY <2>3, <2>4
<1>10. /\ \A c \in matched' \ Repaired(draft') :
              \E i \in 1..done' : draft'[c] = Summary(found'[i], Never)
       /\ late' = {} => \A i \in 1..done' :
              \E c \in matched' : draft'[c] = Summary(found'[i], Never)
  <2>1. \A c \in matched : draft'[c] = draft[c]
    BY <1>5, <1>7
  <2>2. date = Never => draft'[k] = Summary(found[done + 1], Never)
    BY <1>7 DEF Group
  <2>5. k \notin Repaired(draft') => date = Never
    BY <1>4, <1>7 DEF Repaired
  <2>6. ASSUME NEW c \in matched \ Repaired(draft')
        PROVE  c \in matched \ Repaired(draft)
    <3> HIDE DEF date, row
    <3>1. c \in DOMAIN draft /\ c \in DOMAIN draft' /\ draft'[c] = draft[c]
      BY <1>5, <1>7, <2>1
    <3> QED
      BY <2>6, <3>1 DEF Repaired
  <2>3. 1..done' = 1..done \union {done + 1} /\ done + 1 \in 1..done'
    BY <1>1, <1>3
  <2>4. /\ \A c \in matched \ Repaired(draft) :
               \E i \in 1..done : draft[c] = Summary(found[i], Never)
        /\ late = {} => \A i \in 1..done :
               \E c \in matched : draft[c] = Summary(found[i], Never)
    BY <1>2 DEF ApartInv, WritingApart
  <2> HIDE DEF date, row
  <2>7. ASSUME NEW c \in matched' \ Repaired(draft')
        PROVE  \E i \in 1..done' : draft'[c] = Summary(found'[i], Never)
    <3>1. CASE c = k
      BY <1>1, <2>2, <2>3, <2>5, <2>7, <3>1
    <3>2. CASE c # k
      BY <1>1, <1>7, <2>1, <2>3, <2>4, <2>6, <2>7, <3>2
    <3> QED
      BY <3>1, <3>2
  <2>8. ASSUME late = {}, NEW i \in 1..done'
        PROVE  \E c \in matched' : draft'[c] = Summary(found'[i], Never)
    <3>1. CASE i = done + 1
      BY <1>1, <1>04, <1>7, <2>2, <2>8, <3>1
    <3>2. CASE i # done + 1
      BY <1>1, <1>7, <2>1, <2>3, <2>4, <2>8, <3>2
    <3> QED
      BY <3>1, <3>2
  <2> QED
    BY <1>1, <2>7, <2>8
<1>11. WritingApart'
  <2>1. \A i, j \in DOMAIN found : Centroid(found[i]) = Centroid(found[j]) => i = j
    BY <1>2 DEF ApartInv, WritingApart
  <2>2. RowsApart(draft)'
    BY <1>9 DEF RowsApart, Repaired
  <2> QED
    BY <1>1, <1>10, <2>1, <2>2
       DEF WritingApart, Summary, Centroid, Moments, Weights, Repaired
\* A group of the last run is written to the row it has.
<1>011. found # <<>>
    BY <1>3
<1>12. ASSUME found = last
       PROVE  draft' = draft
  <2>0. late = {} /\ date = Never
    BY <1>2, <1>04, <1>011, <1>12 DEF ApartInv, SameAgain
  <2>1. draft = clusters
    BY <1>2, <1>12 DEF ApartInv, SameAgain
  <2>2. PICK c \in DOMAIN draft : draft[c] = row
    BY <1>3, <1>12, <2>0, <2>1 DEF ApartInv, LastStands, Group
  <2> HIDE DEF date
  <2>3. c \in DOMAIN draft \ Repaired(draft)
    BY <1>4, <2>0, <2>2 DEF Repaired
  <2>4. c = k
    BY <1>4, <1>8, <2>2, <2>3
  <2>5. c \in Unmatched
    BY <1>7, <2>3, <2>4 DEF Unmatched
  <2>6. c = target
    BY <1>1, <1>2, <1>4, <2>2, <2>5 DEF ApartInv, WritingApart
  <2>7. target # New
    <3>1. DOMAIN draft = 1..Len(draft) /\ Len(draft) \in Nat
      BY AppendRow DEF TInv, Tables
    <3> QED
      BY <2>6, <3>1 DEF New
  <2>8. draft' = [draft EXCEPT ![c] = draft[c]]
    BY <1>7, <2>2, <2>6, <2>7
  <2>9. draft = [x \in DOMAIN draft |-> draft[x]]
    <3>1. IsTable(draft)
      BY DEF TInv, Tables
    <3> QED
      BY <3>1 DEF IsTable
  <2> QED
    BY <2>8, <2>9
<1>13. SameAgain'
    BY <1>1, <1>2, <1>011, <1>12 DEF ApartInv, SameAgain, InTransaction
<1>14. RowsApart(clusters)'
    BY <1>1 DEF ApartInv, RowsApart, Repaired
<1>15. LastStands'
    BY <1>1 DEF ApartInv, LastStands, Summary, Centroid, Moments, Weights
<1> QED
    BY <1>11, <1>13, <1>14, <1>15 DEF ApartInv

(* Every other step.                                                       *)
LEMMA ApartStep ==
    ASSUME TInv, ApartInv, CentroidsApart, [Next]_vars
    PROVE  ApartInv'
<1>1. ASSUME Commit
      PROVE  ApartInv'
  <2>1. /\ pc = "finding" /\ done = Len(found) /\ clusters' = draft
        /\ last' = IF late = {} THEN found ELSE <<>>
        /\ pc' = "idle"
    BY <1>1 DEF Commit, EndRun
  <2>2. InTransaction
    BY <2>1 DEF InTransaction
  <2>3. RowsApart(clusters)'
    BY <2>1, <2>2 DEF ApartInv, WritingApart, RowsApart, Repaired
  <2>4. LastStands'
    <3>1. DOMAIN found = 1..done
      BY <2>1, <2>2 DEF TInv, WrittenSoFar, IsTable
    <3>2. late = {} => \A i \in DOMAIN found :
              \E c \in DOMAIN draft : draft[c] = Summary(found[i], Never)
      BY <2>2, <3>1 DEF ApartInv, WritingApart, TInv, WrittenSoFar
    <3>3. CASE late = {}
      BY <2>1, <3>2, <3>3 DEF LastStands, Summary, Centroid, Moments, Weights
    <3>4. CASE late # {}
      BY <2>1, <3>4 DEF LastStands
    <3> QED
      BY <3>3, <3>4
  <2> QED
    BY <2>1, <2>3, <2>4 DEF ApartInv, WritingApart, SameAgain, InTransaction
<1>2. ASSUME UNCHANGED <<clusters, last>>
      PROVE  RowsApart(clusters)' /\ LastStands'
  <2>1. RowsApart(clusters)'
    BY <1>2 DEF ApartInv, RowsApart, Repaired
  <2>2. LastStands'
    BY <1>2 DEF ApartInv, LastStands, Summary, Centroid, Moments, Weights
  <2> QED
    BY <2>1, <2>2
<1>3. ASSUME Start \/ Count \/ Fail
      PROVE  ApartInv'
  <2>1. UNCHANGED <<clusters, last>> /\ pc' \notin {"finding", "writing"}
    BY <1>3 DEF Start, Count, Fail, EndRun, history
  <2>2. WritingApart' /\ SameAgain'
    BY <2>1 DEF WritingApart, SameAgain, InTransaction
  <2> QED
    BY <1>2, <2>1, <2>2 DEF ApartInv
<1>4. ASSUME UNCHANGED <<clusters, runVars, history>>
      PROVE  ApartInv'
  <2>1. UNCHANGED <<clusters, last, late, pc, found, done, target, matched, draft>>
    BY <1>4 DEF runVars, history
  <2>2. /\ Unmatched' = Unmatched /\ Group' = Group
        /\ RowsApart(draft)' = RowsApart(draft)
    BY <2>1 DEF Unmatched, Repaired, Group, RowsApart
  <2>3. Centroid(Group)' = Centroid(Group)
    BY <2>2 DEF Centroid, Moments, Weights
  <2>4. WritingApart'
    <3>1. InTransaction' = InTransaction
      BY <2>1 DEF InTransaction
    <3>2. ASSUME InTransaction
          PROVE  /\ RowsApart(draft)'
                 /\ \A i, k \in DOMAIN found' :
                        Centroid(found'[i]) = Centroid(found'[k]) => i = k
                 /\ \A c \in matched' \ Repaired(draft') :
                        \E i \in 1..done' : draft'[c] = Summary(found'[i], Never)
                 /\ late' = {} => \A i \in 1..done' :
                        \E c \in matched' : draft'[c] = Summary(found'[i], Never)
      BY <2>1, <2>2, <3>2 DEF ApartInv, WritingApart, Repaired
    <3>3. ASSUME InTransaction, pc' = "writing"
          PROVE  /\ late' = {} /\ target' # New => target' \in Unmatched'
                 /\ \A c \in Unmatched' : draft'[c].centroid = Centroid(Group)' => c = target'
      BY <2>1, <2>2, <2>3, <3>3 DEF ApartInv, WritingApart
    <3> QED
      BY <3>1, <3>2, <3>3 DEF WritingApart, Summary, Centroid, Moments, Weights, Repaired
  <2>5. SameAgain'
    BY <2>1 DEF ApartInv, SameAgain, InTransaction
  <2> QED
    BY <1>2, <2>1, <2>4, <2>5 DEF ApartInv
<1>5. ASSUME NEW o \in Observations, Detect(o) \/ Expire(o)
      PROVE  ApartInv'
    BY <1>4, <1>5 DEF Detect, Expire
<1>6. ASSUME NEW c \in DOMAIN clusters, NEW t \in RepairTimes, Repair(c, t)
      PROVE  ApartInv'
  <2>1. /\ last' = <<>> /\ c \notin matched
        /\ clusters' = [clusters EXCEPT ![c] = [clusters[c] EXCEPT !.repaired = t]]
        /\ draft' = IF c \in DOMAIN draft
                    THEN [draft EXCEPT ![c] = [draft[c] EXCEPT !.repaired = t]] ELSE draft
        /\ late' = IF InTransaction THEN late \union {c} ELSE late
        /\ UNCHANGED <<pc, found, done, target, matched>>
    BY <1>6 DEF Repair
  <2>2. t # Never
    BY BoundsAssumption DEF Never
  \* A repair takes one row from the open ones, and leaves the others alone.
  <2>3. ASSUME NEW S, IsTable(S), \A d \in DOMAIN S : S[d] \in Row,
               NEW R, R = IF c \in DOMAIN S
                          THEN [S EXCEPT ![c] = [S[c] EXCEPT !.repaired = t]] ELSE S
        PROVE  /\ DOMAIN R = DOMAIN S /\ \A d \in DOMAIN S \ {c} : R[d] = S[d]
               /\ \A d \in DOMAIN R \ Repaired(R) :
                      d # c /\ d \in DOMAIN S \ Repaired(S) /\ R[d] = S[d]
    <3>1. CASE c \in DOMAIN S
      <4>1. /\ DOMAIN R = DOMAIN S
            /\ R[c] = [S[c] EXCEPT !.repaired = t]
            /\ \A d \in DOMAIN S \ {c} : R[d] = S[d]
        BY <2>3, <3>1, ReplaceRow
      <4>2. R[c].repaired = t
        BY <2>3, <3>1, <4>1 DEF Row
      <4> QED
        BY <2>2, <4>1, <4>2 DEF Repaired
    <3>2. CASE c \notin DOMAIN S
      BY <2>3, <3>2 DEF Repaired
    <3> QED
      BY <3>1, <3>2
  <2>4. /\ DOMAIN clusters' = DOMAIN clusters
        /\ \A d \in DOMAIN clusters' \ Repaired(clusters') :
               d \in DOMAIN clusters \ Repaired(clusters) /\ clusters'[d] = clusters[d]
    <3>1. IsTable(clusters) /\ \A d \in DOMAIN clusters : clusters[d] \in Row
      BY DEF TInv, Tables, RowsRight
    <3>2. /\ DOMAIN clusters' = DOMAIN clusters
          /\ clusters'[c] = [clusters[c] EXCEPT !.repaired = t]
          /\ \A d \in DOMAIN clusters \ {c} : clusters'[d] = clusters[d]
      BY <1>6, <2>1, <3>1, ReplaceRow
    <3>3. clusters'[c].repaired = t
      BY <1>6, <3>1, <3>2 DEF Row
    <3>4. c \in Repaired(clusters')
      BY <1>6, <2>2, <3>2, <3>3 DEF Repaired
    <3> QED
      BY <3>2, <3>4 DEF Repaired
  <2>5. /\ DOMAIN draft' = DOMAIN draft /\ \A d \in DOMAIN draft \ {c} : draft'[d] = draft[d]
        /\ \A d \in DOMAIN draft' \ Repaired(draft') :
               d # c /\ d \in DOMAIN draft \ Repaired(draft) /\ draft'[d] = draft[d]
    BY <2>1, <2>3 DEF TInv, Tables, RowsRight
  <2>6. RowsApart(clusters')
    BY <2>4 DEF ApartInv, RowsApart
  <2>7. RowsApart(clusters)'
    BY <2>6 DEF RowsApart, Repaired
  <2>8. LastStands'
    BY <2>1 DEF LastStands
  <2>9. CASE ~InTransaction
    BY <2>1, <2>7, <2>8, <2>9 DEF ApartInv, WritingApart, SameAgain, InTransaction
  <2>10. CASE InTransaction
    <3>1. RowsApart(draft')
      BY <2>5, <2>10 DEF ApartInv, WritingApart, RowsApart
    <3>2. RowsApart(draft)'
      BY <3>1 DEF RowsApart, Repaired
    <3>3. \A d \in matched' \ Repaired(draft') :
              \E i \in 1..done' : draft'[d] = Summary(found'[i], Never)
      <4>1. matched \subseteq DOMAIN draft
        BY <2>10 DEF TInv, WrittenSoFar
      <4>2. \A d \in matched \ Repaired(draft') :
                d \in matched \ Repaired(draft) /\ draft'[d] = draft[d]
        BY <2>5, <4>1
      <4> QED
        BY <2>1, <2>10, <4>2 DEF ApartInv, WritingApart
    <3>4. late' # {}
      BY <2>1, <2>10
    <3>5. ASSUME pc = "writing", NEW d \in DOMAIN draft' \ (Repaired(draft') \union matched),
                 draft'[d].centroid = Centroid(Group)
          PROVE  d = target
      <4>1. d \in Unmatched /\ draft[d].centroid = Centroid(Group)
        BY <2>5, <3>5 DEF Unmatched
      <4> QED
        BY <2>10, <3>5, <4>1 DEF ApartInv, WritingApart
    <3>6. Group' = Group
      BY <2>1 DEF Group
    <3>7. \A i, k \in DOMAIN found : Centroid(found[i]) = Centroid(found[k]) => i = k
      BY <2>10 DEF ApartInv, WritingApart
    <3>8. WritingApart'
      <4>1. Centroid(Group)' = Centroid(Group)
        BY <3>6 DEF Centroid, Moments, Weights
      <4>2. \A i, k \in DOMAIN found' : Centroid(found'[i]) = Centroid(found'[k]) => i = k
        BY <2>1, <3>7
      <4>3. ASSUME pc' = "writing"
            PROVE  \A d \in Unmatched' : draft'[d].centroid = Centroid(Group)' => d = target'
        <5>1. pc = "writing" /\ target' = target /\ matched' = matched
          BY <2>1, <4>3
        <5>2. Unmatched' = DOMAIN draft' \ (Repaired(draft') \union matched)
          BY <5>1 DEF Unmatched, Repaired
        <5> QED
          BY <3>5, <4>1, <5>1, <5>2
      <4>4. (\A i, k \in DOMAIN found : Centroid(found[i]) = Centroid(found[k]) => i = k)'
        BY <4>2 DEF Centroid, Moments, Weights
      <4>5. (\A d \in matched \ Repaired(draft) :
                 \E i \in 1..done : draft[d] = Summary(found[i], Never))'
        BY <3>3 DEF Summary, Centroid, Moments, Weights, Repaired
      <4> QED
        BY <3>2, <3>4, <4>3, <4>4, <4>5 DEF WritingApart
    <3>9. SameAgain'
      <4>1. found = <<>> => draft = clusters
        BY <2>10 DEF ApartInv, SameAgain
      <4> QED
        BY <2>1, <4>1 DEF SameAgain
    <3> QED
      BY <2>7, <2>8, <3>8, <3>9 DEF ApartInv
  <2> QED
    BY <2>9, <2>10
<1> QED
    BY <1>1, <1>3, <1>4, <1>5, <1>6, ApartLabel, ApartFind, ApartWrite DEF Next, Run, vars

(***************************************************************************)
(* A run that finds what the last one found changes no row: no cluster is  *)
(* duplicated and none takes the row of another one, whatever rows merges  *)
(* have left behind, if no two groups of a labelling have the same         *)
(* centroid (fusion/service.py:385-400, 485-513;                           *)
(* tests/test_cluster_db.py:72-93).                                        *)
(***************************************************************************)
THEOREM IdentityIsStable ==
    ASSUME CentroidsApart
    PROVE  Spec => []StableIdentity
<1>1. Init => ApartInv
    BY DEF Init, ApartInv, RowsApart, WritingApart, LastStands, SameAgain, InTransaction
<1>2. TInv /\ ApartInv /\ [Next]_vars => ApartInv'
    BY ApartStep
<1>3. ApartInv => StableIdentity
    BY DEF ApartInv, SameAgain, InTransaction, StableIdentity
<1> QED
    BY <1>1, <1>2, <1>3, TInvariance, PTL DEF Spec

-----------------------------------------------------------------------------
(***************************************************************************)
(* Scoring: the order of the components.                                   *)
(***************************************************************************)
\* Component j comes before component i.
Before(norms, j, i) == norms[j] < norms[i] \/ (norms[j] = norms[i] /\ j < i)
Below(norms, i) == {j \in Components : Before(norms, j, i)}

LEMMA ComponentsFinite ==
    /\ IsFiniteSet(Components) /\ Cardinality(Components) = K /\ K \in Nat
    /\ Components \in SUBSET Nat /\ Components # {}
<1>1. K \in Nat /\ K > 0
    BY ScoringAssumption
<1>2. 0 \in Int /\ K - 1 \in Int
    BY <1>1
<1>3. IsFiniteSet(0..K - 1) /\ Cardinality(0..K - 1) = K
    BY <1>1, <1>2, FS_Interval
<1> QED
    BY <1>1, <1>3 DEF Components

(* The sort gives every component a place of its own, and leaves no gap.   *)
LEMMA RanksAreAll ==
    ASSUME NEW norms \in [Components -> Nat]
    PROVE  /\ \A i \in Components : Rank(norms, i) \in 0..K - 1
           /\ \A i, j \in Components : Before(norms, j, i) => Rank(norms, j) < Rank(norms, i)
           /\ \A i, j \in Components : i # j => Rank(norms, i) # Rank(norms, j)
           /\ \A r \in 0..K - 1 : \E i \in Components : Rank(norms, i) = r
<1>0. \A i \in Components : i \in Nat /\ norms[i] \in Nat
    BY ComponentsFinite
<1>1. \A i \in Components : Rank(norms, i) = Cardinality(Below(norms, i))
    BY DEF Rank, Below, Before
<1>2. ASSUME NEW i \in Components
      PROVE  /\ IsFiniteSet(Below(norms, i)) /\ Rank(norms, i) \in Nat
             /\ Rank(norms, i) \in 0..K - 1
  <2>1. Below(norms, i) \subseteq Components \ {i}
    BY <1>0 DEF Below, Before
  <2>2. IsFiniteSet(Components \ {i}) /\ Cardinality(Components \ {i}) = K - 1
    BY ComponentsFinite, FS_RemoveElement
  <2>3. /\ IsFiniteSet(Below(norms, i))
        /\ Cardinality(Below(norms, i)) <= K - 1
    BY <2>1, <2>2, FS_Subset
  <2>4. Cardinality(Below(norms, i)) \in Nat
    BY <2>3, FS_CardinalityType
  <2> QED
    BY <1>1, <2>3, <2>4, ComponentsFinite
<1>3. ASSUME NEW i \in Components, NEW j \in Components, Before(norms, j, i)
      PROVE  Rank(norms, j) < Rank(norms, i)
  <2>1. Below(norms, j) \subseteq Below(norms, i)
    BY <1>0, <1>3 DEF Below, Before
  <2>2. j \in Below(norms, i) /\ j \notin Below(norms, j)
    BY <1>0, <1>3 DEF Below, Before
  <2>3. Cardinality(Below(norms, j)) <= Cardinality(Below(norms, i))
    BY <1>2, <2>1, FS_Subset
  <2>4. Cardinality(Below(norms, j)) # Cardinality(Below(norms, i))
    BY <1>2, <2>1, <2>2, FS_Subset
  <2> QED
    BY <1>1, <1>2, <2>3, <2>4
<1>4. ASSUME NEW i \in Components, NEW j \in Components, i # j
      PROVE  Rank(norms, i) # Rank(norms, j)
  <2>1. Before(norms, i, j) \/ Before(norms, j, i)
    BY <1>0, <1>4 DEF Before
  <2> QED
    BY <1>2, <1>3, <2>1
<1>5. ASSUME NEW r \in 0..K - 1
      PROVE  \E i \in Components : Rank(norms, i) = r
  <2> DEFINE f == [i \in Components |-> Rank(norms, i)]
             R == 0..K - 1
  <2>1. f \in [Components -> R] /\ \A a, b \in Components : f[a] = f[b] => a = b
    BY <1>2, <1>4
  <2>2. f \in Injection(Components, R)
    BY <2>1 DEF Injection, IsInjective
  <2>3. IsFiniteSet(R) /\ Cardinality(R) = Cardinality(Components)
    BY ComponentsFinite DEF Components
  <2> HIDE DEF f, R
  <2>4. f \in Surjection(Components, R)
    BY <2>2, <2>3, FS_Injection
  <2>5. \E i \in Components : f[i] = r
    BY <2>4 DEF Surjection, R
  <2> QED
    BY <2>5 DEF f
<1> QED
    BY <1>2, <1>3, <1>4, <1>5

(* The classes of a fit: one component for each of the two lower ones.     *)
LEMMA ClassesByRank ==
    ASSUME NEW norms \in [Components -> Nat], NEW i \in Components
    PROVE  /\ ClassOf(norms, i) \in {"not", "crack", "pothole"}
           /\ ClassOf(norms, i) = "pothole" <=> Rank(norms, i) >= 2
<1>1. Rank(norms, i) \in Nat
    BY RanksAreAll, ComponentsFinite
<1>2. /\ Classes[1] = "not" /\ Classes[2] = "crack" /\ Classes[3] = "pothole"
    BY DEF Classes
<1>3. CASE Rank(norms, i) >= 2
  <2>1. Least(Rank(norms, i), 2) = 2
    BY <1>1, <1>3 DEF Least
  <2> QED
    BY <1>2, <1>3, <2>1 DEF ClassOf
<1>4. CASE Rank(norms, i) = 1
  <2>1. Least(Rank(norms, i), 2) = 1
    BY <1>4 DEF Least
  <2> QED
    BY <1>2, <1>4, <2>1 DEF ClassOf
<1>5. CASE Rank(norms, i) = 0
  <2>1. Least(Rank(norms, i), 2) = 0
    BY <1>5 DEF Least
  <2> QED
    BY <1>2, <1>5, <2>1 DEF ClassOf
<1> QED
    BY <1>1, <1>3, <1>4, <1>5

(* If there is a pothole component, all but two components are, and they   *)
(* have the highest norms.                                                 *)
LEMMA PotholesAreAllButTwo ==
    ASSUME NEW norms \in [Components -> Nat],
           NEW k \in Components, ClassOf(norms, k) = "pothole"
    PROVE  LET S == {i \in Components : ClassOf(norms, i) = "pothole"}
           IN  /\ Cardinality(S) = K - 2
               /\ \A i \in S, j \in Components \ S : norms[i] >= norms[j]
<1> DEFINE S == {i \in Components : ClassOf(norms, i) = "pothole"}
<1>0. \A i \in Components : Rank(norms, i) \in Nat /\ norms[i] \in Nat /\ i \in Nat
    BY RanksAreAll, ComponentsFinite
<1>1. S = {i \in Components : Rank(norms, i) >= 2}
    BY ClassesByRank
<1>2. K > 2
  <2>1. Rank(norms, k) >= 2 /\ Rank(norms, k) \in 0..K - 1 /\ K \in Nat
    BY ClassesByRank, RanksAreAll, ComponentsFinite
  <2> QED
    BY <2>1
<1>3. PICK a \in Components : Rank(norms, a) = 0
    BY <1>2, RanksAreAll, ComponentsFinite
<1>4. PICK b \in Components : Rank(norms, b) = 1
    BY <1>2, RanksAreAll, ComponentsFinite
<1>5. a # b
    BY <1>3, <1>4
<1>6. S = (Components \ {a}) \ {b}
  <2>1. \A i \in Components : i # a /\ i # b => Rank(norms, i) >= 2
    <3> SUFFICES ASSUME NEW i \in Components, i # a, i # b
                 PROVE  Rank(norms, i) >= 2
      OBVIOUS
    <3>1. Rank(norms, i) # 0 /\ Rank(norms, i) # 1
      BY <1>3, <1>4, RanksAreAll
    <3> QED
      BY <1>0, <3>1
  <2> QED
    BY <1>1, <1>3, <1>4, <2>1
<1>7. Cardinality(S) = K - 2
  <2>1. IsFiniteSet(Components \ {a}) /\ Cardinality(Components \ {a}) = K - 1
    BY ComponentsFinite, FS_RemoveElement
  <2>2. Cardinality((Components \ {a}) \ {b}) = (K - 1) - 1
    BY <1>5, <2>1, FS_RemoveElement
  <2> QED
    BY <1>6, <2>2, ComponentsFinite
<1>8. ASSUME NEW i \in S, NEW j \in Components \ S
      PROVE  norms[i] >= norms[j]
  <2>1. Rank(norms, i) >= 2 /\ ~(Rank(norms, j) >= 2) /\ i \in Components
    BY <1>1
  <2>2. ~Before(norms, i, j)
    BY <1>0, <2>1, RanksAreAll
  <2> QED
    BY <1>0, <2>1, <2>2 DEF Before
<1> QED
    BY <1>7, <1>8

(***************************************************************************)
(* Scoring: posteriors.                                                    *)
(***************************************************************************)
(* Masses are naturals, parts of the total, and at least each density.     *)
LEMMA Masses ==
    ASSUME NEW classes, NEW dens \in [Components -> Nat], NEW c
    PROVE  /\ Mass(classes, dens, c) \in Nat /\ Total(dens) \in Nat
           /\ Mass(classes, dens, c) <= Total(dens)
           /\ \A j \in Components : classes[j] = c => Mass(classes, dens, c) >= dens[j]
<1> DEFINE S == {i \in Components : classes[i] = c}
<1>1. IsFiniteSet(Components) /\ IsFiniteSet(S) /\ S \in SUBSET Components
    BY ComponentsFinite, FS_Subset
<1>2. Naturals(dens, Components) /\ Naturals(dens, S)
    BY DEF Naturals
<1>3. Mass(classes, dens, c) = SumFunctionOnSet(dens, S)
    BY DEF Mass
<1>4. \A j \in Components : classes[j] = c => j \in S
    OBVIOUS
<1> HIDE DEF S
<1>5. \A j \in S : SumFunctionOnSet(dens, S) >= dens[j]
    <2> SUFFICES ASSUME NEW j \in S PROVE SumFunctionOnSet(dens, S) >= dens[j]
        OBVIOUS
    <2>1. dens[j] <= SumFunctionOnSet(dens, S)
        BY <1>1, <1>2, SumAtLeast
    <2> QED
        BY <2>1
<1>6. SumFunctionOnSet(dens, S) \in Nat /\ Total(dens) \in Nat
    BY <1>1, <1>2, SumIsNatural DEF Total
<1>7. SumFunctionOnSet(dens, S) <= Total(dens)
    BY <1>1, <1>2, SumOfPart DEF Total
<1> QED
    BY <1>3, <1>4, <1>5, <1>6, <1>7

(* There is a likeliest class: the class of a component, whose posterior   *)
(* is not below that of any other.                                         *)
LEMMA LikeliestIs ==
    ASSUME NEW classes, NEW dens \in [Components -> Nat]
    PROVE  \E k \in Components :
               /\ Likeliest(classes, dens) = classes[k]
               /\ \A j \in Components :
                      Mass(classes, dens, classes[j]) <= Mass(classes, dens, classes[k])
<1> DEFINE M(i) == Mass(classes, dens, classes[i])
           T == {M(i) : i \in Components}
<1>1. \A i \in Components : M(i) \in Nat
    BY Masses
<1>2. T \in SUBSET Nat /\ T # {}
    BY <1>1, ComponentsFinite
<1>3. IsFiniteSet(T)
  <2>1. [i \in Components |-> M(i)] \in Surjection(Components, T)
    BY DEF Surjection
  <2> HIDE DEF T
  <2> QED
    BY <2>1, ComponentsFinite, FS_Surjection
<1>4. PICK m \in T : \A x \in T : m >= x
  <2> HIDE DEF T
  <2> QED
    BY <1>2, <1>3, Greatest
<1> DEFINE B == {i \in Components : M(i) = m}
<1>5. B \in SUBSET Nat /\ B # {}
    BY <1>4, ComponentsFinite
<1>6. PICK b \in B : \A i \in B : b <= i
  <2> HIDE DEF B
  <2> QED
    BY <1>5, LeastExists
<1>7. m \in Nat /\ \A i \in Components : M(i) <= m
    BY <1>1, <1>2, <1>4
<1> DEFINE First(i) == \A j \in Components : M(j) < M(i) \/ (M(j) = M(i) /\ i <= j)
<1>8. b \in Components /\ First(b)
  <2> SUFFICES ASSUME NEW j \in Components
               PROVE  M(j) < M(b) \/ (M(j) = M(b) /\ b <= j)
    OBVIOUS
  <2>1. M(b) = m
    OBVIOUS
  <2>2. CASE M(j) = m
    BY <1>6, <2>1, <2>2
  <2>3. CASE M(j) # m
    <3> HIDE DEF M
    <3> QED
      BY <1>1, <1>7, <2>1, <2>3
  <2> QED
    BY <2>2, <2>3
<1> DEFINE k == CHOOSE i \in Components : First(i)
<1>9. k \in Components /\ First(k)
  <2> HIDE DEF First
  <2> QED
    BY <1>8
<1>10. Likeliest(classes, dens) = classes[k]
    BY DEF Likeliest
<1>11. ASSUME NEW j \in Components
       PROVE  M(j) <= M(k)
  <2>1. M(j) < M(k) \/ M(j) = M(k)
    BY <1>9
  <2>2. M(j) \in Nat /\ M(k) \in Nat
    BY <1>1, <1>9
  <2> HIDE DEF M, k
  <2> QED
    BY <2>1, <2>2
<1> HIDE DEF k
<1> QED
    BY <1>9, <1>10, <1>11

-----------------------------------------------------------------------------
(***************************************************************************)
(* Scoring: powers, terms and their product.                               *)
(***************************************************************************)
IsPower(base, n, p) == p = [i \in 0..n |-> IF i = 0 THEN 1 ELSE base * p[i - 1]]

(* The recursion of Power defines a function.                              *)
LEMMA PowerExists ==
    ASSUME NEW base, NEW n \in Nat
    PROVE  \E p : IsPower(base, n, p)
<1> DEFINE Step(p, i) == IF i = 0 THEN 1 ELSE base * p[i - 1]
           L == {m \in Nat : \E p : p = [i \in 0..m |-> Step(p, i)]}
<1>1. 0 \in L
  <2> DEFINE p == [i \in 0..0 |-> 1]
  <2>1. p = [i \in 0..0 |-> Step(p, i)]
    OBVIOUS
  <2> QED BY <2>1
<1>2. ASSUME NEW m \in L PROVE m + 1 \in L
  <2>1. PICK g : g = [i \in 0..m |-> Step(g, i)]
    BY <1>2
  <2> DEFINE f == [i \in 0..m + 1 |-> Step(g, i)]
  <2>2. \A i \in 0..m : f[i] = g[i]
    <3> HIDE DEF Step
    <3> QED BY <2>1
  <2>3. \A i \in 0..m + 1 : Step(g, i) = Step(f, i)
    <3> HIDE DEF f
    <3> QED BY <2>2
  <2>4. f = [i \in 0..m + 1 |-> Step(f, i)]
    <3> HIDE DEF Step
    <3> QED BY <2>3
  <2> HIDE DEF f, Step
  <2> QED BY <2>4
<1>3. L = Nat
  <2>1. L \in SUBSET Nat
    OBVIOUS
  <2> HIDE DEF L
  <2> QED BY <1>1, <1>2, <2>1, Induction
<1>4. PICK p : p = [i \in 0..n |-> Step(p, i)]
  <2> HIDE DEF Step
  <2> QED BY <1>3
<1> QED BY <1>4 DEF IsPower

LEMMA PowerIs ==
    ASSUME NEW base, NEW n \in Nat
    PROVE  \E p : IsPower(base, n, p) /\ Power(base, n) = p[n]
<1> DEFINE p == CHOOSE p : IsPower(base, n, p)
<1>1. IsPower(base, n, p)
  BY PowerExists
<1>2. Power(base, n) = p[n]
  BY Zenon DEF Power, IsPower
<1> QED BY <1>1, <1>2

(* Products of naturals keep their order.                                  *)
LEMMA Products ==
    ASSUME NEW a \in Nat, NEW b \in Nat, NEW x \in Nat, NEW y \in Nat, a <= b, x <= y
    PROVE  /\ a * x \in Nat /\ b * y \in Nat
           /\ a * x <= b * y
           /\ a < b /\ y >= 1 => a * x < b * y
           /\ a >= 1 /\ x >= 1 => a * x >= 1
<1>1. PICK d \in Nat : b = a + d
    <2>1. b - a \in Nat /\ b = a + (b - a)
        OBVIOUS
    <2> QED BY <2>1
<1>2. PICK e \in Nat : y = x + e
    <2>1. y - x \in Nat /\ y = x + (y - x)
        OBVIOUS
    <2> QED BY <2>1
<1> DEFINE ax == a * x
           ae == a * e
           dy == d * y
<1>3. ax \in Nat /\ ae \in Nat /\ dy \in Nat
    <2>1. \A p, q \in Nat : p * q \in Nat
        OBVIOUS
    <2> QED BY <2>1
<1>4. b * y = (ax + ae) + dy
    BY <1>1, <1>2
<1>5. a < b /\ y >= 1 => dy >= 1
    <2>1. ASSUME d >= 1, y >= 1 PROVE dy >= 1
        BY <2>1
    <2>2. a < b => d >= 1
        BY <1>1
    <2> HIDE DEF dy
    <2> QED BY <2>1, <2>2
<1>6. a >= 1 /\ x >= 1 => ax >= 1
    OBVIOUS
<1> HIDE DEF ax, ae, dy
<1>7. ax + ae + dy \in Nat /\ ax <= (ax + ae) + dy /\ (dy >= 1 => ax < (ax + ae) + dy)
    BY <1>3
<1>8. b * y \in Nat
    BY <1>4, <1>3
<1> QED BY <1>3, <1>4, <1>5, <1>6, <1>7, <1>8 DEF ax

(* Powers keep the order of positive numbers.                              *)
LEMMA PowerOrder ==
    ASSUME NEW a \in Nat, NEW b \in Nat, a >= 1, a <= b, NEW n \in Nat
    PROVE  /\ Power(a, n) \in Nat /\ Power(b, n) \in Nat
           /\ Power(a, n) >= 1 /\ Power(a, n) <= Power(b, n)
           /\ a < b /\ n > 0 => Power(a, n) < Power(b, n)
<1>1. PICK p : IsPower(a, n, p) /\ Power(a, n) = p[n]
  BY PowerIs
<1>2. PICK q : IsPower(b, n, q) /\ Power(b, n) = q[n]
  BY PowerIs
<1> DEFINE Q(i) == /\ p[i] \in Nat /\ q[i] \in Nat /\ p[i] >= 1 /\ p[i] <= q[i]
                   /\ a < b /\ i > 0 => p[i] < q[i]
           L == {i \in Nat : i <= n => Q(i)}
<1>3. 0 \in L
  <2>1. p[0] = 1 /\ q[0] = 1
    BY <1>1, <1>2 DEF IsPower
  <2> QED BY <2>1
<1>4. ASSUME NEW i \in L PROVE i + 1 \in L
  <2> SUFFICES ASSUME i + 1 <= n PROVE Q(i + 1)
    OBVIOUS
  <2>1. i \in Nat /\ i <= n
    OBVIOUS
  <2>2. Q(i)
    BY <2>1
  <2>3. p[i + 1] = a * p[i] /\ q[i + 1] = b * q[i]
    <3>1. i + 1 \in 0..n /\ i + 1 # 0 /\ (i + 1) - 1 = i
      BY <2>1
    <3> QED BY <1>1, <1>2, <3>1 DEF IsPower
  <2> DEFINE x == p[i]
             y == q[i]
  <2>4. x \in Nat /\ y \in Nat /\ x >= 1 /\ x <= y
    BY <2>2
  <2> HIDE DEF x, y
  <2>5. /\ a * x \in Nat /\ b * y \in Nat /\ a * x <= b * y /\ a * x >= 1
        /\ a < b => a * x < b * y
    BY <2>4, Products
  <2> QED BY <2>3, <2>5 DEF x, y
<1>5. L = Nat
  <2>1. L \in SUBSET Nat
    OBVIOUS
  <2> HIDE DEF L
  <2> QED BY <1>3, <1>4, <2>1, Induction
<1>6. Q(n)
  BY <1>5
<1> QED BY <1>1, <1>2, <1>6

\* Odds, NULL among them; and odds that no clamp or weight can undo.
Odds == Nat \X Nat
Positive == (Nat \ {0}) \X (Nat \ {0})

(* Clamping leaves no zero, and keeps what the odds speak for.             *)
LEMMA ClampedOdds ==
    ASSUME NEW o \in Odds, o # Missing
    PROVE  /\ Clamped(o) \in Positive
           /\ o[1] >= o[2] => Clamped(o)[1] >= Clamped(o)[2]
           /\ o[1] < o[2] => /\ Clamped(o)[1] <= Clamped(o)[2]
                             /\ Cap > 1 => Clamped(o)[1] < Clamped(o)[2]
<1> DEFINE a == o[1]
           b == o[2]
<1>1. a \in Nat /\ b \in Nat /\ o = <<a, b>>
    BY DEF Odds
<1>2. a # 0 \/ b # 0
    BY <1>1 DEF Missing
<1>3. Cap \in Nat /\ Cap >= 1
    BY ScoringAssumption
<1>4. Clamped(o) = IF a > Cap * b THEN <<Cap, 1>> ELSE IF b > Cap * a THEN <<1, Cap>> ELSE <<a, b>>
    BY <1>1 DEF Clamped
<1> HIDE DEF a, b
<1>5. /\ Cap * a \in Nat /\ Cap * b \in Nat /\ Cap * a >= a /\ Cap * b >= b
      /\ a = 0 => Cap * a = 0
      /\ b = 0 => Cap * b = 0
    <2>1. \A x \in Nat : Cap * x \in Nat /\ Cap * x >= x /\ (x = 0 => Cap * x = 0)
        <3> SUFFICES ASSUME NEW x \in Nat PROVE Cap * x \in Nat /\ Cap * x >= x /\ (x = 0 => Cap * x = 0)
            OBVIOUS
        <3>1. 1 * x <= Cap * x /\ Cap * x \in Nat
            BY <1>3, Products
        <3> QED BY <1>3, <3>1
    <2> QED BY <1>1, <2>1
<1>6. CASE a > Cap * b
    BY <1>1, <1>3, <1>4, <1>5, <1>6 DEF Positive, a, b
<1>7. CASE ~(a > Cap * b) /\ b > Cap * a
    BY <1>1, <1>3, <1>4, <1>5, <1>7 DEF Positive, a, b
<1>8. CASE ~(a > Cap * b) /\ ~(b > Cap * a)
    <2>1. a # 0 /\ b # 0
        BY <1>1, <1>2, <1>5, <1>8
    <2>2. Clamped(o) = <<a, b>>
        BY <1>4, <1>8
    <2> QED BY <1>1, <2>1, <2>2 DEF Positive, a, b
<1> QED BY <1>6, <1>7, <1>8

(* A term speaks for what its odds speak for; a missing one for nothing.   *)
LEMMA TermOdds ==
    ASSUME NEW o \in Odds, NEW w \in Nat
    PROVE  /\ Term(o, w) \in Positive
           /\ o = Missing => Term(o, w) = <<1, 1>>
           /\ Confirms(o) => Term(o, w)[1] >= Term(o, w)[2]
           /\ o = Missing \/ Denies(o) => Term(o, w)[1] <= Term(o, w)[2]
           /\ Denies(o) /\ w > 0 /\ Cap > 1 => Term(o, w)[1] < Term(o, w)[2]
<1>1. CASE o = Missing
    BY <1>1 DEF Term, Positive, Denies
<1>2. CASE o # Missing
  <2> DEFINE c == Clamped(o)
             x == c[1]
             y == c[2]
  <2>1. c \in Positive
    BY <1>2, ClampedOdds
  <2>2. x \in Nat /\ y \in Nat /\ x >= 1 /\ y >= 1
    BY <2>1 DEF Positive
  <2>3. Term(o, w) = <<Power(x, w), Power(y, w)>>
    BY <1>2 DEF Term, Weighted
  <2>4. o[1] \in Nat /\ o[2] \in Nat
    BY DEF Odds
  <2>5. /\ Confirms(o) => x >= y
        /\ Denies(o) => x <= y /\ (Cap > 1 => x < y)
    BY <1>2, <2>4, ClampedOdds DEF Confirms, Denies
  <2> HIDE DEF x, y
  <2>6. /\ Power(x, w) \in Nat /\ Power(y, w) \in Nat
        /\ Power(x, w) >= 1 /\ Power(y, w) >= 1
    <3>1. x <= x /\ y <= y
      BY <2>2
    <3> QED BY <2>2, <3>1, PowerOrder
  <2>7. x >= y => Power(x, w) >= Power(y, w)
    <3>1. ASSUME x >= y PROVE Power(y, w) <= Power(x, w)
      <4>1. y <= x
        BY <2>2, <3>1
      <4> QED BY <2>2, <4>1, PowerOrder
    <3> QED BY <2>6, <3>1
  <2>8. x <= y => Power(x, w) <= Power(y, w)
    BY <2>2, PowerOrder
  <2>9. x < y /\ w > 0 => Power(x, w) < Power(y, w)
    <3>1. ASSUME x < y, w > 0 PROVE Power(x, w) < Power(y, w)
      <4>1. x <= y
        BY <2>2, <3>1
      <4> QED BY <2>2, <3>1, <4>1, PowerOrder
    <3> QED BY <3>1
  <2> DEFINE px == Power(x, w)
             py == Power(y, w)
  <2> HIDE DEF px, py
  <2>10. Term(o, w) = <<px, py>> /\ px \in Nat /\ py \in Nat /\ px >= 1 /\ py >= 1
    BY <2>3, <2>6 DEF px, py
  <2>11. /\ Confirms(o) => px >= py
         /\ Denies(o) => px <= py /\ (Cap > 1 /\ w > 0 => px < py)
    BY <2>5, <2>7, <2>8, <2>9 DEF px, py
  <2> QED BY <1>2, <2>10, <2>11 DEF Positive
<1> QED BY <1>1, <1>2

(* What fusing comes to.                                                   *)
LEMMA Fused ==
    ASSUME NEW s \in Odds, NEW v \in Odds
    PROVE  /\ Fuse(s, v) \in Positive
           /\ (s = Missing \/ Confirms(s)) /\ (v = Missing \/ Confirms(v)) => Confirms(Fuse(s, v))
           /\ /\ Cap > 1
              /\ s = Missing \/ Denies(s)
              /\ v = Missing \/ Denies(v)
              /\ (Denies(s) /\ WS > 0) \/ (Denies(v) /\ WV > 0)
              => ~Confirms(Fuse(s, v))
<1>0. WS \in Nat /\ WV \in Nat
    BY ScoringAssumption
<1> DEFINE S == Term(s, WS)
           V == Term(v, WV)
<1>1. /\ S \in Positive /\ V \in Positive
      /\ s = Missing \/ Confirms(s) => S[1] >= S[2]
      /\ v = Missing \/ Confirms(v) => V[1] >= V[2]
      /\ s = Missing \/ Denies(s) => S[1] <= S[2]
      /\ v = Missing \/ Denies(v) => V[1] <= V[2]
      /\ Denies(s) /\ WS > 0 /\ Cap > 1 => S[1] < S[2]
      /\ Denies(v) /\ WV > 0 /\ Cap > 1 => V[1] < V[2]
  <2>1. /\ S \in Positive /\ V \in Positive
        /\ s = Missing => S = <<1, 1>>
        /\ v = Missing => V = <<1, 1>>
        /\ Confirms(s) => S[1] >= S[2]
        /\ Confirms(v) => V[1] >= V[2]
        /\ s = Missing \/ Denies(s) => S[1] <= S[2]
        /\ v = Missing \/ Denies(v) => V[1] <= V[2]
        /\ Denies(s) /\ WS > 0 /\ Cap > 1 => S[1] < S[2]
        /\ Denies(v) /\ WV > 0 /\ Cap > 1 => V[1] < V[2]
    BY <1>0, TermOdds
  <2> HIDE DEF S, V
  <2> QED BY <2>1
<1>2. Fuse(s, v) = <<S[1] * V[1], S[2] * V[2]>>
    BY DEF Fuse
<1> HIDE DEF S, V
<1> DEFINE a == S[1]
           b == S[2]
           x == V[1]
           y == V[2]
<1>3. a \in Nat /\ b \in Nat /\ x \in Nat /\ y \in Nat /\ a >= 1 /\ b >= 1 /\ x >= 1 /\ y >= 1
    BY <1>1 DEF Positive
<1> HIDE DEF a, b, x, y
<1>4. /\ a * x \in Nat /\ b * y \in Nat /\ a * x >= 1 /\ b * y >= 1
    BY <1>3, Products
<1>5. b <= a /\ y <= x => b * y <= a * x
    BY <1>3, Products
<1>6. a < b /\ x <= y => a * x < b * y
    <2>1. ASSUME a < b, x <= y PROVE a * x < b * y
      <3>1. a <= b
        BY <1>3, <2>1
      <3> QED BY <1>3, <2>1, <3>1, Products
    <2> QED BY <2>1
<1>7. a <= b /\ x < y => a * x < b * y
    <2>1. ASSUME a <= b, x < y PROVE x * a < y * b
      <3>1. x <= y
        BY <1>3, <2>1
      <3> QED BY <1>3, <2>1, <3>1, Products
    <2>2. x * a = a * x /\ y * b = b * y
      BY <1>3
    <2> QED BY <2>1, <2>2
<1> DEFINE f == a * x
           g == b * y
<1>8. Fuse(s, v) = <<f, g>>
    BY <1>2 DEF a, b, x, y
<1> HIDE DEF f, g
<1>9. /\ f \in Nat /\ g \in Nat /\ f >= 1 /\ g >= 1
      /\ a >= b /\ x >= y => f >= g
      /\ a < b /\ x <= y => ~(f >= g)
      /\ a <= b /\ x < y => ~(f >= g)
    BY <1>3, <1>4, <1>5, <1>6, <1>7 DEF f, g
<1>10. Confirms(Fuse(s, v)) <=> f >= g
    BY <1>8 DEF Confirms
<1>11. Fuse(s, v) \in Positive
    BY <1>8, <1>9 DEF Positive
<1>12. (s = Missing \/ Confirms(s)) /\ (v = Missing \/ Confirms(v)) => Confirms(Fuse(s, v))
    BY <1>1, <1>9, <1>10 DEF a, b, x, y
<1>13. /\ Cap > 1
       /\ s = Missing \/ Denies(s)
       /\ v = Missing \/ Denies(v)
       /\ (Denies(s) /\ WS > 0) \/ (Denies(v) /\ WV > 0)
       => ~Confirms(Fuse(s, v))
    BY <1>1, <1>9, <1>10 DEF a, b, x, y
<1> QED BY <1>11, <1>12, <1>13

-----------------------------------------------------------------------------
(***************************************************************************)
(* Scoring: the invariant.                                                 *)
(***************************************************************************)
\* A model as a fit leaves it.
FittedModel(m) ==
    \E norms \in [Components -> Nat] :
        m = [norms |-> norms, classes |-> [i \in Components |-> ClassOf(norms, i)]]

ModelsFitted ==
    /\ IsTable(models) /\ Len(models) <= MaxFits
    /\ \A v \in DOMAIN models : FittedModel(models[v])

\* The stored score is that of a stored model for some densities.
ScoreStands ==
    \/ score = Unscored
    \/ \E v \in DOMAIN models, dens \in [Components -> Nat], outlier \in BOOLEAN :
           score = Scored(v, dens, outlier)

PairsFused ==
    /\ IsTable(pairs) /\ Len(pairs) <= MaxPairs
    /\ \A i \in DOMAIN pairs :
           /\ pairs[i].sensor \in Odds /\ pairs[i].visual \in Odds
           /\ pairs[i].fused = Fuse(pairs[i].sensor, pairs[i].visual)

ScoringInv == raw \in Raws /\ ModelsFitted /\ ScoreStands /\ PairsFused

(* What a score consists of.                                               *)
LEMMA ScoredIs ==
    ASSUME ModelsFitted, NEW v \in DOMAIN models, NEW dens \in [Components -> Nat],
           NEW outlier \in BOOLEAN
    PROVE  LET s == Scored(v, dens, outlier)
           IN  /\ s.version = v /\ s.densities = dens /\ s.severity = Severity(raw)
               /\ s.class \in {"not", "crack", "pothole"}
               /\ s.odds \in Odds /\ s.odds # Missing
               /\ Total(dens) = 0 => s.class = "not" /\ s.odds = <<0, 1>>
               /\ s.class = "pothole" =>
                      Total(dens) # 0 /\ Likeliest(models[v].classes, dens) = "pothole"
<1> DEFINE s == Scored(v, dens, outlier)
           classes == models[v].classes
           p == Mass(classes, dens, "pothole")
           none == Total(dens) = 0
<1>1. s = [version |-> v,
           class |-> IF none THEN "not" ELSE Likeliest(classes, dens),
           odds |-> IF none THEN <<0, 1>> ELSE <<p, Total(dens) - p>>,
           outlier |-> none \/ outlier,
           severity |-> Severity(raw),
           densities |-> dens]
    BY DEF Scored
<1>2. Likeliest(classes, dens) \in {"not", "crack", "pothole"}
  <2>1. PICK k \in Components : Likeliest(classes, dens) = classes[k]
    BY LikeliestIs
  <2>2. PICK norms \in [Components -> Nat] :
            models[v] = [norms |-> norms, classes |-> [i \in Components |-> ClassOf(norms, i)]]
    BY DEF ModelsFitted, FittedModel
  <2>3. classes[k] = ClassOf(norms, k)
    BY <2>2
  <2> QED
    BY <2>1, <2>3, ClassesByRank
<1>3. p \in Nat /\ Total(dens) \in Nat /\ p <= Total(dens)
    BY Masses
<1> HIDE DEF classes, p
<1>4. ~none => <<p, Total(dens) - p>> \in Odds /\ <<p, Total(dens) - p>> # Missing
  <2> DEFINE t == Total(dens)
  <2>1. t \in Nat /\ p \in Nat /\ p <= t
    BY <1>3
  <2> HIDE DEF t
  <2>2. t # 0 => <<p, t - p>> \in Nat \X Nat /\ <<p, t - p>> # <<0, 0>>
    BY <2>1
  <2> QED
    BY <2>2 DEF t, Odds, Missing
<1>5. <<0, 1>> \in Odds /\ <<0, 1>> # Missing
    BY DEF Odds, Missing
<1> HIDE DEF none
<1>6. /\ s.version = v /\ s.densities = dens /\ s.severity = Severity(raw)
      /\ s.class = IF none THEN "not" ELSE Likeliest(classes, dens)
      /\ s.odds = IF none THEN <<0, 1>> ELSE <<p, Total(dens) - p>>
    BY <1>1
<1> HIDE DEF s
<1>7. /\ s.version = v /\ s.densities = dens /\ s.severity = Severity(raw)
      /\ s.class \in {"not", "crack", "pothole"}
      /\ s.odds \in Odds /\ s.odds # Missing
      /\ none => s.class = "not" /\ s.odds = <<0, 1>>
      /\ s.class = "pothole" => ~none /\ Likeliest(classes, dens) = "pothole"
    BY <1>2, <1>4, <1>5, <1>6
<1> QED
    BY <1>7 DEF s, none, classes

(* The sensor term of either engine is a pair of odds, or missing.         *)
LEMMA SensorTermIs ==
    ASSUME ScoringInv
    PROVE  SensorTerm \in Odds
<1>1. score.odds \in Odds
  <2>1. CASE score = Unscored
    BY <2>1 DEF Unscored, Missing, Odds
  <2>2. CASE score # Unscored
    <3>1. PICK v \in DOMAIN models, dens \in [Components -> Nat], outlier \in BOOLEAN :
              score = Scored(v, dens, outlier)
      BY <2>2 DEF ScoringInv, ScoreStands
    <3> QED
      BY <3>1, ScoredIs DEF ScoringInv
  <2> QED
    BY <2>1, <2>2
<1>2. Heuristic(raw) \in Odds
  <2> DEFINE d == IF RatioStd > 0 THEN RatioStd ELSE 1
             r == Ratio(raw)
             z == (r - RatioMean) \div d
  <2>1. d \in Nat /\ d > 0
    BY ScoringAssumption
  <2>2. r \in Int
    <3>1. raw.magnitude \in Nat /\ raw.std \in Nat
      BY DataAssumption DEF ScoringInv
    <3>2. \A m, k \in Nat : k # 0 => m \div k \in Int
      OBVIOUS
    <3> QED
      BY <3>1, <3>2 DEF Ratio
  <2> HIDE DEF d, r
  <2>3. z \in Int
    <3>1. r - RatioMean \in Int
      BY <2>2, ScoringAssumption
    <3>2. \A m \in Int, k \in Nat : k > 0 => m \div k \in Int
      OBVIOUS
    <3> QED
      BY <2>1, <3>1, <3>2
  <2> HIDE DEF z
  <2>4. \A n \in Nat : Power(2, n) \in Nat
    <3>1. 2 \in Nat /\ 2 >= 1 /\ 2 <= 2
      OBVIOUS
    <3> QED
      BY <3>1, PowerOrder
  <2>5. Heuristic(raw) = IF z >= 0 THEN <<Power(2, z), 1>> ELSE <<1, Power(2, -z)>>
    BY DEF Heuristic, z, r, d
  <2>6. CASE z >= 0
    <3>1. Power(2, z) \in Nat
      BY <2>3, <2>4, <2>6
    <3> QED
      BY <2>5, <2>6, <3>1 DEF Odds
  <2>7. CASE ~(z >= 0)
    <3>1. -z \in Nat
      BY <2>3, <2>7
    <3>2. Power(2, -z) \in Nat
      BY <2>4, <3>1
    <3> QED
      BY <2>5, <2>7, <3>2 DEF Odds
  <2> QED
    BY <2>6, <2>7
<1> QED
    BY <1>1, <1>2 DEF SensorTerm

LEMMA ScoringInitially == ScoringInit => ScoringInv
BY ScoringAssumption
   DEF ScoringInit, ScoringInv, ModelsFitted, ScoreStands, PairsFused, IsTable

(* Models are only added, so a stored score keeps the model it came from.  *)
LEMMA ScoringStep ==
    ASSUME ScoringInv, [ScoringNext]_scoringVars
    PROVE  ScoringInv'
<1>1. ASSUME NEW norms \in [Components -> Norms], Fit(norms)
      PROVE  ScoringInv'
  <2> DEFINE m == [norms |-> norms, classes |-> [i \in Components |-> ClassOf(norms, i)]]
  <2>1. /\ models' = Append(models, m) /\ Len(models) < MaxFits
        /\ UNCHANGED <<raw, score, pairs>>
    BY <1>1 DEF Fit
  <2>2. norms \in [Components -> Nat]
    BY DataAssumption
  <2>3. FittedModel(m)
    BY <2>2 DEF FittedModel
  <2> HIDE DEF m
  <2>4. /\ IsTable(models') /\ Len(models) \in Nat /\ DOMAIN models = 1..Len(models)
        /\ DOMAIN models' = 1..Len(models) + 1
        /\ models'[Len(models) + 1] = m
        /\ \A v \in DOMAIN models : models'[v] = models[v]
    BY <2>1, AppendRow DEF ScoringInv, ModelsFitted
  <2>5. Len(models') = Len(models) + 1
    <3>1. DOMAIN models' = 1..Len(models') /\ Len(models') \in Nat
      BY <2>4, AppendRow
    <3> QED
      BY <2>4, <3>1
  <2>6. \A v \in DOMAIN models' : FittedModel(models'[v])
    <3>1. \A v \in DOMAIN models' : v \in DOMAIN models \/ v = Len(models) + 1
      BY <2>4
    <3> QED
      BY <2>3, <2>4, <3>1 DEF ScoringInv, ModelsFitted
  <2>7. ModelsFitted'
    <3>1. Len(models') <= MaxFits
      BY <2>1, <2>4, <2>5, ScoringAssumption
    <3> QED
      BY <2>4, <2>6, <3>1 DEF ModelsFitted, FittedModel, IsTable
  <2>8. ScoreStands'
    <3>1. CASE score = Unscored
      BY <2>1, <3>1 DEF ScoreStands, Unscored
    <3>2. CASE score # Unscored
      <4>1. PICK v \in DOMAIN models, dens \in [Components -> Nat], outlier \in BOOLEAN :
                score = Scored(v, dens, outlier)
        BY <3>2 DEF ScoringInv, ScoreStands
      <4>2. Scored(v, dens, outlier)' = Scored(v, dens, outlier)
        <5>1. models'[v].classes = models[v].classes /\ raw' = raw
          BY <2>1, <2>4
        <5> QED
          BY <5>1 DEF Scored
      <4>3. v \in DOMAIN models'
        BY <2>4
      <4> QED
        BY <2>1, <4>1, <4>2, <4>3 DEF ScoreStands
    <3> QED
      BY <3>1, <3>2
  <2>9. PairsFused' /\ raw' \in Raws
    BY <2>1 DEF ScoringInv, PairsFused, IsTable
  <2> QED
    BY <2>7, <2>8, <2>9 DEF ScoringInv
<1>2. ASSUME NEW dens \in [Components -> Densities], NEW outlier \in BOOLEAN,
             Score(dens, outlier)
      PROVE  ScoringInv'
  <2>1. /\ models # <<>> /\ score' = Scored(Len(models), dens, outlier)
        /\ UNCHANGED <<raw, models, pairs>>
    BY <1>2 DEF Score
  <2>2. dens \in [Components -> Nat]
    BY DataAssumption
  <2>3. Len(models) \in DOMAIN models
    <3>1. Len(models) \in Nat /\ DOMAIN models = 1..Len(models)
      BY AppendRow DEF ScoringInv, ModelsFitted
    <3>2. Len(models) # 0
      BY <2>1 DEF ScoringInv, ModelsFitted, IsTable
    <3> QED
      BY <3>1, <3>2
  <2>4. Scored(Len(models), dens, outlier)' = Scored(Len(models), dens, outlier)
    BY <2>1 DEF Scored
  <2>5. ScoreStands'
    BY <2>1, <2>2, <2>3, <2>4 DEF ScoreStands
  <2>6. raw' \in Raws /\ ModelsFitted' /\ PairsFused'
    BY <2>1 DEF ScoringInv, ModelsFitted, PairsFused, IsTable
  <2> QED
    BY <2>5, <2>6 DEF ScoringInv
<1>3. ASSUME NEW w \in Visuals, Pair(w)
      PROVE  ScoringInv'
  <2> DEFINE row == [engine |-> Engine, sensor |-> SensorTerm, visual |-> w,
                     fused |-> Fuse(SensorTerm, w)]
  <2>1. /\ Len(pairs) < MaxPairs /\ pairs' = Append(pairs, row)
        /\ UNCHANGED <<raw, models, score>>
    BY <1>3 DEF Pair
  <2>2. SensorTerm \in Odds /\ w \in Odds
    BY SensorTermIs, DataAssumption DEF Odds
  <2>3. row.sensor \in Odds /\ row.visual \in Odds /\ row.fused = Fuse(row.sensor, row.visual)
    BY <2>2
  <2> HIDE DEF row
  <2>4. /\ IsTable(pairs') /\ Len(pairs) \in Nat /\ DOMAIN pairs = 1..Len(pairs)
        /\ DOMAIN pairs' = 1..Len(pairs) + 1
        /\ pairs'[Len(pairs) + 1] = row
        /\ \A i \in DOMAIN pairs : pairs'[i] = pairs[i]
    BY <2>1, AppendRow DEF ScoringInv, PairsFused
  <2>5. Len(pairs') <= MaxPairs
    <3>1. DOMAIN pairs' = 1..Len(pairs') /\ Len(pairs') \in Nat
      BY <2>4, AppendRow
    <3>2. Len(pairs') = Len(pairs) + 1
      BY <2>4, <3>1
    <3> QED
      BY <2>1, <2>4, <3>2, ScoringAssumption
  <2>6. \A i \in DOMAIN pairs' :
            /\ pairs'[i].sensor \in Odds /\ pairs'[i].visual \in Odds
            /\ pairs'[i].fused = Fuse(pairs'[i].sensor, pairs'[i].visual)
    <3>1. \A i \in DOMAIN pairs' : i \in DOMAIN pairs \/ i = Len(pairs) + 1
      BY <2>4
    <3> QED
      BY <2>3, <2>4, <3>1 DEF ScoringInv, PairsFused
  <2>7. PairsFused'
    BY <2>4, <2>5, <2>6 DEF PairsFused, IsTable, Fuse
  <2>8. raw' \in Raws /\ ModelsFitted' /\ ScoreStands'
    <3>1. \A v, dens, outlier : Scored(v, dens, outlier)' = Scored(v, dens, outlier)
      BY <2>1 DEF Scored
    <3> QED
      BY <2>1, <3>1 DEF ScoringInv, ModelsFitted, ScoreStands, IsTable
  <2> QED
    BY <2>7, <2>8 DEF ScoringInv
<1>4. CASE UNCHANGED scoringVars
  <2>1. UNCHANGED <<raw, models, score, pairs>>
    BY <1>4 DEF scoringVars
  <2>2. \A v, dens, outlier : Scored(v, dens, outlier)' = Scored(v, dens, outlier)
    BY <2>1 DEF Scored
  <2> QED
    BY <2>1, <2>2 DEF ScoringInv, ModelsFitted, ScoreStands, PairsFused, IsTable
<1> QED
    BY <1>1, <1>2, <1>3, <1>4 DEF ScoringNext

LEMMA ScoringInvariance == ScoringSpec => []ScoringInv
<1>1. ScoringInv /\ [ScoringNext]_scoringVars => ScoringInv'
    BY ScoringStep
<1> QED
    BY <1>1, ScoringInitially, PTL DEF ScoringSpec

(* Every state the scoring can reach has values of the right kind: a       *)
(* stored score is that of a stored model, and every pair is fused to a    *)
(* probability that is neither 0 nor 1 (engine.py:21-30).                  *)
THEOREM ScoringTypeCorrect == ScoringSpec => []ScoringTypeOK
<1>1. ASSUME ScoringInv PROVE ScoringTypeOK
  <2>1. DOMAIN models = 1..Len(models) /\ Len(models) \in Nat
    BY <1>1, AppendRow DEF ScoringInv, ModelsFitted
  <2>2. {"not", "crack", "pothole"} \subseteq {Classes[i] : i \in DOMAIN Classes}
    <3>1. DOMAIN Classes = 1..3
      BY DEF Classes
    <3>2. Classes[1] = "not" /\ Classes[2] = "crack" /\ Classes[3] = "pothole"
      BY DEF Classes
    <3> QED
      BY <3>1, <3>2
  <2>3. /\ score.version \in 0..Len(models)
        /\ score.class \in {Classes[i] : i \in DOMAIN Classes} \union {"none"}
    <3>1. CASE score = Unscored
      BY <2>1, <3>1 DEF Unscored
    <3>2. CASE score # Unscored
      <4>1. PICK v \in DOMAIN models, dens \in [Components -> Nat], outlier \in BOOLEAN :
                score = Scored(v, dens, outlier)
        BY <1>1, <3>2 DEF ScoringInv, ScoreStands
      <4>2. score.version = v /\ score.class \in {"not", "crack", "pothole"}
        BY <1>1, <4>1, ScoredIs DEF ScoringInv
      <4>3. v \in 0..Len(models)
        BY <2>1
      <4> QED
        BY <2>2, <4>2, <4>3
    <3> QED
      BY <3>1, <3>2
  <2>4. \A i \in DOMAIN pairs : pairs[i].fused \in Positive
    BY <1>1, Fused DEF ScoringInv, PairsFused
  <2> QED
    BY <1>1, <2>3, <2>4 DEF ScoringTypeOK, ScoringInv, ModelsFitted, PairsFused, Positive
<1> QED
  BY <1>1, ScoringInvariance, PTL

(* Only a stored fit and stored densities make a pothole: the class has    *)
(* the largest posterior, and its components are all but the two of least  *)
(* energy (fit.py:113-122, score.py:28-45, 84).                            *)
THEOREM PotholesHaveHighEnergy == ScoringSpec => []PotholeIsHighEnergy
<1>1. ASSUME ScoringInv, score.class = "pothole"
      PROVE  \E S \in SUBSET Components :
                 /\ Cardinality(S) = K - 2
                 /\ \A i \in S, j \in Components \ S :
                        /\ models[score.version].norms[i] >= models[score.version].norms[j]
                        /\ SumFunctionOnSet(score.densities, S) >= score.densities[j]
  <2>1. score # Unscored
    BY <1>1 DEF Unscored
  <2>2. PICK v \in DOMAIN models, dens \in [Components -> Nat], outlier \in BOOLEAN :
            score = Scored(v, dens, outlier)
    BY <1>1, <2>1 DEF ScoringInv, ScoreStands
  <2>3. /\ score.version = v /\ score.densities = dens
        /\ Likeliest(models[v].classes, dens) = "pothole"
    BY <1>1, <2>2, ScoredIs DEF ScoringInv
  <2>4. PICK norms \in [Components -> Nat] :
            models[v] = [norms |-> norms, classes |-> [i \in Components |-> ClassOf(norms, i)]]
    BY <1>1 DEF ScoringInv, ModelsFitted, FittedModel
  <2> DEFINE classes == models[v].classes
             S == {i \in Components : ClassOf(norms, i) = "pothole"}
  <2>5. /\ models[v].norms = norms
        /\ classes = [i \in Components |-> ClassOf(norms, i)]
    BY <2>4
  <2>6. PICK k \in Components :
            /\ Likeliest(classes, dens) = classes[k]
            /\ \A j \in Components :
                   Mass(classes, dens, classes[j]) <= Mass(classes, dens, classes[k])
    BY LikeliestIs
  <2>7. classes[k] = "pothole" /\ ClassOf(norms, k) = "pothole"
    BY <2>3, <2>5, <2>6
  <2>8. /\ Cardinality(S) = K - 2
        /\ \A i \in S, j \in Components \ S : norms[i] >= norms[j]
    BY <2>7, PotholesAreAllButTwo
  <2>9. Mass(classes, dens, "pothole") = SumFunctionOnSet(dens, S)
    <3>1. {i \in Components : classes[i] = "pothole"} = S
      BY <2>5
    <3> QED
      BY <3>1 DEF Mass
  <2> HIDE DEF classes, S
  <2>10. ASSUME NEW j \in Components
         PROVE  SumFunctionOnSet(dens, S) >= dens[j]
    <3> DEFINE m == Mass(classes, dens, classes[j])
               p == Mass(classes, dens, "pothole")
    <3>1. m \in Nat /\ p \in Nat /\ m >= dens[j]
      BY Masses
    <3>2. m <= p
      BY <2>6, <2>7
    <3>3. dens[j] \in Nat
      OBVIOUS
    <3> HIDE DEF m, p
    <3>4. p >= dens[j]
      BY <3>1, <3>2, <3>3
    <3> QED
      BY <2>9, <3>4 DEF p
  <2>11. S \in SUBSET Components
    BY DEF S
  <2> QED
    BY <2>3, <2>5, <2>8, <2>10, <2>11
<1>2. ScoringInv => PotholeIsHighEnergy
  BY <1>1 DEF PotholeIsHighEnergy
<1> QED
  BY <1>2, ScoringInvariance, PTL

(* The logit clamps beyond even odds, and the sensor has a weight          *)
(* (engine.py:19-24, config.py): then what no component explains is never  *)
(* confirmed by its own score.                                             *)
THEOREM UnexplainedNeedImages ==
    ASSUME Cap > 1, WS > 0
    PROVE  ScoringSpec => []UnexplainedNeedsImage
<1>1. ASSUME ScoringInv PROVE UnexplainedNeedsImage
  <2> SUFFICES ASSUME score # Unscored, Total(score.densities) = 0, Member
               PROVE  \E i \in DOMAIN pairs :
                          /\ Confirms(pairs[i].fused)
                          /\ Speaks(pairs[i].visual) \/ pairs[i].sensor # score.odds
    BY DEF UnexplainedNeedsImage
  <2>1. PICK v \in DOMAIN models, dens \in [Components -> Nat], outlier \in BOOLEAN :
            score = Scored(v, dens, outlier)
    BY <1>1 DEF ScoringInv, ScoreStands
  <2>2. score.densities = dens
    BY <1>1, <2>1, ScoredIs DEF ScoringInv
  <2>3. score.class = "not" /\ score.odds = <<0, 1>>
    BY <1>1, <2>1, <2>2, ScoredIs DEF ScoringInv
  <2>4. PICK i \in DOMAIN pairs : Confirms(pairs[i].fused)
    BY <2>3 DEF Member, ByClass
  <2> DEFINE s == pairs[i].sensor
             w == pairs[i].visual
  <2>5. s \in Odds /\ w \in Odds /\ pairs[i].fused = Fuse(s, w)
    BY <1>1 DEF ScoringInv, PairsFused
  <2>6. s = score.odds => Denies(s)
    BY <2>3 DEF Denies, Confirms, Missing
  <2> HIDE DEF s, w
  <2>7. s = score.odds => Speaks(w)
    <3> SUFFICES ASSUME s = score.odds, ~Speaks(w)
                 PROVE  FALSE
      OBVIOUS
    <3>1. w = Missing \/ Denies(w)
      BY DEF Speaks, Denies
    <3>2. ~Confirms(Fuse(s, w))
      BY <2>5, <2>6, <3>1, Fused
    <3> QED
      BY <2>4, <2>5, <3>2
  <2> QED
    BY <2>4, <2>7 DEF s, w
<1> QED
  BY <1>1, ScoringInvariance, PTL

(* The same, with a weight for the image: what a pair is fused to follows  *)
(* from one of its terms, and NULL decides nothing.                        *)
THEOREM PairsDecidedByATerm ==
    ASSUME Cap > 1, WS > 0, WV > 0
    PROVE  ScoringSpec => []DecidedByATerm
<1>1. ASSUME ScoringInv PROVE DecidedByATerm
  <2> SUFFICES ASSUME NEW i \in DOMAIN pairs
               PROVE  LET terms == {pairs[i].sensor, pairs[i].visual}
                      IN  IF Confirms(pairs[i].fused)
                          THEN terms = {Missing} \/ \E o \in terms : Speaks(o)
                          ELSE \E o \in terms : Denies(o)
    BY DEF DecidedByATerm
  <2> DEFINE s == pairs[i].sensor
             w == pairs[i].visual
  <2>1. s \in Odds /\ w \in Odds /\ pairs[i].fused = Fuse(s, w)
    BY <1>1 DEF ScoringInv, PairsFused
  <2> HIDE DEF s, w
  <2>2. \A o \in {s, w} : o = Missing \/ Speaks(o) \/ Denies(o)
    BY DEF Speaks, Denies
  <2>3. \A o : (Speaks(o) => Confirms(o)) /\ (Denies(o) => ~Speaks(o))
    BY DEF Speaks, Denies
  <2>4. CASE Confirms(Fuse(s, w))
    <3>1. ~(/\ s = Missing \/ Denies(s)
            /\ w = Missing \/ Denies(w)
            /\ Denies(s) \/ Denies(w))
      BY <2>1, <2>4, Fused
    <3>2. {s, w} = {Missing} \/ \E o \in {s, w} : Speaks(o)
      BY <2>2, <3>1
    <3> QED
      BY <2>1, <2>4, <3>2 DEF s, w
  <2>5. CASE ~Confirms(Fuse(s, w))
    <3>1. ~((s = Missing \/ Confirms(s)) /\ (w = Missing \/ Confirms(w)))
      BY <2>1, <2>5, Fused
    <3>2. \E o \in {s, w} : Denies(o)
      BY <2>2, <2>3, <3>1
    <3> QED
      BY <2>1, <2>5, <3>2 DEF s, w
  <2> QED
    BY <2>4, <2>5
<1> QED
  BY <1>1, ScoringInvariance, PTL

(* Dividing by more gives no more.                                         *)
LEMMA Quotients ==
    ASSUME NEW n \in Nat, NEW c \in Nat, NEW d \in Nat, c >= 1, c <= d
    PROVE  n \div d \in Nat /\ n \div c \in Nat /\ n \div d <= n \div c
<1> DEFINE p == n \div d
           q == n \div c
<1>1. p \in Nat /\ q \in Nat /\ d * p <= n /\ n < c * (q + 1)
  <2>1. \A e \in Nat : e >= 1 => /\ n \div e \in Nat
                                 /\ n = e * (n \div e) + (n % e)
                                 /\ n % e \in 0..e - 1
    OBVIOUS
  <2>2. d >= 1
    OBVIOUS
  <2>3. p \in Nat /\ n = d * p + (n % d) /\ n % d \in 0..d - 1
    BY <2>1, <2>2
  <2>4. q \in Nat /\ n = c * q + (n % c) /\ n % c \in 0..c - 1
    BY <2>1
  <2> HIDE DEF p, q
  <2> DEFINE dp == d * p
             cq == c * q
  <2>5. dp \in Nat /\ cq \in Nat /\ c * (q + 1) = cq + c
    <3>1. dp \in Nat /\ cq \in Nat
      <4>1. \A x, y \in Nat : x * y \in Nat
        OBVIOUS
      <4> QED
        BY <2>3, <2>4, <4>1
    <3>2. c * (q + 1) = c * q + c
      BY <2>4
    <3> QED
      BY <3>1, <3>2
  <2>6. n = dp + (n % d) /\ n = cq + (n % c)
    BY <2>3, <2>4
  <2> HIDE DEF dp, cq
  <2>7. dp <= n /\ n < cq + c
    BY <2>3, <2>4, <2>5, <2>6
  <2> QED
    BY <2>3, <2>4, <2>5, <2>7 DEF dp
<1> HIDE DEF p, q
<1>2. ~(q + 1 <= p)
  <2> SUFFICES ASSUME q + 1 <= p PROVE FALSE
    OBVIOUS
  <2>1. q + 1 \in Nat
    BY <1>1
  <2>2. /\ c * (q + 1) <= d * p /\ c * (q + 1) \in Nat /\ d * p \in Nat
    BY <1>1, <2>1, Products
  <2> QED
    BY <1>1, <2>2
<1>3. p \in Nat /\ q \in Nat /\ p <= q
  BY <1>1, <1>2
<1> QED
  BY <1>3 DEF p, q

(* A cap keeps the order.                                                  *)
LEMMA CapKeepsOrder ==
    ASSUME NEW x \in Nat, NEW y \in Nat, x <= y
    PROVE  Least(100, y) >= Least(100, x)
BY DEF Least

(* The severity of the same impact never grows with the speed, known or    *)
(* not (features.py:66-86).                                                *)
THEOREM SlowerIsNeverBetter == ScoringSpec => []SlowerIsWorse
<1>1. ASSUME ScoringInv PROVE SlowerIsWorse
  <2> SUFFICES ASSUME score # Unscored, NEW r \in Raws,
                      r.magnitude = raw.magnitude, r.speed <= raw.speed
               PROVE  Severity(r) >= score.severity
    BY DEF SlowerIsWorse
  <2>1. score.severity = Severity(raw)
    <3>1. PICK v \in DOMAIN models, dens \in [Components -> Nat], outlier \in BOOLEAN :
              score = Scored(v, dens, outlier)
      BY <1>1 DEF ScoringInv, ScoreStands
    <3> QED
      BY <1>1, <3>1, ScoredIs DEF ScoringInv
  <2>2. /\ raw.magnitude \in Nat
        /\ r.speed \in Nat \union {-1} /\ raw.speed \in Nat \union {-1}
    BY <1>1, DataAssumption DEF ScoringInv, Null
  <2> DEFINE n == (100 * Scale) * raw.magnitude
             c == Most(Most(r.speed, 0), SpeedRef)
             d == Most(Most(raw.speed, 0), SpeedRef)
  <2>3. n \in Nat
    <3>1. 100 * Scale \in Nat
      BY ScoringAssumption
    <3> QED
      BY <2>2, <3>1
  <2>4. c \in Nat /\ d \in Nat /\ c >= 1 /\ c <= d
    BY <2>2, ScoringAssumption DEF Most
  <2> DEFINE p == n \div d
             q == n \div c
  <2>5. Severity(r) = Least(100, q) /\ Severity(raw) = Least(100, p)
    BY DEF Severity
  <2> HIDE DEF n, c, d
  <2>6. p \in Nat /\ q \in Nat /\ p <= q
    BY <2>3, <2>4, Quotients
  <2> HIDE DEF p, q
  <2>7. Least(100, q) >= Least(100, p)
    BY <2>6, CapKeepsOrder
  <2> QED
    BY <2>1, <2>5, <2>7
<1> QED
  BY <1>1, ScoringInvariance, PTL
=============================================================================
