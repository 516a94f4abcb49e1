------------------------ MODULE RetrieveContext_proofs ------------------------
(***************************************************************************)
(* Proofs about RetrieveContext, for any memories, requests and budgets.   *)
(***************************************************************************)
EXTENDS RetrieveContext, TLAPS, FiniteSetTheorems, WellFoundedInduction

-----------------------------------------------------------------------------
(* Sums over finite sets.  A fold is a recursive function that chooses the *)
(* next element to add; the lemmas say that it exists and that the order   *)
(* does not matter, by induction on the number of elements.                *)

Below == OpToRel(<, Nat)

\* A set of numbers that holds 0, and with n also n + 1, holds them all.
LEMMA Induction ==
  ASSUME NEW A, 0 \in A, \A n \in Nat : n \in A => n + 1 \in A
  PROVE  Nat \subseteq A
<1> SUFFICES ASSUME Nat \ A # {} PROVE FALSE
  OBVIOUS
<1>1. IsWellFoundedOn(Below, Nat)
  BY Zenon, NatLessThanWellFounded DEF Below
<1>2. PICK x \in Nat \ A : \A y \in Nat \ A : ~(<<y, x>> \in Below)
  BY Zenon, <1>1, WFMin
<1>3. \A y \in Nat \ A : ~(y < x)
  BY Zenon, <1>2 DEF Below, OpToRel
<1>4. x # 0 /\ x - 1 \in Nat /\ x - 1 < x
  BY <1>2
<1>5. x - 1 \in A
  BY <1>3, <1>4
<1>6. QED
  BY <1>2, <1>4, <1>5

\* The sum of f over S, as the community modules fold it.
SumOver(f, S) == MapThenSumSet(LAMBDA b : f[b], S)

One(s) == CHOOSE x \in s : TRUE
Body(f, g, s) == IF s = {} THEN 0 ELSE f[One(s)] + g[s \ {One(s)}]
Folded(f, S, g) == g = [s \in SUBSET S |-> Body(f, g, s)]

LEMMA SumIsFold ==
  ASSUME NEW f, NEW S
  PROVE  SumOver(f, S) = (CHOOSE g : Folded(f, S, g))[S]
  BY Zenon DEF SumOver, MapThenSumSet, MapThenFoldSet, Folded, Body, One

LEMMA OneOf ==
  ASSUME NEW s, s # {}
  PROVE  One(s) \in s
  BY DEF One

LEMMA FewerLeft ==
  ASSUME NEW s, IsFiniteSet(s), NEW x \in s
  PROVE  /\ IsFiniteSet(s \ {x}) /\ Cardinality(s) \in Nat
         /\ Cardinality(s \ {x}) = Cardinality(s) - 1
         /\ Cardinality(s) > 0
  BY FS_RemoveElement, FS_CardinalityType, FS_EmptySet

LEMMA FoldExists ==
  ASSUME NEW f, NEW S, IsFiniteSet(S), \A b \in S : f[b] \in Int
  PROVE  \E g \in [SUBSET S -> Int] : Folded(f, S, g)
<1> DEFINE Upto(n, g) == \A s \in SUBSET S : Cardinality(s) <= n => g[s] = Body(f, g, s)
           A == {n \in Nat : \E g \in [SUBSET S -> Int] : Upto(n, g)}
<1>0. \A s \in SUBSET S : IsFiniteSet(s) /\ Cardinality(s) \in Nat
                           /\ Cardinality(s) <= Cardinality(S)
  BY FS_Subset, FS_CardinalityType
<1>1. 0 \in A
  <2> DEFINE g == [s \in SUBSET S |-> 0]
  <2>1. g \in [SUBSET S -> Int]
    OBVIOUS
  <2>2. ASSUME NEW s \in SUBSET S, Cardinality(s) <= 0 PROVE g[s] = Body(f, g, s)
    <3>1. s = {}
      BY <1>0, <2>2, FS_EmptySet
    <3>2. QED
      BY <3>1 DEF Body
  <2>3. QED
    BY <2>1, <2>2
<1>2. ASSUME NEW n \in Nat, n \in A PROVE n + 1 \in A
  <2>1. PICK g \in [SUBSET S -> Int] : Upto(n, g)
    BY <1>2
  <2> DEFINE h == [s \in SUBSET S |-> Body(f, g, s)]
  <2>2. h \in [SUBSET S -> Int]
    <3>1. ASSUME NEW s \in SUBSET S PROVE Body(f, g, s) \in Int
      <4>1. CASE s = {}
        BY <4>1 DEF Body
      <4>2. CASE s # {}
        <5>1. One(s) \in s /\ s \ {One(s)} \in SUBSET S
          BY <4>2, OneOf
        <5>2. QED
          BY <4>2, <5>1, <2>1 DEF Body
      <4>3. QED
        BY <4>1, <4>2
    <3>2. QED
      BY <3>1
  <2>3. ASSUME NEW s \in SUBSET S, Cardinality(s) <= n + 1 PROVE h[s] = Body(f, h, s)
    <3>1. CASE s = {}
      BY <3>1 DEF Body
    <3>2. CASE s # {}
      <4>1. One(s) \in s /\ s \ {One(s)} \in SUBSET S
        BY <3>2, OneOf
      <4>2. Cardinality(s \ {One(s)}) <= n
        BY <1>0, <2>3, <4>1, FewerLeft
      <4>3. g[s \ {One(s)}] = Body(f, g, s \ {One(s)})
        BY <2>1, <4>1, <4>2
      <4>4. h[s \ {One(s)}] = g[s \ {One(s)}]
        BY <4>1, <4>3
      <4>5. QED
        BY <4>4 DEF Body
    <3>3. QED
      BY <3>1, <3>2
  <2>4. Upto(n + 1, h)
    BY <2>3
  <2> HIDE DEF h, Upto
  <2>5. QED
    BY <2>2, <2>4
<1> HIDE DEF A
<1>3. Nat \subseteq A
  BY <1>1, <1>2, Induction
<1>4. Cardinality(S) \in A
  BY <1>0, <1>3
<1>5. PICK g \in [SUBSET S -> Int] : Upto(Cardinality(S), g)
  BY <1>4 DEF A
<1>6. \A s \in SUBSET S : g[s] = Body(f, g, s)
  BY <1>0, <1>5
<1>7. g = [s \in SUBSET S |-> Body(f, g, s)]
  BY <1>5, <1>6
<1>8. QED
  BY <1>7 DEF Folded

\* The function the fold computes.
Fold(f, S) == CHOOSE g : Folded(f, S, g)

LEMMA FoldIsFolded ==
  ASSUME NEW f, NEW S, IsFiniteSet(S), \A b \in S : f[b] \in Int
  PROVE  /\ \A s \in SUBSET S : Fold(f, S)[s] = Body(f, Fold(f, S), s)
         /\ SumOver(f, S) = Fold(f, S)[S]
<1>1. \E g : Folded(f, S, g)
  BY FoldExists
<1>2. Folded(f, S, Fold(f, S))
  BY <1>1 DEF Fold
<1> DEFINE g == Fold(f, S)
<1>3. g = [s \in SUBSET S |-> Body(f, g, s)]
  BY <1>2 DEF Folded
<1> HIDE DEF g
<1>4. \A s \in SUBSET S : g[s] = Body(f, g, s)
  BY <1>3
<1>5. QED
  BY <1>4, SumIsFold DEF g, Fold

\* The fold over a set is, on each of its subsets, the sum over that subset.
LEMMA FoldOnSubset ==
  ASSUME NEW f, NEW S, IsFiniteSet(S), \A b \in S : f[b] \in Int
  PROVE  \A T \in SUBSET S : Fold(f, S)[T] = SumOver(f, T)
<1> DEFINE A == {n \in Nat : \A U \in SUBSET S : \A T \in SUBSET U :
                   Cardinality(T) <= n => Fold(f, U)[T] = SumOver(f, T)}
<1>0. \A U \in SUBSET S : IsFiniteSet(U) /\ Cardinality(U) \in Nat
                           /\ \A b \in U : f[b] \in Int
  BY FS_Subset, FS_CardinalityType
<1>1. 0 \in A
  <2> SUFFICES ASSUME NEW U \in SUBSET S, NEW T \in SUBSET U, Cardinality(T) <= 0
               PROVE  Fold(f, U)[T] = SumOver(f, T)
    OBVIOUS
  <2>1. T = {}
    BY <1>0, FS_EmptySet
  <2>2. Fold(f, U)[T] = 0 /\ Fold(f, T)[T] = 0 /\ SumOver(f, T) = Fold(f, T)[T]
    BY <1>0, <2>1, FoldIsFolded, ZenonT(30) DEF Body
  <2>3. QED
    BY <2>2
<1>2. ASSUME NEW n \in Nat, n \in A PROVE n + 1 \in A
  <2> SUFFICES ASSUME NEW U \in SUBSET S, NEW T \in SUBSET U, Cardinality(T) <= n + 1
               PROVE  Fold(f, U)[T] = SumOver(f, T)
    OBVIOUS
  <2>0. T \in SUBSET S
    OBVIOUS
  <2>1. CASE T = {}
    <3>1. Fold(f, U)[T] = 0 /\ Fold(f, T)[T] = 0 /\ SumOver(f, T) = Fold(f, T)[T]
      BY <1>0, <2>0, <2>1, FoldIsFolded, ZenonT(30) DEF Body
    <3>2. QED
      BY <3>1
  <2>2. CASE T # {}
    <3> DEFINE R == T \ {One(T)}
    <3>1. R \in SUBSET U /\ R \in SUBSET T /\ Cardinality(R) <= n
      BY <1>0, <2>0, <2>2, OneOf, FewerLeft
    <3>2. Fold(f, U)[R] = SumOver(f, R) /\ Fold(f, T)[R] = SumOver(f, R)
      BY <1>2, <2>0, <3>1
    <3>3. Fold(f, U)[T] = f[One(T)] + Fold(f, U)[R]
      BY <1>0, <2>2, FoldIsFolded DEF Body
    <3>4. Fold(f, T)[T] = f[One(T)] + Fold(f, T)[R] /\ SumOver(f, T) = Fold(f, T)[T]
      BY <1>0, <2>0, <2>2, FoldIsFolded DEF Body
    <3>5. QED
      BY <3>2, <3>3, <3>4
  <2>3. QED
    BY <2>1, <2>2
<1> HIDE DEF A
<1>3. Nat \subseteq A
  BY <1>1, <1>2, Induction
<1>4. ASSUME NEW T \in SUBSET S PROVE Fold(f, S)[T] = SumOver(f, T)
  <2>1. Cardinality(T) \in A /\ Cardinality(T) <= Cardinality(T)
    BY <1>0, <1>3
  <2>2. QED
    BY <2>1 DEF A
<1>5. QED
  BY <1>4

LEMMA SumOfNothing ==
  ASSUME NEW f PROVE SumOver(f, {}) = 0
<1>1. IsFiniteSet({})
  BY FS_EmptySet
<1>2. QED
  BY <1>1, FoldIsFolded DEF Body

\* The equation of the fold.
LEMMA SumOfOne ==
  ASSUME NEW f, NEW S, IsFiniteSet(S), \A b \in S : f[b] \in Int, S # {}
  PROVE  SumOver(f, S) = f[One(S)] + SumOver(f, S \ {One(S)})
<1>1. SumOver(f, S) = Fold(f, S)[S] /\ Fold(f, S)[S] = f[One(S)] + Fold(f, S)[S \ {One(S)}]
  BY FoldIsFolded DEF Body
<1>2. QED
  BY <1>1, FoldOnSubset

\* A sum of integers is one, and of natural numbers too.
LEMMA SumType ==
  ASSUME NEW f, NEW S, IsFiniteSet(S), \A b \in S : f[b] \in Int
  PROVE  SumOver(f, S) \in Int /\ ((\A b \in S : f[b] >= 0) => SumOver(f, S) >= 0)
<1> DEFINE A == {n \in Nat : \A T \in SUBSET S : Cardinality(T) <= n =>
                   SumOver(f, T) \in Int /\ ((\A b \in T : f[b] >= 0) => SumOver(f, T) >= 0)}
<1>0. \A T \in SUBSET S : IsFiniteSet(T) /\ Cardinality(T) \in Nat
                           /\ \A b \in T : f[b] \in Int
  BY FS_Subset, FS_CardinalityType
<1>1. 0 \in A
  <2> SUFFICES ASSUME NEW T \in SUBSET S, Cardinality(T) <= 0 PROVE SumOver(f, T) = 0
    OBVIOUS
  <2>1. T = {}
    BY <1>0, FS_EmptySet
  <2>2. QED
    BY <2>1, SumOfNothing
<1>2. ASSUME NEW n \in Nat, n \in A PROVE n + 1 \in A
  <2> SUFFICES ASSUME NEW T \in SUBSET S, Cardinality(T) <= n + 1
               PROVE  SumOver(f, T) \in Int /\ ((\A b \in T : f[b] >= 0) => SumOver(f, T) >= 0)
    OBVIOUS
  <2>1. CASE T = {}
    BY <2>1, SumOfNothing
  <2>2. CASE T # {}
    <3> DEFINE R == T \ {One(T)}
    <3>1. One(T) \in T /\ R \in SUBSET S /\ Cardinality(R) <= n
      BY <1>0, <2>2, OneOf, FewerLeft
    <3>2. SumOver(f, R) \in Int /\ ((\A b \in R : f[b] >= 0) => SumOver(f, R) >= 0)
      BY <1>2, <3>1
    <3>3. SumOver(f, T) = f[One(T)] + SumOver(f, R)
      BY <1>0, <2>2, SumOfOne
    <3>4. f[One(T)] \in Int
      BY <1>0, <3>1
    <3> HIDE DEF R
    <3>5. (\A b \in T : f[b] >= 0) => f[One(T)] >= 0 /\ \A b \in R : f[b] >= 0
      BY <3>1 DEF R
    <3>6. QED
      BY <3>2, <3>3, <3>4, <3>5
  <2>3. QED
    BY <2>1, <2>2
<1> HIDE DEF A
<1>3. Cardinality(S) \in A /\ Cardinality(S) <= Cardinality(S)
  BY <1>0, <1>1, <1>2, Induction
<1>4. QED
  BY <1>3 DEF A

\* Any element may be the first to be added.
LEMMA SumTaken ==
  ASSUME NEW f, NEW S, IsFiniteSet(S), \A b \in S : f[b] \in Int, NEW x \in S
  PROVE  SumOver(f, S) = f[x] + SumOver(f, S \ {x})
<1> DEFINE A == {n \in Nat : \A T \in SUBSET S : Cardinality(T) <= n =>
                   \A y \in T : SumOver(f, T) = f[y] + SumOver(f, T \ {y})}
<1>0. \A T \in SUBSET S : IsFiniteSet(T) /\ Cardinality(T) \in Nat
                           /\ SumOver(f, T) \in Int /\ \A b \in T : f[b] \in Int
  BY FS_Subset, FS_CardinalityType, SumType
<1>1. 0 \in A
  <2> SUFFICES ASSUME NEW T \in SUBSET S, Cardinality(T) <= 0, NEW y \in T PROVE FALSE
    OBVIOUS
  <2>1. QED
    BY <1>0, FS_EmptySet
<1>2. ASSUME NEW n \in Nat, n \in A PROVE n + 1 \in A
  <2> SUFFICES ASSUME NEW T \in SUBSET S, Cardinality(T) <= n + 1, NEW y \in T
               PROVE  SumOver(f, T) = f[y] + SumOver(f, T \ {y})
    OBVIOUS
  <2> DEFINE c == One(T)
             R == T \ {c}
             Q == T \ {y}
             P == T \ {c, y}
  <2>1. c \in T /\ R \in SUBSET S /\ Q \in SUBSET S /\ P \in SUBSET S
        /\ Cardinality(R) <= n /\ Cardinality(Q) <= n /\ R \ {y} = P /\ Q \ {c} = P
    BY <1>0, OneOf, FewerLeft
  <2>2. SumOver(f, T) = f[c] + SumOver(f, R)
    BY <1>0, SumOfOne
  <2> HIDE DEF c, R, Q, P
  <2>3. CASE y = c
    BY <2>2, <2>3 DEF R
  <2>4. CASE y # c
    <3>1. SumOver(f, R) = f[y] + SumOver(f, P)
      BY <1>2, <2>1, <2>4 DEF R
    <3>2. SumOver(f, Q) = f[c] + SumOver(f, P)
      BY <1>2, <2>1, <2>4 DEF Q
    <3>3. f[c] \in Int /\ f[y] \in Int /\ SumOver(f, P) \in Int
      BY <1>0, <2>1
    <3>4. QED
      BY <2>2, <3>1, <3>2, <3>3 DEF Q
  <2>5. QED
    BY <2>3, <2>4
<1> HIDE DEF A
<1>3. Cardinality(S) \in A /\ Cardinality(S) <= Cardinality(S)
  BY <1>0, <1>1, <1>2, Induction
<1>4. QED
  BY <1>3 DEF A

\* Only the values over S count.
LEMMA SumAgrees ==
  ASSUME NEW f, NEW g, NEW S, IsFiniteSet(S), \A b \in S : f[b] \in Int /\ g[b] = f[b]
  PROVE  SumOver(g, S) = SumOver(f, S)
<1> DEFINE A == {n \in Nat : \A T \in SUBSET S : Cardinality(T) <= n => SumOver(g, T) = SumOver(f, T)}
<1>0. \A T \in SUBSET S : IsFiniteSet(T) /\ Cardinality(T) \in Nat
                           /\ \A b \in T : f[b] \in Int /\ g[b] \in Int /\ g[b] = f[b]
  BY FS_Subset, FS_CardinalityType
<1>1. 0 \in A
  <2> SUFFICES ASSUME NEW T \in SUBSET S, Cardinality(T) <= 0 PROVE SumOver(g, T) = SumOver(f, T)
    OBVIOUS
  <2>1. T = {}
    BY <1>0, FS_EmptySet
  <2>2. QED
    BY <2>1, SumOfNothing
<1>2. ASSUME NEW n \in Nat, n \in A PROVE n + 1 \in A
  <2> SUFFICES ASSUME NEW T \in SUBSET S, Cardinality(T) <= n + 1
               PROVE  SumOver(g, T) = SumOver(f, T)
    OBVIOUS
  <2>1. CASE T = {}
    BY <2>1, SumOfNothing
  <2>2. CASE T # {}
    <3> DEFINE R == T \ {One(T)}
    <3>1. One(T) \in T /\ R \in SUBSET S /\ Cardinality(R) <= n
      BY <1>0, <2>2, OneOf, FewerLeft
    <3>2. SumOver(g, R) = SumOver(f, R)
      BY <1>2, <3>1
    <3>3. SumOver(f, T) = f[One(T)] + SumOver(f, R) /\ SumOver(g, T) = g[One(T)] + SumOver(g, R)
      BY <1>0, <2>2, SumOfOne
    <3>4. QED
      BY <1>0, <3>1, <3>2, <3>3
  <2>3. QED
    BY <2>1, <2>2
<1> HIDE DEF A
<1>3. Cardinality(S) \in A /\ Cardinality(S) <= Cardinality(S)
  BY <1>0, <1>1, <1>2, Induction
<1>4. QED
  BY <1>3 DEF A

\* A sum of zeros is zero.
LEMMA SumOfZeros ==
  ASSUME NEW f, NEW S, IsFiniteSet(S), \A b \in S : f[b] = 0
  PROVE  SumOver(f, S) = 0
<1> DEFINE A == {n \in Nat : \A T \in SUBSET S : Cardinality(T) <= n => SumOver(f, T) = 0}
<1>0. \A T \in SUBSET S : IsFiniteSet(T) /\ Cardinality(T) \in Nat
                           /\ \A b \in T : f[b] \in Int /\ f[b] = 0
  BY FS_Subset, FS_CardinalityType
<1>1. 0 \in A
  <2> SUFFICES ASSUME NEW T \in SUBSET S, Cardinality(T) <= 0 PROVE SumOver(f, T) = 0
    OBVIOUS
  <2>1. T = {}
    BY <1>0, FS_EmptySet
  <2>2. QED
    BY <2>1, SumOfNothing
<1>2. ASSUME NEW n \in Nat, n \in A PROVE n + 1 \in A
  <2> SUFFICES ASSUME NEW T \in SUBSET S, Cardinality(T) <= n + 1 PROVE SumOver(f, T) = 0
    OBVIOUS
  <2>1. CASE T = {}
    BY <2>1, SumOfNothing
  <2>2. CASE T # {}
    <3> DEFINE R == T \ {One(T)}
    <3>1. One(T) \in T /\ R \in SUBSET S /\ Cardinality(R) <= n
      BY <1>0, <2>2, OneOf, FewerLeft
    <3>2. SumOver(f, R) = 0 /\ f[One(T)] = 0
      BY <1>0, <1>2, <3>1
    <3>3. SumOver(f, T) = f[One(T)] + SumOver(f, R)
      BY <1>0, <2>2, SumOfOne
    <3>4. QED
      BY <3>2, <3>3
  <2>3. QED
    BY <2>1, <2>2
<1> HIDE DEF A
<1>3. Cardinality(S) \in A /\ Cardinality(S) <= Cardinality(S)
  BY <1>0, <1>1, <1>2, Induction
<1>4. QED
  BY <1>3 DEF A

\* Changing one value changes the sum by the difference.
LEMMA SumChanged ==
  ASSUME NEW f, NEW S, IsFiniteSet(S), \A b \in S : f[b] \in Int, NEW x \in S,
         NEW g, NEW t \in Int, g[x] = t, \A b \in S \ {x} : g[b] = f[b]
  PROVE  SumOver(g, S) = SumOver(f, S) - f[x] + t
<1>1. IsFiniteSet(S \ {x})
  BY FS_Subset
<1>2. \A b \in S : g[b] \in Int
  OBVIOUS
<1>3. SumOver(f, S) = f[x] + SumOver(f, S \ {x}) /\ SumOver(g, S) = t + SumOver(g, S \ {x})
  BY <1>2, SumTaken
<1>4. SumOver(g, S \ {x}) = SumOver(f, S \ {x})
  BY <1>1, SumAgrees
<1>5. SumOver(f, S \ {x}) \in Int /\ f[x] \in Int
  BY <1>1, SumType
<1>6. QED
  BY <1>3, <1>4, <1>5

\* The tokens of any blocks are a number.
LEMMA TokensAddUp ==
  \A S \in SUBSET Blocks : IsFiniteSet(S) /\ TokensOf(S) \in Nat /\ TokensOf(S) = SumOver(Tokens, S)
<1> SUFFICES ASSUME NEW S \in SUBSET Blocks
             PROVE  IsFiniteSet(S) /\ TokensOf(S) \in Nat /\ TokensOf(S) = SumOver(Tokens, S)
  OBVIOUS
<1>1. TokensOf(S) = SumOver(Tokens, S)
  BY Zenon DEF TokensOf, SumOver
<1>2. IsFiniteSet(S) /\ \A b \in S : Tokens[b] \in Nat
  BY FS_Subset, PackerConstants
<1>3. QED
  BY <1>1, <1>2, SumType

-----------------------------------------------------------------------------
(* The packer keeps to its budget.  While blocks are placed it even keeps  *)
(* to the effective budget, which leaves the reserve for what is told.     *)

Sizes ==
  /\ budget \in Nat /\ given \in SUBSET Blocks /\ todo \in SUBSET given
  /\ kept \in SUBSET given /\ size \in [Blocks -> Nat] /\ used \in Int
  /\ spare \in [fact : Nat, notice : Nat]

Finished == phase \in {"idle", "reserve", "shrink", "done"} => todo = {}

Budgeted ==
  /\ Sizes /\ Finished /\ used <= budget
  /\ phase \in {"protected", "ordinary"} => used <= Effective

LEMMA ReserveIsNat ==
  ASSUME NEW b \in Nat
  PROVE  Reserve(b) \in Nat
<1>1. b \div 8 \in Int
  OBVIOUS
<1>2. QED
  BY <1>1, PackerConstants DEF Reserve, Low, High

LEMMA EffectiveFits ==
  ASSUME budget \in Nat, given \in SUBSET Blocks
  PROVE  Effective \in Nat /\ Effective <= budget /\ Reserve(budget) \in Nat
<1>1. TokensOf(given \cap Protected) \in Nat
  BY TokensAddUp
<1>2. Reserve(budget) \in Nat
  BY ReserveIsNat
<1>3. QED
  BY <1>1, <1>2 DEF Effective, Low, High

\* The same of the next state.
LEMMA EffectivePositive ==
  ASSUME budget' \in Nat, given' \in SUBSET Blocks
  PROVE  Effective' \in Nat
<1>1. TokensOf(given' \cap Protected) \in Nat
  BY TokensAddUp
<1>2. Reserve(budget') \in Nat
  BY ReserveIsNat
<1>3. QED
  BY <1>1, <1>2 DEF Effective, Low, High

LEMMA FittedFits ==
  ASSUME NEW t \in Nat, NEW room \in Nat, NEW n \in Fitted(t, room)
  PROVE  n \in Nat /\ n <= room /\ n <= t
  BY DEF Fitted

LEMMA PackKeepsBudget ==
  ASSUME Budgeted, PackStep
  PROVE  Budgeted'
<1> USE DEF Budgeted, Sizes, Finished
<1>0. /\ Effective \in Nat /\ Effective <= budget
  BY EffectiveFits
<1>1. ASSUME PlaceProtected PROVE Budgeted'
  <2>1. PICK b \in First(todo \cap Protected) :
          \E t \in Fitted(Tokens[b], High(0, Effective - used)) :
            /\ todo' = todo \ {b} /\ kept' = kept \cup {b}
            /\ size' = [size EXCEPT ![b] = t] /\ used' = used + t
    BY <1>1 DEF PlaceProtected
  <2>2. b \in todo /\ b \in Blocks /\ Tokens[b] \in Nat
    BY <2>1, PackerConstants DEF First
  <2>3. used <= Effective /\ High(0, Effective - used) = Effective - used
    BY <1>0, <1>1 DEF PlaceProtected, High
  <2>4. PICK t \in Fitted(Tokens[b], Effective - used) :
          /\ todo' = todo \ {b} /\ kept' = kept \cup {b}
          /\ size' = [size EXCEPT ![b] = t] /\ used' = used + t
    BY <2>1, <2>3
  <2>5. t \in Nat /\ t <= Effective - used
    BY <1>0, <2>2, <2>3, <2>4, FittedFits
  <2>6. UNCHANGED <<phase, budget, given, spare>> /\ Effective' = Effective
    BY <1>1 DEF PlaceProtected, Effective
  <2>7. QED
    BY <1>0, <2>2, <2>4, <2>5, <2>6
<1>2. ASSUME PlaceOrdinary PROVE Budgeted'
  <2>1. PICK b \in First(todo) :
          LET fits == used + Tokens[b] <= Effective
          IN  /\ todo' = todo \ {b}
              /\ kept' = IF fits THEN kept \cup {b} ELSE kept
              /\ used' = IF fits THEN used + Tokens[b] ELSE used
    BY <1>2 DEF PlaceOrdinary
  <2>2. b \in todo /\ b \in Blocks /\ Tokens[b] \in Nat
    BY <2>1, PackerConstants DEF First
  <2>3. UNCHANGED <<phase, budget, given, size, spare>> /\ Effective' = Effective
    BY <1>2 DEF PlaceOrdinary, Effective
  <2>4. used <= Effective
    BY <1>2 DEF PlaceOrdinary
  <2>5. QED
    BY <1>0, <2>1, <2>2, <2>3, <2>4
<1>3. ASSUME NextPhase PROVE Budgeted'
  BY <1>3 DEF NextPhase, Effective
<1>4. ASSUME PlanReserve PROVE Budgeted'
  <2>1. Reserve(budget) \in Nat /\ NoticeRoom \in Nat /\ FactRoom \in Nat
    BY EffectiveFits, PackerConstants DEF NoticeRoom, FactRoom, Low
  <2>2. spare' \in [fact : Nat, notice : Nat]
    BY <1>4, <2>1 DEF PlanReserve, FactSizes
  <2>3. phase' \in {"done", "shrink"}
    BY <1>4 DEF PlanReserve
  <2>4. QED
    BY <1>4, <2>2, <2>3 DEF PlanReserve
<1>5. ASSUME DropLast PROVE Budgeted'
  <2>1. PICK b \in Last(Shrinkable \ Protected) :
          /\ kept' = kept \ {b} /\ used' = used - size[b]
          /\ \E f \in FactSizes(told') : spare' = [spare EXCEPT !.fact = f]
    BY <1>5 DEF DropLast
  <2>2. b \in kept /\ size[b] \in Nat
    BY <2>1 DEF Last, Shrinkable
  <2>3. Reserve(budget) \in Nat /\ NoticeRoom \in Nat /\ FactRoom \in Nat
    BY EffectiveFits, PackerConstants DEF NoticeRoom, FactRoom, Low
  <2>4. spare' \in [fact : Nat, notice : Nat]
    BY <2>1, <2>3 DEF FactSizes
  <2>5. QED
    BY <1>5, <2>1, <2>2, <2>4 DEF DropLast
<1>6. ASSUME ShortenLast PROVE Budgeted'
  <2>1. PICK b \in Last(Shrinkable) :
          \E t \in Fitted(size[b], High(0, size[b] - Overflow)) :
            /\ size' = [size EXCEPT ![b] = t] /\ used' = used + t - size[b]
    BY <1>6 DEF ShortenLast
  <2>2. b \in kept /\ b \in Blocks /\ size[b] \in Nat
    BY <2>1 DEF Last, Shrinkable
  <2>3. Overflow \in Int /\ High(0, size[b] - Overflow) \in Nat
    BY <2>2 DEF Overflow, High
  <2>4. PICK t \in Fitted(size[b], High(0, size[b] - Overflow)) :
            /\ size' = [size EXCEPT ![b] = t] /\ used' = used + t - size[b]
    BY <2>1
  <2>5. t \in Nat /\ t <= size[b]
    BY <2>2, <2>3, <2>4, FittedFits
  <2>6. used' \in Int /\ used' <= used /\ size' \in [Blocks -> Nat]
    BY <2>2, <2>4, <2>5
  <2>7. UNCHANGED <<phase, budget, given, todo, kept, spare>> /\ phase = "shrink"
    BY <1>6 DEF ShortenLast
  <2>8. QED
    BY <2>6, <2>7
<1>7. ASSUME AddReserved PROVE Budgeted'
  <2>1. High(0, budget - used) = budget - used
    BY DEF High
  <2>2. PICK f \in Fitted(spare.fact, budget - used) :
          \E n \in Fitted(spare.notice, High(0, budget - used - f)) :
            /\ spare' = [fact |-> f, notice |-> n] /\ used' = used + f + n
    BY <1>7, <2>1 DEF AddReserved
  <2>3. f \in Nat /\ f <= budget - used
    BY <2>2, FittedFits
  <2>4. High(0, budget - used - f) = budget - used - f
    BY <2>3 DEF High
  <2>5. PICK n \in Fitted(spare.notice, budget - used - f) :
            /\ spare' = [fact |-> f, notice |-> n] /\ used' = used + f + n
    BY <2>2, <2>4
  <2>6. n \in Nat /\ n <= budget - used - f
    BY <2>3, <2>5, FittedFits
  <2>7. UNCHANGED <<budget, given, todo, kept, size>> /\ phase' = "done" /\ todo = {}
    BY <1>7 DEF AddReserved
  <2>8. QED
    BY <2>3, <2>5, <2>6, <2>7
<1>8. QED
  BY <1>1, <1>2, <1>3, <1>4, <1>5, <1>6, <1>7 DEF PackStep

-----------------------------------------------------------------------------
(* The packer counts what it packs and forgets no block.  used is the sum  *)
(* of the sizes of what is kept; a block is still to place or placed once; *)
(* ordinary blocks keep their size; while room is made for what is told,   *)
(* it is told of every block dropped so far and fits into the reserve.     *)

Counted ==
  used = SumOver(size, kept) + (IF phase = "done" THEN spare.fact + spare.notice ELSE 0)

Placed ==
  /\ todo \cap kept = {} /\ given \cap Protected \subseteq todo \cup kept
  /\ phase \notin {"idle", "protected"} => todo \cap Protected = {}
  /\ \A b \in Blocks \ Protected : size[b] = Tokens[b]
  /\ phase \in {"protected", "ordinary", "reserve"} => spare = [fact |-> 0, notice |-> 0]

Telling ==
  /\ phase = "shrink" =>
       /\ told = Dropped \cap Facts /\ Reserve(budget) > 0
       /\ spare.fact <= FactRoom /\ spare.notice \in 1..NoticeRoom
  /\ phase = "done" /\ Reserve(budget) > 0 /\ Dropped # {} =>
       told = Dropped \cap Facts /\ spare.notice > 0

Accounted == Counted /\ Placed /\ Telling

LEMMA RoomsInBudget ==
  ASSUME budget \in Nat
  PROVE  /\ Reserve(budget) \in Nat /\ Reserve(budget) <= budget
         /\ NoticeRoom \in Nat /\ FactRoom \in Nat
         /\ Reserve(budget) > 0 => NoticeRoom > 0
         /\ NoticeRoom + FactRoom = Reserve(budget)
<1>1. budget \div 8 \in Int /\ (budget >= 32 => budget \div 8 <= budget)
  OBVIOUS
<1>2. Reserve(budget) \in Nat /\ Reserve(budget) <= budget
  BY <1>1, PackerConstants DEF Reserve, Low, High
<1>3. QED
  BY <1>2, PackerConstants DEF NoticeRoom, FactRoom, Low

LEMMA SizesAddUp ==
  ASSUME Sizes, NEW S \in SUBSET Blocks
  PROVE  IsFiniteSet(S) /\ (\A b \in S : size[b] \in Int) /\ SumOver(size, S) \in Int
<1>1. IsFiniteSet(S)
  BY FS_Subset, PackerConstants
<1>2. \A b \in S : size[b] \in Int
  BY DEF Sizes
<1>3. QED
  BY <1>1, <1>2, SumType

\* Placing a block with t tokens adds t to the sum.
LEMMA PlacingAdds ==
  ASSUME Sizes, NEW b \in Blocks, b \notin kept, NEW t \in Nat,
         NEW f, f[b] = t, \A c \in kept : f[c] = size[c]
  PROVE  SumOver(f, kept \cup {b}) = SumOver(size, kept) + t
<1> DEFINE S == kept \cup {b}
<1>1. S \in SUBSET Blocks /\ S \ {b} = kept /\ kept \in SUBSET Blocks
  BY DEF Sizes
<1>2. IsFiniteSet(S) /\ IsFiniteSet(kept) /\ \A c \in kept : size[c] \in Int
  BY <1>1, SizesAddUp
<1>3. \A c \in S : f[c] \in Int
  BY <1>2
<1>4. SumOver(f, S) = t + SumOver(f, kept)
  BY <1>1, <1>2, <1>3, SumTaken
<1>5. SumOver(f, kept) = SumOver(size, kept) /\ SumOver(size, kept) \in Int
  BY <1>1, <1>2, SumAgrees, SizesAddUp
<1>6. QED
  BY <1>4, <1>5

LEMMA PackKeepsAccount ==
  ASSUME Budgeted, Accounted, PackTypeOK, PackStep
  PROVE  Accounted'
<1>0. /\ Sizes /\ budget \in Nat /\ given \in SUBSET Blocks /\ kept \in SUBSET given
      /\ todo \in SUBSET given /\ size \in [Blocks -> Nat] /\ used \in Int /\ used <= budget
      /\ spare \in [fact : Nat, notice : Nat] /\ SumOver(size, kept) \in Int
  BY SizesAddUp DEF Budgeted, Sizes
<1>1. ASSUME PlaceProtected PROVE Accounted'
  <2>1. PICK b \in First(todo \cap Protected) :
          \E t \in Fitted(Tokens[b], High(0, Effective - used)) :
            /\ todo' = todo \ {b} /\ kept' = kept \cup {b}
            /\ size' = [size EXCEPT ![b] = t] /\ used' = used + t
    BY <1>1 DEF PlaceProtected
  <2>2. b \in todo /\ b \in Blocks /\ b \in Protected /\ Tokens[b] \in Nat
    BY <1>0, <2>1, PackerConstants DEF First
  <2>3. High(0, Effective - used) \in Nat
    BY <1>0, EffectiveFits DEF High
  <2>4. PICK t \in Fitted(Tokens[b], High(0, Effective - used)) :
            /\ todo' = todo \ {b} /\ kept' = kept \cup {b}
            /\ size' = [size EXCEPT ![b] = t] /\ used' = used + t
    BY <2>1
  <2>5. t \in Nat
    BY <2>2, <2>3, <2>4, FittedFits
  <2>6. phase = "protected" /\ UNCHANGED <<phase, budget, given, told, spare>>
    BY <1>1 DEF PlaceProtected
  <2>7. b \notin kept
    BY <2>2 DEF Accounted, Placed
  <2>8. SumOver(size', kept \cup {b}) = SumOver(size, kept) + t
    BY <1>0, <2>2, <2>4, <2>5, <2>7, PlacingAdds
  <2>9. Counted'
    BY <1>0, <2>4, <2>5, <2>6, <2>8 DEF Accounted, Counted
  <2>10. Placed'
    BY <1>0, <2>2, <2>4, <2>6 DEF Accounted, Placed
  <2>11. QED
    BY <2>6, <2>9, <2>10 DEF Accounted, Telling
<1>2. ASSUME PlaceOrdinary PROVE Accounted'
  <2>1. PICK b \in First(todo) :
          LET fits == used + Tokens[b] <= Effective
          IN  /\ todo' = todo \ {b}
              /\ kept' = IF fits THEN kept \cup {b} ELSE kept
              /\ used' = IF fits THEN used + Tokens[b] ELSE used
    BY <1>2 DEF PlaceOrdinary
  <2>2. phase = "ordinary" /\ UNCHANGED <<phase, budget, given, size, told, spare>>
    BY <1>2 DEF PlaceOrdinary
  <2>3. b \in todo /\ b \in Blocks /\ b \notin Protected /\ b \notin kept
        /\ Tokens[b] \in Nat /\ size[b] = Tokens[b]
    BY <1>0, <2>1, <2>2, PackerConstants DEF First, Accounted, Placed
  <2>4. SumOver(size, kept \cup {b}) = SumOver(size, kept) + Tokens[b]
    BY <1>0, <2>3, PlacingAdds
  <2>5. Counted'
    BY <1>0, <2>1, <2>2, <2>3, <2>4 DEF Accounted, Counted
  <2>6. Placed'
    BY <1>0, <2>1, <2>2, <2>3 DEF Accounted, Placed
  <2>7. QED
    BY <2>2, <2>5, <2>6 DEF Accounted, Telling
<1>3. ASSUME NextPhase PROVE Accounted'
  <2>1. UNCHANGED <<budget, given, todo, kept, size, used, told, spare>>
        /\ phase \in {"protected", "ordinary"} /\ phase' \in {"ordinary", "reserve"}
        /\ todo \cap Protected = {}
    BY <1>3 DEF NextPhase
  <2>2. Counted'
    BY <2>1 DEF Accounted, Counted
  <2>3. Placed'
    BY <2>1 DEF Accounted, Placed
  <2>4. QED
    BY <2>1, <2>2, <2>3 DEF Accounted, Telling
<1>4. ASSUME PlanReserve PROVE Accounted'
  <2>1. phase = "reserve" /\ UNCHANGED <<budget, given, todo, kept, size, used>>
        /\ phase' \in {"done", "shrink"} /\ spare = [fact |-> 0, notice |-> 0]
        /\ Dropped' = Dropped
    BY <1>4 DEF PlanReserve, Accounted, Placed, Dropped
  <2>2. Placed'
    BY <2>1 DEF Accounted, Placed
  <2>3. CASE phase' = "done" /\ UNCHANGED <<told, spare>> /\ (Dropped = {} \/ Reserve(budget) = 0)
    <3>1. Counted'
      BY <1>0, <2>1, <2>3 DEF Accounted, Counted
    <3>2. Telling'
      BY <2>1, <2>3 DEF Telling
    <3>3. QED
      BY <2>2, <3>1, <3>2 DEF Accounted
  <2>4. CASE /\ phase' = "shrink" /\ told' = Dropped \cap Facts /\ Reserve(budget) # 0
             /\ \E f \in FactSizes(told'), n \in 1..NoticeRoom :
                  spare' = [fact |-> f, notice |-> n]
    <3>1. PICK f \in FactSizes(told'), n \in 1..NoticeRoom : spare' = [fact |-> f, notice |-> n]
      BY <2>4
    <3>2. f <= FactRoom
      BY <1>0, <3>1, RoomsInBudget DEF FactSizes
    <3>3. NoticeRoom' = NoticeRoom /\ FactRoom' = FactRoom
      BY <2>1 DEF NoticeRoom, FactRoom
    <3>4. Telling'
      BY <1>0, <2>1, <2>4, <3>1, <3>2, <3>3, RoomsInBudget DEF Telling
    <3>5. Counted'
      BY <2>1, <2>4 DEF Accounted, Counted
    <3>6. QED
      BY <2>2, <3>4, <3>5 DEF Accounted
  <2>5. QED
    BY <1>4, <2>3, <2>4 DEF PlanReserve
<1>5. ASSUME DropLast PROVE Accounted'
  <2>1. PICK b \in Last(Shrinkable \ Protected) :
          /\ kept' = kept \ {b} /\ used' = used - size[b]
          /\ told' = told \cup ({b} \cap Facts)
          /\ \E f \in FactSizes(told') : spare' = [spare EXCEPT !.fact = f]
    BY <1>5 DEF DropLast
  <2>2. phase = "shrink" /\ todo = {} /\ UNCHANGED <<phase, budget, given, todo, size>>
    BY <1>5 DEF DropLast, Budgeted, Finished
  <2>3. b \in kept /\ b \notin Protected /\ size[b] \in Nat
    BY <1>0, <2>1 DEF Last, Shrinkable
  <2>4. PICK f \in FactSizes(told') : spare' = [spare EXCEPT !.fact = f]
    BY <2>1
  <2>5. spare' = [fact |-> f, notice |-> spare.notice] /\ f <= FactRoom
    BY <1>0, <2>4, RoomsInBudget DEF FactSizes
  <2>6. SumOver(size, kept) = size[b] + SumOver(size, kept \ {b})
        /\ SumOver(size, kept \ {b}) \in Int
    <3>1. IsFiniteSet(kept) /\ \A c \in kept : size[c] \in Int
      BY <1>0, SizesAddUp
    <3>2. kept \ {b} \in SUBSET Blocks
      BY <1>0
    <3>3. QED
      BY <1>0, <2>3, <3>1, <3>2, SumTaken, SizesAddUp
  <2>7. Counted'
    BY <1>0, <2>1, <2>2, <2>3, <2>6 DEF Accounted, Counted
  <2>8. Placed'
    BY <1>0, <2>1, <2>2, <2>3 DEF Accounted, Placed
  <2>9. Dropped' = Dropped \cup {b}
    BY <1>0, <2>1, <2>2, <2>3 DEF Dropped
  <2>10. NoticeRoom' = NoticeRoom /\ FactRoom' = FactRoom
    BY <2>2 DEF NoticeRoom, FactRoom
  <2>11. told = Dropped \cap Facts /\ Reserve(budget) > 0 /\ spare.notice \in 1..NoticeRoom
    BY <2>2 DEF Accounted, Telling
  <2>12. Telling'
    BY <2>1, <2>2, <2>5, <2>9, <2>10, <2>11 DEF Telling
  <2>13. QED
    BY <2>7, <2>8, <2>12 DEF Accounted
<1>6. ASSUME ShortenLast PROVE Accounted'
  <2>1. PICK b \in Last(Shrinkable) :
          \E t \in Fitted(size[b], High(0, size[b] - Overflow)) :
            /\ size' = [size EXCEPT ![b] = t] /\ used' = used + t - size[b]
    BY <1>6 DEF ShortenLast
  <2>2. phase = "shrink" /\ UNCHANGED <<phase, budget, given, todo, kept, told, spare>>
    BY <1>6 DEF ShortenLast
  <2>3. b \in kept /\ b \in Protected /\ b \in Blocks /\ size[b] \in Nat
    BY <1>0, <1>6, <2>1 DEF ShortenLast, Last, Shrinkable
  <2>4. High(0, size[b] - Overflow) \in Nat
    BY <1>0, <2>3 DEF Overflow, High
  <2>5. PICK t \in Fitted(size[b], High(0, size[b] - Overflow)) :
            /\ size' = [size EXCEPT ![b] = t] /\ used' = used + t - size[b]
    BY <2>1
  <2>6. t \in Nat
    BY <2>3, <2>4, <2>5, FittedFits
  <2>7. SumOver(size', kept) = SumOver(size, kept) - size[b] + t
    <3>1. IsFiniteSet(kept) /\ \A c \in kept : size[c] \in Int
      BY <1>0, SizesAddUp
    <3>2. size'[b] = t /\ \A c \in kept \ {b} : size'[c] = size[c]
      BY <1>0, <2>3, <2>5
    <3>3. QED
      BY <2>3, <2>6, <3>1, <3>2, SumChanged
  <2>8. Counted'
    BY <1>0, <2>2, <2>3, <2>5, <2>6, <2>7 DEF Accounted, Counted
  <2>9. Placed'
    BY <1>0, <2>2, <2>3, <2>5 DEF Accounted, Placed
  <2>10. QED
    BY <2>2, <2>8, <2>9 DEF Accounted, Telling, Dropped, NoticeRoom, FactRoom
<1>7. ASSUME AddReserved PROVE Accounted'
  <2>1. phase = "shrink" /\ phase' = "done" /\ UNCHANGED <<budget, given, todo, kept, size, told>>
    BY <1>7 DEF AddReserved
  <2>2. High(0, budget - used) = budget - used
    BY <1>0 DEF High
  <2>3. PICK f \in Fitted(spare.fact, budget - used) :
          \E n \in Fitted(spare.notice, High(0, budget - used - f)) :
            spare' = [fact |-> f, notice |-> n] /\ used' = used + f + n
    BY <1>7, <2>2 DEF AddReserved
  <2>4. f \in Nat /\ f <= budget - used
    BY <1>0, <2>3, FittedFits
  <2>5. High(0, budget - used - f) = budget - used - f /\ budget - used - f \in Nat
    BY <1>0, <2>4 DEF High
  <2>6. PICK n \in Fitted(spare.notice, budget - used - f) :
            spare' = [fact |-> f, notice |-> n] /\ used' = used + f + n
    BY <2>3, <2>5
  <2>7. n \in Nat
    BY <1>0, <2>5, <2>6, FittedFits
  <2>8. Counted'
    BY <1>0, <2>1, <2>4, <2>6, <2>7 DEF Accounted, Counted
  <2>9. Placed'
    BY <2>1 DEF Accounted, Placed
  <2>10. told = Dropped \cap Facts /\ Reserve(budget) > 0 /\ spare.fact <= FactRoom
         /\ spare.notice \in 1..NoticeRoom
    BY <2>1 DEF Accounted, Telling
  <2>11. Overflow <= 0
    <3>1. CASE Overflow <= 0
      BY <3>1
    <3>2. CASE Shrinkable = {}
      <4>1. used = SumOver(size, kept)
        BY <1>0, <2>1 DEF Accounted, Counted
      <4>2. \A b \in kept : size[b] = 0
        BY <1>0, <3>2 DEF Shrinkable
      <4>3. IsFiniteSet(kept)
        BY <1>0, SizesAddUp
      <4>4. SumOver(size, kept) = 0
        BY <4>2, <4>3, SumOfZeros
      <4>5. QED
        BY <1>0, <2>10, <4>1, <4>4, RoomsInBudget DEF Overflow
    <3>3. QED
      BY <1>7, <3>1, <3>2 DEF AddReserved
  <2>12. n = spare.notice /\ n > 0
    <3>1. f = spare.fact
      BY <1>0, <2>3, <2>11 DEF Fitted, Overflow
    <3>2. spare.notice <= budget - used - f
      BY <1>0, <2>11, <3>1 DEF Overflow
    <3>3. QED
      BY <1>0, <2>6, <2>10, <3>2 DEF Fitted
  <2>13. Telling'
    BY <2>1, <2>6, <2>10, <2>12 DEF Telling, Dropped
  <2>14. QED
    BY <2>8, <2>9, <2>13 DEF Accounted
<1>8. QED
  BY <1>1, <1>2, <1>3, <1>4, <1>5, <1>6, <1>7 DEF PackStep

-----------------------------------------------------------------------------
(* What the policy admits is safe under every configuration.               *)

LEMMA AdmittedIsSafe ==
  ASSUME NEW m, NEW cfg, NEW here, Admitted(Verdict(m, cfg, here))
  PROVE  /\ m.status # "quarantined" /\ ~ m.secret
         /\ "destructive_command" \notin m.flags /\ "tool_sensitive" \notin m.flags
         /\ cfg.hard => m.home = here
         /\ cfg.hard /\ ~ cfg.allowFailed => ~ Failed(m)
<1>1. \A why : ~ Admitted(Reject(why)) /\ ~ Admitted(Degrade(why))
  BY DEF Admitted, Reject, Degrade
<1>2. ~ Admitted(FailedVerdict(m, cfg))
  BY <1>1 DEF FailedVerdict
<1>3. FloorVerdict(m) # Accept => ~ Admitted(FloorVerdict(m))
  BY <1>1 DEF FloorVerdict
<1>4. Verdict(m, cfg, here) \notin {Reject("invalid_status"), Reject("below_relevance_floor"),
                                    Reject("workspace_mismatch"), FailedVerdict(m, cfg)}
  BY <1>1, <1>2
<1>5. m.status # "quarantined" /\ ~ (cfg.floor /\ m.weak /\ m.status # "pinned")
  BY <1>4 DEF Verdict
<1>6. ~ (cfg.hard /\ m.home # here)
  BY <1>4, <1>5 DEF Verdict
<1>7. ~ (cfg.hard /\ m.status = "deleted")
  BY <1>4, <1>5, <1>6 DEF Verdict
<1>8. ~ (cfg.hard /\ Failed(m) /\ ~ cfg.allowFailed)
  BY <1>4, <1>5, <1>6, <1>7 DEF Verdict
<1>9. FloorVerdict(m) = Accept
  BY <1>3, <1>5, <1>6, <1>7, <1>8 DEF Verdict
<1>10. ~ m.secret /\ "destructive_command" \notin m.flags /\ "tool_sensitive" \notin m.flags
  BY <1>9 DEF FloorVerdict, Accept, Reject
<1>11. QED
  BY <1>5, <1>6, <1>8, <1>10

-----------------------------------------------------------------------------
(* The invariant.  A request has found nothing before it selects and packs *)
(* nothing before it gates; what it packs it has accepted; what it found   *)
(* could be retrieved when it was read, and if fit is noted as fit.        *)

Sound(r) ==
  LET q == req[r]
  IN  /\ q.at \in {"idle", "select"} => q.found = {} /\ q.hop = 0
      /\ q.at = "hop" => q.hop < MaxHops
      /\ q.at \in {"idle", "select", "hop", "gate", "pack"} => q.blocks = {}
      /\ q.at = "pack" => phase # "idle" /\ given \cap Memories \subseteq Accepted(q)
      /\ q.blocks \cap Memories \subseteq Accepted(q)
      /\ \A m \in q.found :
           /\ Traits[m].home = Here /\ q.seen[m].status \in Statuses
           /\ Fit(q.strategy, q.seen[m]) => m \in fit[r]

(* One request packs at a time; while a request reads, every row that is   *)
(* fit for it is noted.                                                    *)
Alone == \A r, s \in Requests : At(r, "pack") /\ At(s, "pack") => r = s

Noticed ==
  \A r \in Requests, m \in Memories :
    Reading(r) /\ Fit(req[r].strategy, row[m]) => m \in fit[r]

IInv == TypeOK /\ Budgeted /\ Alone /\ Noticed /\ \A r \in Requests : Sound(r)

LEMMA PackKeepsType ==
  ASSUME Budgeted', PackTypeOK, PackStep
  PROVE  PackTypeOK'
<1>1. phase' \in Phases
  BY DEF PackStep, PlaceProtected, PlaceOrdinary, NextPhase, PlanReserve, DropLast,
         ShortenLast, AddReserved, PackTypeOK, Phases
<1>2. given' = given
  BY DEF PackStep, PlaceProtected, PlaceOrdinary, NextPhase, PlanReserve, DropLast,
         ShortenLast, AddReserved
<1>3. told' \subseteq given \cap Facts
  <2>1. CASE PlanReserve
    BY <2>1 DEF PlanReserve, Dropped, PackTypeOK
  <2>2. CASE DropLast
    BY <2>2 DEF DropLast, Last, Shrinkable, PackTypeOK
  <2>3. CASE PlaceProtected \/ PlaceOrdinary \/ NextPhase \/ ShortenLast \/ AddReserved
    BY <2>3 DEF PlaceProtected, PlaceOrdinary, NextPhase, ShortenLast, AddReserved, PackTypeOK
  <2>4. QED
    BY <2>1, <2>2, <2>3 DEF PackStep
<1>4. QED
  BY <1>1, <1>2, <1>3 DEF Budgeted, Sizes, PackTypeOK

LEMMA RowOf ==
  ASSUME TypeOK, NEW m \in Memories
  PROVE  row[m] \in Rows
  BY DEF TypeOK

LEMMA ChosenIsRetrievable ==
  ASSUME NEW rows, NEW edges, NEW hits
  PROVE  Chosen(rows, edges, hits) \subseteq Retrievable(rows)
  BY DEF Chosen, TopRanked, Linked

LEMMA WidenedIsRetrievable ==
  ASSUME NEW known, NEW fresh, NEW tokens, NEW rows, NEW edges,
         NEW S \in Widened(known, fresh, tokens, rows, edges)
  PROVE  S \subseteq Retrievable(rows) \ known
<1> DEFINE cued == UNION {Leads[m] : m \in fresh}
<1>1. Chosen(rows, edges, cued) \subseteq Retrievable(rows)
  BY ChosenIsRetrievable
<1>2. S = {} \/ S \in Fitting(Chosen(rows, edges, cued) \ known, tokens - TokensOf(known))
  BY DEF Widened
<1>3. S \subseteq Chosen(rows, edges, cued) \ known
  BY <1>2 DEF Fitting
<1>4. QED
  BY <1>1, <1>3

LEMMA EdgesAreSets ==
  ASSUME TypeOK PROVE Edges(row) \subseteq SUBSET Memories
<1> SUFFICES ASSUME NEW e \in Edges(row) PROVE e \subseteq Memories
  OBVIOUS
<1>1. CASE e \in Disputes
  BY <1>1, RetrievalConstants
<1>2. CASE e \in {{m, row[m].by} : m \in {n \in Memories : row[n].by # 0}}
  <2>1. PICK m \in Memories : row[m].by # 0 /\ e = {m, row[m].by}
    BY <1>2
  <2>2. row[m].by \in Memories
    BY <2>1, RowOf DEF Rows
  <2>3. QED
    BY <2>1, <2>2
<1>3. QED
  BY <1>1, <1>2 DEF Edges

\* A request that others leave alone stays sound.
LEMMA SoundFrame ==
  ASSUME IInv, NEW r \in Requests, req'[r] = req[r], fit[r] \subseteq fit'[r],
         req[r].at = "pack" => phase' # "idle" /\ given' = given
  PROVE  Sound(r)'
  BY DEF IInv, Sound, Accepted, VerdictOf, Fit

LEMMA BeginKeeps ==
  ASSUME IInv, NEW r \in Requests, NEW s \in StrategiesOf[r], NEW b \in Budgets, Begin(r, s, b)
  PROVE  IInv'
<1> DEFINE q == [req[r] EXCEPT !.strategy = s, !.budget = b,
                               !.at = IF s = "baseline_0" THEN "access" ELSE "select"]
<1>1. req \in [Requests -> Asked] /\ fit \in [Requests -> SUBSET Memories]
      /\ row \in [Memories -> Rows] /\ s \in Strategies /\ b \in Nat
  BY RetrievalConstants DEF IInv, TypeOK
<1>2. req' = [req EXCEPT ![r] = q]
      /\ fit' = [fit EXCEPT ![r] = {m \in Memories : Fit(s, row[m])}]
  <2>1. req[r] \in Asked
    BY <1>1
  <2>2. req' = [req EXCEPT ![r] = q]
    BY <1>1, <2>1 DEF Begin, Asked
  <2>3. QED
    BY <2>2 DEF Begin
<1>3. q \in Asked
  <2>1. req[r] \in Asked
    BY <1>1
  <2>2. QED
    BY <1>1, <2>1 DEF Asked
<1>4. UNCHANGED <<row, graph, logs, calm, changes, packer>> /\ At(r, "idle")
  BY DEF Begin
<1>5. TypeOK'
  BY <1>1, <1>2, <1>3, <1>4 DEF IInv, TypeOK, PackTypeOK, packer, logs
<1>6. Budgeted'
  BY <1>4 DEF IInv, Budgeted, Sizes, Finished, Effective, packer
<1>7. Alone'
  BY <1>1, <1>2 DEF IInv, Alone, At
<1>8. Noticed'
  <2> SUFFICES ASSUME NEW t \in Requests, NEW m \in Memories,
                      Reading(t)', Fit(req'[t].strategy, row[m])
               PROVE  m \in fit'[t]
    BY <1>4 DEF Noticed
  <2>1. CASE t = r
    <3>1. req'[r].strategy = s
      BY <1>1, <1>2 DEF Asked
    <3>2. QED
      BY <1>1, <1>2, <2>1, <3>1
  <2>2. CASE t # r
    BY <1>1, <1>2, <2>2 DEF IInv, Noticed, Reading
  <2>3. QED
    BY <2>1, <2>2
<1>9. Sound(r)'
  <2>1. req'[r] = q /\ q.found = {} /\ q.hop = 0 /\ q.blocks = {}
        /\ q.at \in {"access", "select"}
    BY <1>1, <1>2, <1>4 DEF IInv, Sound, At, Asked
  <2>2. QED
    BY <2>1 DEF Sound
<1>10. ASSUME NEW t \in Requests, t # r PROVE Sound(t)'
  BY <1>1, <1>2, <1>4, <1>10, SoundFrame DEF IInv, Sound, packer
<1>11. QED
  BY <1>5, <1>6, <1>7, <1>8, <1>9, <1>10 DEF IInv

LEMMA SelectKeeps ==
  ASSUME IInv, NEW r \in Requests, Select(r)
  PROVE  IInv'
<1> DEFINE S == IF req[r].strategy = "long_context" THEN Retrievable(row)
                ELSE Chosen(row, graph \cup Edges(row), Hits)
           q == [req[r] EXCEPT !.found = S, !.fresh = S, !.seen = Read(req[r].seen, row, S),
                               !.at = IF MultiHop(req[r].strategy) THEN "hop" ELSE "gate"]
<1>1. req \in [Requests -> Asked] /\ fit \in [Requests -> SUBSET Memories]
      /\ row \in [Memories -> Rows] /\ graph \subseteq SUBSET Memories
  BY DEF IInv, TypeOK
<1>2. req' = [req EXCEPT ![r] = q]
  BY <1>1 DEF Select
<1>3. S \subseteq Retrievable(row) /\ S \in SUBSET Memories
  BY ChosenIsRetrievable DEF Retrievable
<1>4. Read(req[r].seen, row, S) \in [Memories -> Rows]
  BY <1>1 DEF Read, Asked
<1>5. q \in Asked
  <2> HIDE DEF S
  <2>1. req[r] \in Asked
    BY <1>1
  <2>2. QED
    BY <2>1, <1>3, <1>4 DEF Asked
<1>6. UNCHANGED <<row, logs, fit, changes, packer>> /\ At(r, "select")
      /\ graph' \subseteq SUBSET Memories /\ calm' = calm \cup {r}
  BY <1>1, EdgesAreSets DEF Select, IInv
<1>7. TypeOK'
  <2> HIDE DEF q
  <2>1. QED
    BY <1>1, <1>2, <1>5, <1>6 DEF IInv, TypeOK, PackTypeOK, packer, logs
<1>8. Budgeted'
  BY <1>6 DEF IInv, Budgeted, Sizes, Finished, Effective, packer
<1>9. q.at \in {"hop", "gate"} /\ (q.at = "hop" => MaxHops > 0)
  BY <1>1 DEF MultiHop, Asked
<1>10. Alone'
  <2>1. req'[r].at # "pack" /\ \A t \in Requests : t # r => req'[t] = req[t]
    BY <1>1, <1>2, <1>9
  <2>2. QED
    BY <2>1 DEF IInv, Alone, At
<1>11. Noticed'
  <2>1. req'[r].strategy = req[r].strategy /\ \A t \in Requests : t # r => req'[t] = req[t]
    BY <1>1, <1>2 DEF Asked
  <2>2. QED
    BY <1>6, <2>1 DEF IInv, Noticed, Reading, At
<1>12. Sound(r)'
  <2>1. req'[r] = q
    BY <1>1, <1>2
  <2>2. q.found = S /\ q.hop = 0 /\ q.blocks = {} /\ q.strategy = req[r].strategy
    BY <1>1, <1>6 DEF IInv, Sound, At, Asked
  <2>3. ASSUME NEW m \in S
        PROVE  /\ Traits[m].home = Here /\ q.seen[m].status \in Statuses
               /\ Fit(q.strategy, q.seen[m]) => m \in fit[r]
    <3>1. m \in Memories /\ Traits[m].home = Here /\ row[m].status \in Statuses
      BY <1>3, <2>3 DEF Retrievable
    <3>2. q.seen = Read(req[r].seen, row, S)
      BY <1>1 DEF Asked
    <3>3. q.seen[m] = row[m]
      BY <2>3, <3>1, <3>2 DEF Read
    <3>4. QED
      BY <1>6, <2>2, <3>1, <3>3 DEF IInv, Noticed, Reading, At
  <2> HIDE DEF q, S
  <2>4. QED
    BY <1>6, <1>9, <2>1, <2>2, <2>3 DEF Sound
<1>13. ASSUME NEW t \in Requests, t # r PROVE Sound(t)'
  BY <1>1, <1>2, <1>6, <1>13, SoundFrame DEF IInv, Sound, packer
<1>14. QED
  BY <1>7, <1>8, <1>10, <1>11, <1>12, <1>13 DEF IInv

LEMMA HopKeeps ==
  ASSUME IInv, NEW r \in Requests, Hop(r)
  PROVE  IInv'
<1>1. req \in [Requests -> Asked] /\ fit \in [Requests -> SUBSET Memories]
      /\ row \in [Memories -> Rows] /\ graph \subseteq SUBSET Memories
  BY DEF IInv, TypeOK
<1>2. PICK S \in Widened(req[r].found, req[r].fresh, req[r].budget, row, graph \cup Edges(row)) :
        req' = [req EXCEPT
             ![r].found = req[r].found \cup S, ![r].fresh = S,
             ![r].seen = Read(req[r].seen, row, S), ![r].hop = req[r].hop + 1,
             ![r].at = IF S = {} \/ req[r].hop + 1 = MaxHops THEN "gate" ELSE "hop"]
  BY DEF Hop
<1>3. S \subseteq Retrievable(row) \ req[r].found /\ S \in SUBSET Memories
  BY WidenedIsRetrievable DEF Retrievable
<1> DEFINE where == IF S = {} \/ req[r].hop + 1 = MaxHops THEN "gate" ELSE "hop"
           q == [req[r] EXCEPT !.found = req[r].found \cup S, !.fresh = S,
                               !.seen = Read(req[r].seen, row, S), !.hop = req[r].hop + 1,
                               !.at = where]
<1>4. req' = [req EXCEPT ![r] = q]
  BY <1>1, <1>2
<1>5. Read(req[r].seen, row, S) \in [Memories -> Rows]
  BY <1>1 DEF Read, Asked
<1>6. UNCHANGED <<row, logs, history, packer>> /\ At(r, "hop")
      /\ graph' \subseteq SUBSET Memories
  BY <1>1, EdgesAreSets DEF Hop, IInv
<1>7. req[r].hop \in Nat /\ req[r].hop < MaxHops /\ req[r].blocks = {}
  BY <1>1, <1>6 DEF IInv, Sound, At, Asked
<1>8. q \in Asked
  <2>1. req[r] \in Asked
    BY <1>1
  <2>2. req[r].hop + 1 \in 0..MaxHops
    BY <1>7, RetrievalConstants
  <2>3. req[r].found \cup S \in SUBSET Memories
    BY <1>3, <2>1 DEF Asked
  <2>4. QED
    BY <2>1, <2>2, <2>3, <1>3, <1>5 DEF Asked
<1>9. /\ q.found = req[r].found \cup S /\ q.seen = Read(req[r].seen, row, S)
      /\ q.strategy = req[r].strategy
      /\ q.blocks = {} /\ q.at \in {"hop", "gate"} /\ (q.at = "hop" => q.hop < MaxHops)
  BY <1>1, <1>7, RetrievalConstants DEF Asked
<1> HIDE DEF q
<1>10. TypeOK'
  BY <1>1, <1>4, <1>6, <1>8 DEF IInv, TypeOK, PackTypeOK, packer, logs, history
<1>11. Budgeted'
  BY <1>6 DEF IInv, Budgeted, Sizes, Finished, Effective, packer
<1>12. Alone'
  <2>1. req'[r].at # "pack" /\ \A t \in Requests : t # r => req'[t] = req[t]
    BY <1>1, <1>4, <1>9
  <2>2. QED
    BY <2>1 DEF IInv, Alone, At
<1>13. Noticed'
  <2>1. req'[r].strategy = req[r].strategy /\ \A t \in Requests : t # r => req'[t] = req[t]
    BY <1>1, <1>4, <1>9
  <2>2. QED
    BY <1>6, <2>1 DEF IInv, Noticed, Reading, At, history
<1>14. Sound(r)'
  <2>1. req'[r] = q
    BY <1>1, <1>4
  <2>2. ASSUME NEW m \in q.found
        PROVE  /\ Traits[m].home = Here /\ q.seen[m].status \in Statuses
               /\ Fit(q.strategy, q.seen[m]) => m \in fit[r]
    <3>1. m \in Memories
      BY <1>1, <1>3, <1>9, <2>2 DEF Asked
    <3>2. CASE m \in S
      <4>1. Traits[m].home = Here /\ row[m].status \in Statuses
        BY <1>3, <3>2 DEF Retrievable
      <4>2. q.seen[m] = row[m]
        BY <1>9, <3>1, <3>2 DEF Read
      <4>3. QED
        BY <1>6, <1>9, <3>1, <4>1, <4>2 DEF IInv, Noticed, Reading, At
    <3>3. CASE m \notin S
      <4>1. q.seen[m] = req[r].seen[m] /\ m \in req[r].found
        BY <1>9, <2>2, <3>1, <3>3 DEF Read
      <4>2. QED
        BY <1>9, <4>1 DEF IInv, Sound
    <3>4. QED
      BY <3>2, <3>3
  <2>3. QED
    BY <1>6, <1>9, <2>1, <2>2 DEF Sound, history
<1>15. ASSUME NEW t \in Requests, t # r PROVE Sound(t)'
  BY <1>1, <1>4, <1>6, <1>15, SoundFrame DEF IInv, Sound, packer, history
<1>16. QED
  BY <1>10, <1>11, <1>12, <1>13, <1>14, <1>15 DEF IInv

\* What is logged after packing changes nothing of what was found and packed.
LEMMA LoggingKeeps ==
  ASSUME IInv, NEW r \in Requests, NEW q \in Asked, req' = [req EXCEPT ![r] = q],
         q.found = req[r].found, q.seen = req[r].seen, q.strategy = req[r].strategy,
         q.blocks = req[r].blocks, q.at \notin {"idle", "select", "hop", "gate", "pack"},
         UNCHANGED <<row, graph, history, packer>>,
         access' \in [Requests -> {"none", "full", "timeout"}], DOMAIN gateLog' = Requests,
         dropLog' \in [Requests -> SUBSET Blocks], bumps' \in [Memories -> Nat]
  PROVE  IInv'
<1>1. req \in [Requests -> Asked]
  BY DEF IInv, TypeOK
<1>2. TypeOK'
  BY <1>1 DEF IInv, TypeOK, PackTypeOK, packer, history
<1>3. Budgeted'
  BY DEF IInv, Budgeted, Sizes, Finished, Effective, packer
<1>4. Alone'
  <2>1. req'[r].at # "pack" /\ \A t \in Requests : t # r => req'[t] = req[t]
    BY <1>1
  <2>2. QED
    BY <2>1 DEF IInv, Alone, At
<1>5. Noticed'
  <2>1. ~ Reading(r)' /\ \A t \in Requests : t # r => req'[t] = req[t]
    BY <1>1 DEF Reading
  <2>2. QED
    BY <2>1 DEF IInv, Noticed, Reading, history
<1>6. Sound(r)'
  <2>1. req'[r] = q
    BY <1>1
  <2>2. QED
    BY <2>1 DEF IInv, Sound, Accepted, VerdictOf, history
<1>7. ASSUME NEW t \in Requests, t # r PROVE Sound(t)'
  BY <1>1, <1>7, SoundFrame DEF IInv, Sound, packer, history
<1>8. QED
  BY <1>2, <1>3, <1>4, <1>5, <1>6, <1>7 DEF IInv

LEMMA GateKeeps ==
  ASSUME IInv, phase = "idle", NEW r \in Requests, Gate(r)
  PROVE  IInv'
<1> DEFINE q == [req[r] EXCEPT !.at = "pack"]
<1>1. req \in [Requests -> Asked] /\ req[r] \in Asked /\ Protected \subseteq Blocks
  BY PackerConstants DEF IInv, TypeOK
<1>2. PICK N \in Notices(req[r]) :
        LET S == {0} \cup Accepted(req[r]) \cup {NoticeOf[m] : m \in N}
        IN  StartPacking(S, IF req[r].strategy = "long_context"
                            THEN High(req[r].budget, TokensOf(S)) ELSE req[r].budget)
  BY DEF Gate
<1> DEFINE S == {0} \cup Accepted(req[r]) \cup {NoticeOf[m] : m \in N}
           b == IF req[r].strategy = "long_context"
                THEN High(req[r].budget, TokensOf(S)) ELSE req[r].budget
<1>3. N \in SUBSET Memories
  <2>1. N \in SUBSET {m \in req[r].found : ModeOf(req[r], m) # "none"}
    BY <1>2 DEF Notices, NoticeChoices
  <2>2. QED
    BY <1>1, <2>1 DEF Asked
<1>4. S \in SUBSET Blocks /\ S \cap Memories \subseteq Accepted(req[r])
  BY <1>1, <1>3, RetrievalConstants DEF Accepted, Asked
<1>5. b \in Nat /\ TokensOf(S) \in Nat
  <2>1. TokensOf(S) \in Nat
    BY <1>4, TokensAddUp
  <2>2. QED
    BY <1>1, <2>1 DEF High, Asked
<1>6. StartPacking(S, b)
  BY <1>2
<1>7. req' = [req EXCEPT ![r] = q] /\ q \in Asked /\ At(r, "gate")
      /\ UNCHANGED <<row, graph, logs, history>>
  BY <1>1 DEF Gate, Goto, Asked
<1> HIDE DEF S, b
<1>8. /\ budget' = b /\ given' = S /\ size' = Tokens /\ told' = {}
      /\ spare' = [fact |-> 0, notice |-> 0]
      /\ \/ phase' = "done" /\ todo' = {} /\ kept' = S /\ used' = TokensOf(S) /\ TokensOf(S) <= b
         \/ phase' = "protected" /\ todo' = S /\ kept' = {} /\ used' = 0
  BY <1>6 DEF StartPacking
<1>9. Sizes'
  BY <1>4, <1>5, <1>8, PackerConstants DEF Sizes
<1>10. Effective' \in Nat
  BY <1>9, EffectivePositive DEF Sizes
<1>11. Budgeted'
  BY <1>5, <1>8, <1>9, <1>10 DEF Budgeted, Finished
<1>12. PackTypeOK'
  BY <1>8, <1>9 DEF PackTypeOK, Sizes, Phases
<1>13. TypeOK'
  BY <1>1, <1>7, <1>12 DEF IInv, TypeOK, logs, history
<1>14. \A t \in Requests : req[t].at # "pack"
  BY DEF IInv, Sound
<1>15. Alone'
  <2>1. \A t \in Requests : t # r => req'[t] = req[t]
    BY <1>1, <1>7
  <2>2. QED
    BY <1>14, <2>1 DEF Alone, At
<1>16. Noticed'
  <2>1. ~ Reading(r)' /\ \A t \in Requests : t # r => req'[t] = req[t]
    BY <1>1, <1>7 DEF Reading, Asked
  <2>2. QED
    BY <1>7, <2>1 DEF IInv, Noticed, Reading, history
<1>17. Sound(r)'
  <2>1. req'[r] = q
    BY <1>1, <1>7
  <2>2. /\ q.found = req[r].found /\ q.seen = req[r].seen /\ q.strategy = req[r].strategy
        /\ q.blocks = req[r].blocks /\ q.at = "pack"
    BY <1>1 DEF Asked
  <2>3. req[r].blocks = {} /\ Accepted(q) = Accepted(req[r])
    BY <1>7, <2>2 DEF IInv, Sound, At, Accepted, VerdictOf
  <2>4. phase' # "idle" /\ given' \cap Memories \subseteq Accepted(q)
    BY <1>4, <1>8, <2>3
  <2> HIDE DEF q
  <2>5. (Accepted(req[r]))' = Accepted(q)
    BY <2>1 DEF Accepted, VerdictOf
  <2>6. QED
    BY <1>7, <2>1, <2>2, <2>3, <2>4, <2>5 DEF IInv, Sound, history
<1>18. ASSUME NEW t \in Requests, t # r PROVE Sound(t)'
  BY <1>1, <1>7, <1>14, <1>18, SoundFrame DEF history
<1>19. QED
  BY <1>11, <1>13, <1>15, <1>16, <1>17, <1>18 DEF IInv

LEMMA PackedKeeps ==
  ASSUME IInv, NEW r \in Requests, Packed(r)
  PROVE  IInv'
<1> DEFINE q == [req[r] EXCEPT !.at = "access", !.budget = budget, !.blocks = kept,
                               !.dropped = Dropped]
<1>1. req \in [Requests -> Asked] /\ req[r] \in Asked /\ kept \in SUBSET given
      /\ given \in SUBSET Blocks /\ budget \in Nat /\ At(r, "pack")
  BY DEF IInv, TypeOK, Budgeted, Sizes, Packed
<1>2. req' = [req EXCEPT ![r] = q]
  BY <1>1 DEF Packed, Asked
<1>3. q \in Asked
  BY <1>1 DEF Asked, Dropped
<1>4. /\ phase' = "idle" /\ budget' = 0 /\ given' = {} /\ kept' = {} /\ size' = Tokens
      /\ used' = 0 /\ told' = {} /\ spare' = [fact |-> 0, notice |-> 0]
      /\ UNCHANGED <<row, graph, logs, history>>
  BY DEF Packed
<1>5. todo' = {}
  BY DEF IInv, Budgeted, Packed, Finished
<1>6. Budgeted' /\ PackTypeOK'
  BY <1>4, <1>5, PackerConstants DEF Budgeted, Sizes, Finished, PackTypeOK, Phases
<1>7. TypeOK'
  <2> HIDE DEF q
  <2>1. QED
    BY <1>1, <1>2, <1>3, <1>4, <1>6 DEF IInv, TypeOK, logs, history
<1>8. \A t \in Requests : t # r => req'[t] = req[t] /\ req[t].at # "pack"
  BY <1>1, <1>2 DEF IInv, Alone, At
<1>9. req'[r] = q /\ q.at = "access" /\ q.blocks = kept /\ q.found = req[r].found
      /\ q.seen = req[r].seen /\ q.strategy = req[r].strategy
  BY <1>1, <1>2 DEF Asked
<1> HIDE DEF q
<1>10. Alone'
  BY <1>8, <1>9 DEF Alone, At
<1>11. Noticed'
  <2>1. ~ Reading(r)'
    BY <1>9 DEF Reading
  <2>2. QED
    BY <1>4, <1>8, <2>1 DEF IInv, Noticed, Reading, history
<1>12. Sound(r)'
  <2>1. (Accepted(req[r]))' = Accepted(req[r])
    BY <1>9 DEF Accepted, VerdictOf
  <2>2. kept \cap Memories \subseteq Accepted(req[r])
    BY <1>1 DEF IInv, Sound, At
  <2>3. QED
    BY <1>4, <1>9, <2>1, <2>2 DEF IInv, Sound, history
<1>13. ASSUME NEW t \in Requests, t # r PROVE Sound(t)'
  BY <1>4, <1>8, <1>13, SoundFrame DEF history
<1>14. QED
  BY <1>6, <1>7, <1>10, <1>11, <1>12, <1>13 DEF IInv

LEMMA LogsKeep ==
  ASSUME IInv, NEW r \in Requests,
         Timeout(r) \/ LogAccess(r) \/ LogGate(r) \/ LogDropped(r) \/ Bump(r) \/ Fail(r)
  PROVE  IInv'
<1>1. req \in [Requests -> Asked] /\ req[r] \in Asked /\ req[r].found \subseteq Memories
  BY DEF IInv, TypeOK, Asked
<1>2. /\ access \in [Requests -> {"none", "full", "timeout"}] /\ DOMAIN gateLog = Requests
      /\ dropLog \in [Requests -> SUBSET Blocks] /\ bumps \in [Memories -> Nat]
  BY DEF IInv, TypeOK
<1>3. ASSUME NEW where \in {"timed_out", "gates", "compaction", "bump", "returned", "failed"},
             NEW T \in SUBSET Memories,
             req' = [req EXCEPT ![r].at = where, ![r].todo = T],
             UNCHANGED <<row, graph, history, packer>>,
             access' \in [Requests -> {"none", "full", "timeout"}], DOMAIN gateLog' = Requests,
             dropLog' \in [Requests -> SUBSET Blocks], bumps' \in [Memories -> Nat]
      PROVE  IInv'
  <2> DEFINE q == [req[r] EXCEPT !.at = where, !.todo = T]
  <2>1. q \in Asked
    BY <1>1 DEF Asked
  <2>2. req' = [req EXCEPT ![r] = q]
    BY <1>1, <1>3 DEF Asked
  <2>3. /\ q.found = req[r].found /\ q.seen = req[r].seen /\ q.strategy = req[r].strategy
        /\ q.blocks = req[r].blocks /\ q.at = where
    BY <1>1 DEF Asked
  <2> HIDE DEF q
  <2>4. QED
    BY <1>3, <2>1, <2>2, <2>3, LoggingKeeps
<1>4. ASSUME NEW where \in {"timed_out", "gates", "compaction", "bump", "returned", "failed"},
             Goto(r, where)
      PROVE  req' = [req EXCEPT ![r].at = where, ![r].todo = req[r].todo]
             /\ req[r].todo \in SUBSET Memories
  BY <1>1, <1>4 DEF Goto, Asked
<1>5. CASE Timeout(r)
  BY <1>2, <1>3, <1>4, <1>5 DEF Timeout
<1>6. CASE LogAccess(r)
  BY <1>1, <1>2, <1>3, <1>6 DEF LogAccess
<1>7. CASE LogGate(r)
  <2>1. UNCHANGED <<row, graph, access, dropLog, bumps, history, packer>> /\ At(r, "gates")
        /\ DOMAIN gateLog' = Requests
    BY <1>2, <1>7 DEF LogGate
  <2>2. CASE Goto(r, "compaction")
    BY <1>2, <1>3, <1>4, <2>1, <2>2
  <2>3. CASE \E m \in First(req[r].todo) : req' = [req EXCEPT ![r].todo = req[r].todo \ {m}]
    <3>1. PICK m : req' = [req EXCEPT ![r].todo = req[r].todo \ {m}]
      BY <2>3
    <3>2. req' = [req EXCEPT ![r].at = "gates", ![r].todo = req[r].todo \ {m}]
      BY <1>1, <2>1, <3>1 DEF At, Asked
    <3>3. req[r].todo \ {m} \in SUBSET Memories
      BY <1>1 DEF Asked
    <3>4. QED
      BY <1>2, <1>3, <2>1, <3>2, <3>3
  <2>4. QED
    BY <1>7, <2>2, <2>3 DEF LogGate
<1>8. CASE LogDropped(r)
  <2>1. dropLog' \in [Requests -> SUBSET Blocks]
    BY <1>1, <1>2, <1>8 DEF LogDropped, Asked
  <2>2. Accepted(req[r]) \in SUBSET Memories
    BY <1>1 DEF Accepted
  <2>3. QED
    BY <1>2, <1>3, <1>8, <2>1, <2>2 DEF LogDropped
<1>9. CASE Bump(r)
  <2>1. UNCHANGED <<row, graph, access, gateLog, dropLog, history, packer>> /\ At(r, "bump")
    BY <1>9 DEF Bump
  <2>2. CASE Goto(r, "returned") /\ UNCHANGED bumps
    BY <1>2, <1>3, <1>4, <2>1, <2>2
  <2>3. CASE \E m \in First(req[r].todo) :
               /\ bumps' = [bumps EXCEPT ![m] = bumps[m] + 1]
               /\ req' = [req EXCEPT ![r].todo = req[r].todo \ {m}]
    <3>1. PICK m \in First(req[r].todo) :
               /\ bumps' = [bumps EXCEPT ![m] = bumps[m] + 1]
               /\ req' = [req EXCEPT ![r].todo = req[r].todo \ {m}]
      BY <2>3
    <3>2. req' = [req EXCEPT ![r].at = "bump", ![r].todo = req[r].todo \ {m}]
      BY <1>1, <2>1, <3>1 DEF At, Asked
    <3>3. req[r].todo \ {m} \in SUBSET Memories /\ m \in Memories
      BY <1>1, <3>1 DEF Asked, First
    <3>4. bumps' \in [Memories -> Nat]
      BY <1>2, <3>1, <3>3
    <3>5. QED
      BY <1>2, <1>3, <2>1, <3>2, <3>3, <3>4
  <2>4. QED
    BY <1>9, <2>2, <2>3 DEF Bump
<1>10. CASE Fail(r)
  BY <1>2, <1>3, <1>4, <1>10 DEF Fail, logs
<1>11. QED
  BY <1>5, <1>6, <1>7, <1>8, <1>9, <1>10

LEMMA ChangedKeeps ==
  ASSUME IInv, NEW m \in Memories, NEW new \in Rows, Changed(m, new)
  PROVE  IInv'
<1>1. row \in [Memories -> Rows] /\ changes \in 0..Changes
      /\ fit \in [Requests -> SUBSET Memories]
  BY DEF IInv, TypeOK
<1>2. row' = [row EXCEPT ![m] = new] /\ changes' = changes + 1 /\ calm' = {}
      /\ UNCHANGED <<graph, req, logs, packer>> /\ changes < Changes
      /\ fit' = [r \in Requests |-> IF Reading(r) /\ Fit(req[r].strategy, new)
                                    THEN fit[r] \cup {m} ELSE fit[r]]
  BY DEF Changed
<1>3. TypeOK'
  <2>1. fit' \in [Requests -> SUBSET Memories] /\ row' \in [Memories -> Rows]
        /\ changes' \in 0..Changes
    BY <1>1, <1>2, RetrievalConstants
  <2>2. QED
    BY <1>2, <2>1 DEF IInv, TypeOK, PackTypeOK, packer, logs
<1>4. Budgeted'
  BY <1>2 DEF IInv, Budgeted, Sizes, Finished, Effective, packer
<1>5. Alone'
  BY <1>2 DEF IInv, Alone, At
<1>6. Noticed'
  <2> SUFFICES ASSUME NEW r \in Requests, NEW n \in Memories,
                      Reading(r), Fit(req[r].strategy, row'[n])
               PROVE  n \in fit'[r]
    BY <1>2 DEF Noticed, Reading
  <2>1. CASE n # m
    BY <1>1, <1>2, <2>1 DEF IInv, Noticed
  <2>2. CASE n = m
    <3>1. row'[n] = new
      BY <1>1, <1>2, <2>2
    <3>2. QED
      BY <1>2, <2>2, <3>1
  <2>3. QED
    BY <2>1, <2>2
<1>7. ASSUME NEW r \in Requests PROVE Sound(r)'
  <2>1. fit[r] \subseteq fit'[r]
    BY <1>2, <1>7
  <2>2. QED
    BY <1>2, <1>7, <2>1, SoundFrame DEF IInv, Sound, packer
<1>8. QED
  BY <1>3, <1>4, <1>5, <1>6, <1>7 DEF IInv

LEMMA OthersKeep ==
  ASSUME IInv, NEW m \in Memories, Others(m)
  PROVE  IInv'
<1>1. row[m] \in Rows
  BY RowOf DEF IInv
<1>2. ASSUME NEW s \in GateStatuses, SetStatus(m, s) PROVE IInv'
  <2>1. [row[m] EXCEPT !.status = s, !.by = 0] \in Rows
    BY <1>1 DEF Rows
  <2>2. QED
    BY <1>2, <2>1, ChangedKeeps DEF SetStatus
<1>3. ASSUME NEW n \in Memories, Supersede(m, n) PROVE IInv'
  <2>1. [row[m] EXCEPT !.status = "superseded", !.by = n] \in Rows
    BY <1>1 DEF Rows, GateStatuses
  <2>2. QED
    BY <1>3, <2>1, ChangedKeeps DEF Supersede
<1>4. ASSUME NEW b \in Branches, SetBranch(m, b) PROVE IInv'
  <2>1. [row[m] EXCEPT !.branch = b] \in Rows
    BY <1>1 DEF Rows
  <2>2. QED
    BY <1>4, <2>1, ChangedKeeps DEF SetBranch
<1>5. ASSUME Expire(m) PROVE IInv'
  <2>1. [row[m] EXCEPT !.expired = TRUE] \in Rows
    BY <1>1 DEF Rows
  <2>2. QED
    BY <1>5, <2>1, ChangedKeeps DEF Expire
<1>6. QED
  BY <1>2, <1>3, <1>4, <1>5 DEF Others

LEMMA PackingKeeps ==
  ASSUME IInv, Packing
  PROVE  IInv'
<1>1. Budgeted'
  BY PackKeepsBudget DEF IInv, Packing
<1>2. PackTypeOK'
  BY <1>1, PackKeepsType DEF IInv, TypeOK, Packing
<1>3. UNCHANGED <<row, graph, req, logs, history>> /\ given' = given /\ phase' # "idle"
  BY DEF Packing, PackStep, PlaceProtected, PlaceOrdinary, NextPhase, PlanReserve, DropLast,
         ShortenLast, AddReserved
<1>4. TypeOK'
  BY <1>2, <1>3 DEF IInv, TypeOK, logs, history
<1>5. Alone' /\ Noticed'
  BY <1>3 DEF IInv, Alone, At, Noticed, Reading, history
<1>6. ASSUME NEW r \in Requests PROVE Sound(r)'
  BY <1>3, <1>6, SoundFrame DEF history
<1>7. QED
  BY <1>1, <1>4, <1>5, <1>6 DEF IInv

LEMMA InitKeeps ==
  Init => IInv
<1> SUFFICES ASSUME Init PROVE IInv
  OBVIOUS
<1>1. req = [r \in Requests |->
              [at |-> "idle", strategy |-> "baseline_0", budget |-> 0, hop |-> 0,
               found |-> {}, fresh |-> {}, seen |-> [m \in Memories |-> Unseen], todo |-> {},
               blocks |-> {}, dropped |-> {}]]
  BY DEF Init
<1>2. Unseen \in Rows
  BY DEF Unseen, Rows, GateStatuses, Branches
<1>3. req \in [Requests -> Asked]
  BY <1>1, <1>2, RetrievalConstants DEF Asked, Strategies
<1>4. row \in [Memories -> Rows]
  BY DEF Init, Rows, GateStatuses, Branches
<1>5. Budgeted
  BY PackerConstants DEF Init, PackInit, Budgeted, Sizes, Finished
<1>6. PackTypeOK
  BY PackerConstants DEF Init, PackInit, PackTypeOK, Phases
<1>7. TypeOK
  <2>1. DOMAIN gateLog = Requests /\ dropLog \in [Requests -> SUBSET Blocks]
        /\ access \in [Requests -> {"none", "full", "timeout"}] /\ bumps \in [Memories -> Nat]
    BY DEF Init
  <2>2. fit \in [Requests -> SUBSET Memories] /\ calm \subseteq Requests
    BY DEF Init
  <2>3. changes \in 0..Changes /\ graph \subseteq SUBSET Memories
    BY RetrievalConstants DEF Init
  <2>4. QED
    BY <1>3, <1>4, <1>6, <2>1, <2>2, <2>3 DEF TypeOK
<1>8. Alone
  BY <1>1 DEF Alone, At
<1>9. Noticed
  BY <1>1 DEF Noticed, Reading
<1>10. ASSUME NEW r \in Requests PROVE Sound(r)
  BY <1>1 DEF Sound
<1>11. QED
  BY <1>5, <1>7, <1>8, <1>9, <1>10 DEF IInv

LEMMA NextKeeps ==
  IInv /\ [Next]_vars => IInv'
<1> SUFFICES ASSUME IInv, [Next]_vars PROVE IInv'
  OBVIOUS
<1>1. ASSUME NEW r \in Requests, phase = "idle", Request(r) PROVE IInv'
  <2>1. ASSUME NEW s \in StrategiesOf[r], NEW b \in Budgets, Begin(r, s, b) PROVE IInv'
    BY <2>1, BeginKeeps
  <2>2. CASE Select(r)
    BY <2>2, SelectKeeps
  <2>3. CASE Hop(r)
    BY <2>3, HopKeeps
  <2>4. CASE Gate(r)
    BY <1>1, <2>4, GateKeeps
  <2>5. CASE Timeout(r) \/ LogAccess(r) \/ LogGate(r) \/ LogDropped(r) \/ Bump(r) \/ Fail(r)
    BY <2>5, LogsKeep
  <2>6. QED
    BY <1>1, <2>1, <2>2, <2>3, <2>4, <2>5 DEF Request
<1>2. ASSUME NEW m \in Memories, Others(m) PROVE IInv'
  BY <1>2, OthersKeep
<1>3. CASE Packing
  BY <1>3, PackingKeeps
<1>4. ASSUME NEW r \in Requests, Packed(r) PROVE IInv'
  BY <1>4, PackedKeeps
<1>5. CASE UNCHANGED vars
  <2>1. UNCHANGED <<row, graph, req, logs, history, packer>>
    BY <1>5 DEF vars
  <2>2. TypeOK' /\ Budgeted' /\ Alone' /\ Noticed'
    BY <2>1 DEF IInv, TypeOK, PackTypeOK, Budgeted, Sizes, Finished, Effective, Alone, At,
                Noticed, Reading, packer, logs, history
  <2>3. ASSUME NEW r \in Requests PROVE Sound(r)'
    BY <2>1, <2>3, SoundFrame DEF IInv, Sound, packer, history
  <2>4. QED
    BY <2>2, <2>3 DEF IInv
<1>6. QED
  BY <1>1, <1>2, <1>3, <1>4, <1>5 DEF Next

(* IInv holds of every state the program reaches.                          *)
THEOREM Invariance == Spec => []IInv
<1>1. QED
  BY InitKeeps, NextKeeps, PTL DEF Spec

-----------------------------------------------------------------------------
(* A run of retrievals and packings never leaves its types: no log names a *)
(* block that does not exist, no budget turns negative.                    *)
THEOREM TypeCorrect == Spec => []TypeOK
<1>1. IInv => TypeOK
  BY DEF IInv
<1>2. QED
  BY <1>1, Invariance, PTL

(* pack_context stays within the token budget at every step, whatever the  *)
(* blocks, their sizes, the budget and the reserve.                        *)
THEOREM KeepsToBudget == Spec => []WithinBudget
<1>1. IInv => WithinBudget
  BY DEF IInv, Budgeted, WithinBudget
<1>2. QED
  BY <1>1, Invariance, PTL

\* Notices with text are made of memories that hold nothing unsafe.
LEMMA NoticeIsSafe ==
  ASSUME NEW m, NEW cfg, NEW here,
         EvidenceMode(m, Verdict(m, cfg, here)) \in {"raw_failed_attempt", "outdated_warning"}
  PROVE  ~ m.leaks /\ ~ Unsafe(m)
<1> DEFINE v == Verdict(m, cfg, here)
<1>1. CASE EvidenceMode(m, v) = "raw_failed_attempt"
  BY <1>1 DEF EvidenceMode
<1>2. CASE EvidenceMode(m, v) = "outdated_warning"
  <2>1. v.decision = "degrade" /\ v.reason = "stale_outdated" /\ ~ m.leaks
    BY <1>2 DEF EvidenceMode
  <2>2. v # Accept /\ \A why : v # Reject(why)
    BY <2>1 DEF Accept, Reject
  <2>3. v # FailedVerdict(m, cfg)
    <3>1. v # Degrade("failed_branch_degraded") /\ v # Degrade("rolled_back_degraded")
      BY <2>1 DEF Degrade
    <3>2. QED
      BY <2>2, <3>1 DEF FailedVerdict
  <2>4. v # FloorVerdict(m) \/ FloorVerdict(m) = Accept
    BY <2>2 DEF FloorVerdict
  <2>5. v = RiskVerdict(m, cfg)
    BY <2>2, <2>3, <2>4 DEF Verdict
  <2>6. v # Warn
    BY <2>1 DEF Warn
  <2>7. ~ Unsafe(m)
    BY <2>2, <2>5, <2>6 DEF RiskVerdict
  <2>8. QED
    BY <2>1, <2>7
<1>3. QED
  BY <1>1, <1>2

(* For every strategy and setting, and however the memories change between *)
(* selecting, judging and packing, no context shows what the gate must     *)
(* keep out, and no notice quotes anything unsafe.                         *)
THEOREM ContextIsSafe == Spec => []SafeContext
<1>1. ASSUME IInv, NEW r \in Requests, NEW m \in Memories PROVE
        LET q == req[r]
        IN  /\ m \in q.blocks =>
                 /\ Traits[m].home = Here /\ ~ Traits[m].secret
                 /\ Traits[m].flags \cap {"destructive_command", "tool_sensitive"} = {}
                 /\ q.seen[m].status # "quarantined"
            /\ (NoticeOf[m] \in q.blocks
                  /\ ModeOf(q, m) \in {"raw_failed_attempt", "outdated_warning"}) =>
                 ~ Traits[m].leaks /\ ~ Unsafe(Traits[m])
  <2> DEFINE q == req[r]
             k == Memory(m, q.seen[m])
  <2>1. k.flags = Traits[m].flags /\ k.secret = Traits[m].secret /\ k.leaks = Traits[m].leaks
        /\ k.status = q.seen[m].status
    BY DEF Memory
  <2>2. ASSUME m \in q.blocks
        PROVE  /\ Traits[m].home = Here /\ ~ Traits[m].secret
               /\ Traits[m].flags \cap {"destructive_command", "tool_sensitive"} = {}
               /\ q.seen[m].status # "quarantined"
    <3>1. m \in q.found /\ Admitted(VerdictOf(q, m))
      BY <1>1, <2>2 DEF IInv, Sound, Accepted
    <3>2. Traits[m].home = Here
      BY <1>1, <3>1 DEF IInv, Sound
    <3>3. Admitted(Verdict(k, Config(q.strategy, StaleWarning, Floor), Here))
      BY <3>1 DEF VerdictOf, Judged
    <3> HIDE DEF k
    <3>4. k.status # "quarantined" /\ ~ k.secret
          /\ "destructive_command" \notin k.flags /\ "tool_sensitive" \notin k.flags
      BY <3>3, AdmittedIsSafe
    <3>5. QED
      BY <2>1, <3>2, <3>4
  <2>3. ASSUME ModeOf(q, m) \in {"raw_failed_attempt", "outdated_warning"}
        PROVE  ~ Traits[m].leaks /\ ~ Unsafe(Traits[m])
    <3>1. EvidenceMode(k, Verdict(k, Config(q.strategy, StaleWarning, Floor), Here))
            \in {"raw_failed_attempt", "outdated_warning"}
      BY <2>3 DEF ModeOf, VerdictOf, Judged
    <3> HIDE DEF k
    <3>2. ~ k.leaks /\ ~ Unsafe(k)
      BY <3>1, NoticeIsSafe
    <3>3. QED
      BY <2>1, <3>2 DEF Unsafe
  <2>4. QED
    BY <2>2, <2>3
<1>2. IInv => SafeContext
  BY <1>1 DEF SafeContext
<1>3. QED
  BY <1>2, Invariance, PTL

(* A memory that was never fit for a request, from its beginning until its *)
(* candidates are judged, stays out of its context, whatever the hops, the *)
(* links and the changes of other memories meanwhile; one that others pin, *)
(* or whose branch they put back, in between may be shown.                 *)
THEOREM RetiredNeverShown == Spec => []RetiredStaysOut
<1>1. ASSUME IInv, NEW r \in Requests, NEW m \in Memories, m \in req[r].blocks
      PROVE  m \in fit[r]
  <2> DEFINE q == req[r]
             k == Memory(m, q.seen[m])
             cfg == Config(q.strategy, StaleWarning, Floor)
  <2>1. m \in q.found /\ Admitted(Verdict(k, cfg, Here))
    BY <1>1 DEF IInv, Sound, Accepted, VerdictOf, Judged
  <2>2. q.seen[m].status \in Statuses /\ (Fit(q.strategy, q.seen[m]) => m \in fit[r])
    BY <1>1, <2>1 DEF IInv, Sound
  <2>3. ASSUME q.strategy \in Learning PROVE ~ Failed(q.seen[m])
    <3>1. cfg.hard /\ ~ cfg.allowFailed
      BY <2>3 DEF Config, Learning, Ablations
    <3>2. Failed(k) <=> Failed(q.seen[m])
      BY DEF Failed, Memory
    <3> HIDE DEF k, cfg
    <3>3. ~ Failed(k)
      BY <2>1, <3>1, AdmittedIsSafe
    <3>4. QED
      BY <3>2, <3>3
  <2>4. QED
    BY <2>2, <2>3 DEF Fit
<1>2. IInv => RetiredStaysOut
  BY <1>1 DEF RetiredStaysOut
<1>3. QED
  BY <1>2, Invariance, PTL

-----------------------------------------------------------------------------
(* A step of anyone else leaves the packer alone, starts it or clears it.  *)

LEMMA StartAccounts ==
  ASSUME Budgeted, NEW S \in SUBSET Blocks, NEW b \in Nat, StartPacking(S, b)
  PROVE  Accounted'
<1>1. /\ budget' = b /\ given' = S /\ size' = Tokens /\ told' = {}
      /\ spare' = [fact |-> 0, notice |-> 0]
      /\ \/ phase' = "done" /\ todo' = {} /\ kept' = S /\ used' = TokensOf(S)
         \/ phase' = "protected" /\ todo' = S /\ kept' = {} /\ used' = 0
  BY DEF StartPacking
<1>2. TokensOf(S) = SumOver(Tokens, S) /\ TokensOf(S) \in Nat
  BY TokensAddUp
<1>3. SumOver(Tokens, {}) = 0
  BY SumOfNothing
<1>4. Counted'
  BY <1>1, <1>2, <1>3 DEF Counted
<1>5. Placed'
  BY <1>1 DEF Placed
<1>6. Telling'
  BY <1>1 DEF Telling, Dropped
<1>7. QED
  BY <1>4, <1>5, <1>6 DEF Accounted

LEMMA PackedAccounts ==
  ASSUME Budgeted, NEW r \in Requests, Packed(r)
  PROVE  Accounted'
<1>1. /\ phase' = "idle" /\ budget' = 0 /\ given' = {} /\ kept' = {} /\ size' = Tokens
      /\ used' = 0 /\ told' = {} /\ spare' = [fact |-> 0, notice |-> 0] /\ todo' = {}
  BY DEF Packed, Budgeted, Finished
<1>2. SumOver(Tokens, {}) = 0
  BY SumOfNothing
<1>3. QED
  BY <1>1, <1>2 DEF Accounted, Counted, Placed, Telling

LEMMA AccountFrame ==
  ASSUME Accounted, UNCHANGED packer
  PROVE  Accounted'
  BY DEF Accounted, Counted, Placed, Telling, Dropped, NoticeRoom, FactRoom, packer

LEMMA GateStarts ==
  ASSUME IInv, NEW r \in Requests, Gate(r)
  PROVE  \E S \in SUBSET Blocks, b \in Nat : StartPacking(S, b)
<1>1. PICK N \in Notices(req[r]) :
        LET S == {0} \cup Accepted(req[r]) \cup {NoticeOf[m] : m \in N}
        IN  StartPacking(S, IF req[r].strategy = "long_context"
                            THEN High(req[r].budget, TokensOf(S)) ELSE req[r].budget)
  BY DEF Gate
<1> DEFINE S == {0} \cup Accepted(req[r]) \cup {NoticeOf[m] : m \in N}
<1>2. req[r] \in Asked
  BY DEF IInv, TypeOK
<1>3. N \in SUBSET Memories
  BY <1>1, <1>2 DEF Notices, NoticeChoices, Asked
<1>4. S \in SUBSET Blocks
  BY <1>2, <1>3, RetrievalConstants DEF Accepted, Asked
<1>5. TokensOf(S) \in Nat /\ req[r].budget \in Nat
  BY <1>2, <1>4, TokensAddUp DEF Asked
<1> HIDE DEF S
<1>6. QED
  BY <1>1, <1>4, <1>5 DEF High, S

LEMMA NextAccounts ==
  IInv /\ Accounted /\ [Next]_vars => Accounted'
<1> SUFFICES ASSUME IInv, Accounted, [Next]_vars PROVE Accounted'
  OBVIOUS
<1>1. ASSUME NEW r \in Requests, Gate(r) PROVE Accounted'
  <2>1. PICK S \in SUBSET Blocks, b \in Nat : StartPacking(S, b)
    BY <1>1, GateStarts
  <2>2. QED
    BY <2>1, StartAccounts DEF IInv
<1>2. ASSUME NEW r \in Requests, Packed(r) PROVE Accounted'
  BY <1>2, PackedAccounts DEF IInv
<1>3. CASE Packing
  BY <1>3, PackKeepsAccount DEF Packing, IInv, TypeOK
<1>4. ASSUME NEW r \in Requests, Request(r), ~ Gate(r) PROVE UNCHANGED packer
  BY <1>4 DEF Request, Begin, Select, Hop, Timeout, LogAccess, LogGate, LogDropped, Bump, Fail
<1>5. ASSUME NEW m \in Memories, Others(m) PROVE UNCHANGED packer
  BY <1>5 DEF Others, SetStatus, Supersede, SetBranch, Expire, Changed
<1>6. CASE UNCHANGED vars
  BY <1>6, AccountFrame DEF vars
<1>7. QED
  BY <1>1, <1>2, <1>3, <1>4, <1>5, <1>6, AccountFrame DEF Next

LEMMA Accounting == Spec => []Accounted
<1>1. Init => Accounted
  <2>1. SumOver(Tokens, {}) = 0
    BY SumOfNothing
  <2>2. QED
    BY <2>1 DEF Init, PackInit, Accounted, Counted, Placed, Telling
<1>2. QED
  BY <1>1, NextAccounts, Invariance, PTL DEF Spec

(* What counts as used is what was packed: whenever pack_context returns,  *)
(* used is the tokens of the blocks kept, as shortened, and of the         *)
(* reserved blocks, for any blocks and any order of cutting and dropping.  *)
THEOREM CountsWhatIsPacked == Spec => []UsedIsPacked
<1>1. IInv /\ Accounted => UsedIsPacked
  <2> SUFFICES ASSUME IInv, Accounted, phase = "done"
               PROVE  used = MapThenSumSet(LAMBDA b : size[b], kept) + spare.fact + spare.notice
    BY Zenon DEF UsedIsPacked
  <2>1. used = SumOver(size, kept) + (spare.fact + spare.notice)
    BY DEF Accounted, Counted
  <2>2. SumOver(size, kept) = MapThenSumSet(LAMBDA b : size[b], kept)
    BY Zenon DEF SumOver
  <2>3. SumOver(size, kept) \in Int
    BY SizesAddUp DEF IInv, Budgeted, Sizes
  <2>4. spare.fact \in Nat /\ spare.notice \in Nat
    BY DEF IInv, Budgeted, Sizes
  <2>5. SumOver(size, kept) + (spare.fact + spare.notice)
          = SumOver(size, kept) + spare.fact + spare.notice
    BY <2>3, <2>4
  <2>6. QED
    BY <2>1, <2>2, <2>5
<1>2. QED
  BY <1>1, Invariance, Accounting, PTL

(* When pack_context returns, every protected block is packed, ordinary    *)
(* ones are packed whole, the facts of all that were dropped are retained, *)
(* those dropped to make room for the notice included, and if there is a   *)
(* reserve at all the notice has survived the final cut.                   *)
THEOREM ForgetsNothing == Spec => []NothingForgotten
<1>1. IInv /\ Accounted => NothingForgotten
  <2> SUFFICES ASSUME IInv, Accounted, phase = "done" PROVE NothingForgotten
    BY DEF NothingForgotten
  <2>1. todo = {} /\ given \cap Protected \subseteq kept
    BY DEF IInv, Budgeted, Finished, Accounted, Placed
  <2>2. \A b \in kept \ Protected : size[b] = Tokens[b]
    BY DEF IInv, Budgeted, Sizes, Accounted, Placed
  <2>3. Reserve(budget) > 0 /\ Dropped # {} => told = Dropped \cap Facts /\ spare.notice > 0
    BY DEF Accounted, Telling
  <2>4. QED
    BY <2>1, <2>2, <2>3 DEF NothingForgotten
<1>2. QED
  BY <1>1, Invariance, Accounting, PTL

-----------------------------------------------------------------------------
(* What is logged.  Until a request logs its decisions there are none; the *)
(* candidates still to log are known, the others have their decision; what *)
(* it has counted so far adds to access_count whatever other requests do.  *)

Unlogged == [m \in Memories |-> NoDecision]
Decisions(q, S) == [m \in Memories |-> IF m \in S THEN VerdictOf(q, m) ELSE NoDecision]

Recorded(r) ==
  LET q == req[r]
  IN  /\ q.at \in {"idle", "select", "hop", "gate", "pack", "access", "timed_out"} =>
           gateLog[r] = Unlogged /\ dropLog[r] = {}
      /\ q.at = "timed_out" => access[r] = "timeout"
      /\ q.at \in {"gates", "compaction", "bump", "returned"} => access[r] = "full"
      /\ q.at = "gates" => gateLog[r] = Decisions(q, q.found \ q.todo) /\ q.todo \subseteq q.found
      /\ q.at \in {"compaction", "bump", "returned"} => gateLog[r] = Decisions(q, q.found)
      /\ q.at \in {"bump", "returned"} /\ Reserve(q.budget) > 0 => dropLog[r] = q.dropped

\* The requests that have counted their access to m.
Passed(m) ==
  {r \in Requests : /\ At(r, "returned") \/ (At(r, "bump") /\ m \notin req[r].todo)
                    /\ m \in Accepted(req[r])}

BumpsCount ==
  \A m \in Memories : IsFiniteSet(Passed(m)) /\ Cardinality(Passed(m)) <= bumps[m]

Logging == BumpsCount /\ \A r \in Requests : Recorded(r)

LEMMA RecordedFrame ==
  ASSUME NEW r \in Requests, Recorded(r), req'[r] = req[r], access'[r] = access[r],
         gateLog'[r] = gateLog[r], dropLog'[r] = dropLog[r]
  PROVE  Recorded(r)'
<1>1. Decisions(req[r], req[r].found \ req[r].todo)'
        = Decisions(req[r], req[r].found \ req[r].todo)
  BY DEF Decisions, VerdictOf
<1>2. Decisions(req[r], req[r].found)' = Decisions(req[r], req[r].found)
  BY DEF Decisions, VerdictOf
<1>3. QED
  BY <1>1, <1>2 DEF Recorded

\* Where a request other than at "bump" moves, it has counted nothing.
LEMMA BumpsFrame ==
  ASSUME BumpsCount, bumps \in [Memories -> Nat], bumps' = bumps,
         \A m \in Memories : Passed(m)' \subseteq Passed(m)
  PROVE  BumpsCount'
<1> SUFFICES ASSUME NEW m \in Memories
             PROVE  IsFiniteSet(Passed(m)') /\ Cardinality(Passed(m)') <= bumps[m]
  BY DEF BumpsCount
<1>1. IsFiniteSet(Passed(m)) /\ Cardinality(Passed(m)) <= bumps[m]
  BY DEF BumpsCount
<1>2. IsFiniteSet(Passed(m)') /\ Cardinality(Passed(m)') <= Cardinality(Passed(m))
  BY <1>1, FS_Subset
<1>3. Cardinality(Passed(m)') \in Nat /\ Cardinality(Passed(m)) \in Nat /\ bumps[m] \in Nat
  BY <1>1, <1>2, FS_CardinalityType
<1>4. QED
  BY <1>1, <1>2, <1>3

\* A step of r that counts nothing, once what r itself has logged is seen to.
LEMMA LoggingStep ==
  ASSUME Logging, bumps \in [Memories -> Nat], NEW r \in Requests,
         \A t \in Requests : t # r => /\ req'[t] = req[t] /\ access'[t] = access[t]
                                      /\ gateLog'[t] = gateLog[t] /\ dropLog'[t] = dropLog[t],
         bumps' = bumps, \A m \in Memories : r \in Passed(m)' => r \in Passed(m), Recorded(r)'
  PROVE  Logging'
<1>1. ASSUME NEW m \in Memories PROVE Passed(m)' \subseteq Passed(m)
  <2> SUFFICES ASSUME NEW t \in Passed(m)', t # r PROVE t \in Passed(m)
    BY <1>1
  <2>1. t \in Requests /\ req'[t] = req[t]
    BY DEF Passed
  <2>2. QED
    BY <2>1 DEF Passed, At, Accepted, VerdictOf
<1>2. BumpsCount'
  BY <1>1, BumpsFrame DEF Logging
<1>3. ASSUME NEW t \in Requests, t # r PROVE Recorded(t)'
  BY <1>3, RecordedFrame DEF Logging
<1>4. QED
  BY <1>2, <1>3 DEF Logging

Early == {"idle", "select", "hop", "gate", "pack", "access"}

LEMMA EarlyKeeps ==
  ASSUME Logging, bumps \in [Memories -> Nat], NEW r \in Requests,
         \A t \in Requests : t # r => req'[t] = req[t],
         req[r].at \in Early, req'[r].at \in Early, UNCHANGED logs
  PROVE  Logging'
<1>1. Recorded(r)'
  <2>1. gateLog[r] = Unlogged /\ dropLog[r] = {}
    BY DEF Logging, Recorded, Early
  <2>2. QED
    BY <2>1 DEF Recorded, Unlogged, Early, logs
<1>2. \A m \in Memories : r \notin Passed(m)'
  BY DEF Passed, At, Early
<1>3. QED
  BY <1>1, <1>2, LoggingStep DEF logs

LEMMA StepsToEarly ==
  ASSUME IInv, NEW r \in Requests,
         \/ \E s \in StrategiesOf[r], b \in Budgets : Begin(r, s, b)
         \/ Select(r) \/ Hop(r) \/ Gate(r) \/ Packed(r)
  PROVE  /\ \A t \in Requests : t # r => req'[t] = req[t]
         /\ req[r].at \in Early /\ req'[r].at \in Early /\ UNCHANGED logs
<1>1. req \in [Requests -> Asked] /\ req[r] \in Asked
  BY DEF IInv, TypeOK
<1>2. ASSUME NEW s \in StrategiesOf[r], NEW b \in Budgets, Begin(r, s, b)
      PROVE  /\ \A t \in Requests : t # r => req'[t] = req[t]
             /\ req[r].at \in Early /\ req'[r].at \in Early /\ UNCHANGED logs
  BY <1>1, <1>2 DEF Begin, At, Early, Asked
<1>3. CASE Select(r)
  BY <1>1, <1>3 DEF Select, At, Early, Asked
<1>4. CASE Hop(r)
  <2>1. PICK S : req' = [req EXCEPT
             ![r].found = req[r].found \cup S, ![r].fresh = S,
             ![r].seen = Read(req[r].seen, row, S), ![r].hop = req[r].hop + 1,
             ![r].at = IF S = {} \/ req[r].hop + 1 = MaxHops THEN "gate" ELSE "hop"]
    BY <1>4 DEF Hop
  <2>2. QED
    BY <1>1, <1>4, <2>1 DEF Hop, At, Early, Asked
<1>5. CASE Gate(r)
  BY <1>1, <1>5 DEF Gate, Goto, At, Early, Asked
<1>6. CASE Packed(r)
  BY <1>1, <1>6 DEF Packed, At, Early, Asked
<1>7. QED
  BY <1>2, <1>3, <1>4, <1>5, <1>6

\* The same of a step that logs; gateLog has a row for each request.
LogsTyped ==
  /\ access \in [Requests -> {"none", "full", "timeout"}] /\ DOMAIN gateLog = Requests
  /\ dropLog \in [Requests -> SUBSET Blocks] /\ bumps \in [Memories -> Nat]
  /\ req \in [Requests -> Asked]

LEMMA TimeoutLogs ==
  ASSUME LogsTyped, Logging, NEW r \in Requests, Timeout(r)
  PROVE  Logging'
<1>1. req[r] \in Asked /\ req[r].at \in {"select", "hop", "gate"}
  BY DEF LogsTyped, Timeout
<1>2. req'[r].at = "timed_out" /\ access'[r] = "timeout" /\ UNCHANGED <<gateLog, dropLog, bumps>>
      /\ \A t \in Requests : t # r => req'[t] = req[t] /\ access'[t] = access[t]
  BY <1>1 DEF LogsTyped, Timeout, Goto, Asked
<1>3. gateLog[r] = Unlogged /\ dropLog[r] = {}
  BY <1>1 DEF Logging, Recorded
<1>4. Recorded(r)'
  BY <1>2, <1>3 DEF Recorded, Unlogged
<1>5. \A m \in Memories : r \notin Passed(m)'
  BY <1>2 DEF Passed, At
<1>6. QED
  BY <1>2, <1>4, <1>5, LoggingStep DEF LogsTyped

LEMMA AccessLogs ==
  ASSUME LogsTyped, Logging, NEW r \in Requests, LogAccess(r)
  PROVE  Logging'
<1>1. req[r] \in Asked /\ req[r].at = "access"
  BY DEF LogsTyped, LogAccess, At
<1>2. req' = [req EXCEPT ![r] = [req[r] EXCEPT !.at = "gates", !.todo = req[r].found]]
      /\ access' = [access EXCEPT ![r] = "full"] /\ UNCHANGED <<gateLog, dropLog, bumps>>
  BY <1>1 DEF LogsTyped, LogAccess, Asked
<1>3. req'[r].at = "gates" /\ req'[r].todo = req'[r].found /\ access'[r] = "full"
      /\ \A t \in Requests : t # r => req'[t] = req[t] /\ access'[t] = access[t]
  BY <1>1, <1>2 DEF LogsTyped, Asked
<1>4. gateLog[r] = Unlogged
  BY <1>1 DEF Logging, Recorded
<1>5. Recorded(r)'
  <2>1. (Decisions(req[r], req[r].found \ req[r].todo))' = Unlogged
    BY <1>3 DEF Decisions, Unlogged
  <2>2. QED
    BY <1>2, <1>3, <1>4, <2>1 DEF Recorded
<1>6. \A m \in Memories : r \notin Passed(m)'
  BY <1>3 DEF Passed, At
<1>7. QED
  BY <1>2, <1>3, <1>5, <1>6, LoggingStep DEF LogsTyped

LEMMA GateLogs ==
  ASSUME LogsTyped, Logging, NEW r \in Requests, LogGate(r)
  PROVE  Logging'
<1> DEFINE q == req[r]
<1>1. q \in Asked /\ q.at = "gates" /\ UNCHANGED <<access, dropLog, bumps>>
  BY DEF LogsTyped, LogGate, At
<1>2. gateLog[r] = Decisions(q, q.found \ q.todo) /\ q.todo \subseteq q.found
      /\ access[r] = "full"
  BY <1>1 DEF Logging, Recorded
<1>3. CASE q.todo = {} /\ Goto(r, "compaction") /\ UNCHANGED gateLog
  <2> DEFINE p == [q EXCEPT !.at = "compaction"]
  <2>1. req' = [req EXCEPT ![r] = p]
    BY <1>1, <1>3 DEF LogsTyped, Goto, Asked
  <2>2. req'[r] = p /\ \A t \in Requests : t # r => req'[t] = req[t]
    BY <2>1 DEF LogsTyped
  <2>3. p.at = "compaction" /\ p.found = q.found /\ p.seen = q.seen /\ p.strategy = q.strategy
    BY <1>1 DEF Asked
  <2> HIDE DEF p
  <2>4. Decisions(p, p.found) = Decisions(q, q.found \ q.todo)
    BY <1>3, <2>3 DEF Decisions, VerdictOf
  <2>5. (Decisions(req[r], req[r].found))' = Decisions(p, p.found)
    BY <2>2 DEF Decisions, VerdictOf
  <2>6. Recorded(r)'
    BY <1>1, <1>2, <1>3, <2>2, <2>3, <2>4, <2>5 DEF Recorded
  <2>7. \A m \in Memories : r \notin Passed(m)'
    BY <2>2, <2>3 DEF Passed, At
  <2>8. QED
    BY <1>1, <1>3, <2>2, <2>6, <2>7, LoggingStep DEF LogsTyped
<1>4. ASSUME NEW m \in First(q.todo), gateLog' = [gateLog EXCEPT ![r][m] = VerdictOf(q, m)],
             req' = [req EXCEPT ![r].todo = q.todo \ {m}]
      PROVE  Logging'
  <2> DEFINE p == [q EXCEPT !.todo = q.todo \ {m}]
  <2>1. req' = [req EXCEPT ![r] = p] /\ m \in Memories /\ m \in q.todo
    BY <1>1, <1>4 DEF LogsTyped, First, Asked
  <2>2. req'[r] = p /\ \A t \in Requests : t # r => req'[t] = req[t]
    BY <2>1 DEF LogsTyped
  <2>3. p.at = "gates" /\ p.found = q.found /\ p.seen = q.seen /\ p.strategy = q.strategy
        /\ p.todo = q.todo \ {m}
    BY <1>1 DEF Asked
  <2> HIDE DEF p
  <2>4. gateLog' = [gateLog EXCEPT ![r] = [gateLog[r] EXCEPT ![m] = VerdictOf(q, m)]]
    BY <1>4
  <2>5. gateLog'[r] = [gateLog[r] EXCEPT ![m] = VerdictOf(q, m)]
        /\ \A t \in Requests : t # r => gateLog'[t] = gateLog[t]
    BY <2>4 DEF LogsTyped
  <2>6. gateLog'[r] = Decisions(p, p.found \ p.todo)
    <3>1. gateLog'[r] = [n \in Memories |-> IF n = m THEN VerdictOf(q, m)
                                           ELSE IF n \in q.found \ q.todo THEN VerdictOf(q, n)
                                           ELSE NoDecision]
      BY <1>2, <2>1, <2>5 DEF Decisions
    <3>2. \A n \in Memories : VerdictOf(p, n) = VerdictOf(q, n)
      BY <2>3 DEF VerdictOf
    <3>3. \A n \in Memories : n \in p.found \ p.todo <=> n = m \/ n \in q.found \ q.todo
      BY <1>2, <2>1, <2>3
    <3>4. QED
      BY <2>1, <3>1, <3>2, <3>3 DEF Decisions
  <2>7. (Decisions(req[r], req[r].found \ req[r].todo))' = Decisions(p, p.found \ p.todo)
    BY <2>2 DEF Decisions, VerdictOf
  <2>8. Recorded(r)'
    BY <1>1, <1>2, <2>2, <2>3, <2>6, <2>7 DEF Recorded
  <2>9. \A n \in Memories : r \notin Passed(n)'
    BY <2>2, <2>3 DEF Passed, At
  <2>10. QED
    BY <1>1, <2>2, <2>5, <2>8, <2>9, LoggingStep DEF LogsTyped
<1>5. QED
  BY <1>3, <1>4 DEF LogGate

LEMMA DroppedLogs ==
  ASSUME LogsTyped, Logging, NEW r \in Requests, LogDropped(r)
  PROVE  Logging'
<1> DEFINE q == req[r]
           p == [q EXCEPT !.at = "bump", !.todo = Accepted(q)]
<1>1. q \in Asked /\ q.at = "compaction" /\ UNCHANGED <<access, gateLog, bumps>>
  BY DEF LogsTyped, LogDropped, At
<1>2. gateLog[r] = Decisions(q, q.found) /\ access[r] = "full"
  BY <1>1 DEF Logging, Recorded
<1>3. req' = [req EXCEPT ![r] = p]
  BY <1>1 DEF LogsTyped, LogDropped, Asked
<1>4. req'[r] = p /\ \A t \in Requests : t # r => req'[t] = req[t]
  BY <1>3 DEF LogsTyped
<1>5. p.at = "bump" /\ p.found = q.found /\ p.seen = q.seen /\ p.strategy = q.strategy
      /\ p.todo = Accepted(q) /\ p.budget = q.budget /\ p.dropped = q.dropped
  BY <1>1 DEF Asked
<1> HIDE DEF p
<1>6. dropLog'[r] = (IF Reserve(q.budget) > 0 THEN q.dropped ELSE {})
      /\ \A t \in Requests : t # r => dropLog'[t] = dropLog[t]
  BY DEF LogsTyped, LogDropped
<1>7. (Decisions(req[r], req[r].found))' = Decisions(q, q.found)
  BY <1>4, <1>5 DEF Decisions, VerdictOf
<1>8. Recorded(r)'
  BY <1>1, <1>2, <1>4, <1>5, <1>6, <1>7 DEF Recorded
<1>9. \A m \in Memories : r \notin Passed(m)'
  BY <1>4, <1>5 DEF Passed, At, Accepted, VerdictOf
<1>10. QED
  BY <1>1, <1>4, <1>6, <1>8, <1>9, LoggingStep DEF LogsTyped

LEMMA FailLogs ==
  ASSUME LogsTyped, Logging, NEW r \in Requests, Fail(r)
  PROVE  Logging'
<1>1. req'[r].at = "failed" /\ UNCHANGED logs /\ \A t \in Requests : t # r => req'[t] = req[t]
  BY DEF LogsTyped, Fail, Goto, Asked
<1>2. Recorded(r)'
  BY <1>1 DEF Recorded
<1>3. \A m \in Memories : r \notin Passed(m)'
  BY <1>1 DEF Passed, At
<1>4. QED
  BY <1>1, <1>2, <1>3, LoggingStep DEF LogsTyped, logs

LEMMA BumpLogs ==
  ASSUME LogsTyped, Logging, NEW r \in Requests, Bump(r)
  PROVE  Logging'
<1> DEFINE q == req[r]
<1>1. q \in Asked /\ q.at = "bump" /\ UNCHANGED <<access, gateLog, dropLog>>
  BY DEF LogsTyped, Bump, At
<1>2. gateLog[r] = Decisions(q, q.found) /\ access[r] = "full"
      /\ (Reserve(q.budget) > 0 => dropLog[r] = q.dropped)
  BY <1>1 DEF Logging, Recorded
<1>3. ASSUME NEW p \in Asked, p.at \in {"bump", "returned"}, p.found = q.found, p.seen = q.seen,
             p.strategy = q.strategy, p.budget = q.budget, p.dropped = q.dropped,
             req'[r] = p
      PROVE  Recorded(r)' /\ (Accepted(req[r]))' = Accepted(q)
  <2>1. (Decisions(req[r], req[r].found))' = Decisions(q, q.found)
    BY <1>3 DEF Decisions, VerdictOf
  <2>2. (Accepted(req[r]))' = Accepted(q)
    BY <1>3 DEF Accepted, VerdictOf
  <2>3. QED
    BY <1>1, <1>2, <1>3, <2>1, <2>2 DEF Recorded
<1>4. CASE q.todo = {} /\ Goto(r, "returned") /\ UNCHANGED bumps
  <2> DEFINE p == [q EXCEPT !.at = "returned"]
  <2>1. req' = [req EXCEPT ![r] = p] /\ p \in Asked
    BY <1>1, <1>4 DEF LogsTyped, Goto, Asked
  <2>2. req'[r] = p /\ \A t \in Requests : t # r => req'[t] = req[t]
    BY <2>1 DEF LogsTyped
  <2>3. p.at = "returned" /\ p.found = q.found /\ p.seen = q.seen /\ p.strategy = q.strategy
        /\ p.budget = q.budget /\ p.dropped = q.dropped
    BY <1>1 DEF Asked
  <2> HIDE DEF p
  <2>4. Recorded(r)' /\ (Accepted(req[r]))' = Accepted(q)
    BY <1>3, <2>1, <2>2, <2>3
  <2>5. \A m \in Memories : r \in Passed(m)' => r \in Passed(m)
    BY <1>1, <1>4, <2>4 DEF Passed, At
  <2>6. QED
    BY <1>1, <1>4, <2>2, <2>4, <2>5, LoggingStep DEF LogsTyped
<1>5. ASSUME NEW m \in First(q.todo), bumps' = [bumps EXCEPT ![m] = bumps[m] + 1],
             req' = [req EXCEPT ![r].todo = q.todo \ {m}]
      PROVE  Logging'
  <2> DEFINE p == [q EXCEPT !.todo = q.todo \ {m}]
  <2>1. req' = [req EXCEPT ![r] = p] /\ p \in Asked /\ m \in Memories /\ m \in q.todo
    BY <1>1, <1>5 DEF LogsTyped, First, Asked
  <2>2. req'[r] = p /\ \A t \in Requests : t # r => req'[t] = req[t]
    BY <2>1 DEF LogsTyped
  <2>3. p.at = "bump" /\ p.found = q.found /\ p.seen = q.seen /\ p.strategy = q.strategy
        /\ p.budget = q.budget /\ p.dropped = q.dropped /\ p.todo = q.todo \ {m}
    BY <1>1 DEF Asked
  <2> HIDE DEF p
  <2>4. Recorded(r)' /\ (Accepted(req[r]))' = Accepted(q)
    BY <1>3, <2>1, <2>2, <2>3
  <2>5. ASSUME NEW n \in Memories, n # m PROVE Passed(n)' \subseteq Passed(n)
    <3>1. r \in Passed(n)' => r \in Passed(n)
      BY <1>1, <2>2, <2>3, <2>4, <2>5 DEF Passed, At
    <3>2. ASSUME NEW t \in Passed(n)', t # r PROVE t \in Passed(n)
      <4>1. t \in Requests /\ req'[t] = req[t]
        BY <2>2, <3>2 DEF Passed
      <4>2. QED
        BY <3>2, <4>1 DEF Passed, At, Accepted, VerdictOf
    <3>3. QED
      BY <3>1, <3>2
  <2>6. Passed(m)' \subseteq Passed(m) \cup {r} /\ r \notin Passed(m)
    <3>1. ASSUME NEW t \in Passed(m)', t # r PROVE t \in Passed(m)
      <4>1. t \in Requests /\ req'[t] = req[t]
        BY <2>2, <3>1 DEF Passed
      <4>2. QED
        BY <3>1, <4>1 DEF Passed, At, Accepted, VerdictOf
    <3>2. r \notin Passed(m)
      BY <1>1, <2>1 DEF Passed, At
    <3>3. QED
      BY <3>1, <3>2
  <2>7. BumpsCount'
    <3> SUFFICES ASSUME NEW n \in Memories
                 PROVE  IsFiniteSet(Passed(n)') /\ Cardinality(Passed(n)') <= bumps'[n]
      BY DEF BumpsCount
    <3>1. IsFiniteSet(Passed(n)) /\ Cardinality(Passed(n)) <= bumps[n]
          /\ Cardinality(Passed(n)) \in Nat /\ bumps[n] \in Nat
      BY FS_CardinalityType DEF Logging, BumpsCount, LogsTyped
    <3>2. CASE n # m
      <4>1. IsFiniteSet(Passed(n)') /\ Cardinality(Passed(n)') <= Cardinality(Passed(n))
        BY <2>5, <3>1, <3>2, FS_Subset
      <4>2. Cardinality(Passed(n)') \in Nat /\ bumps'[n] = bumps[n]
        BY <1>5, <3>2, <4>1, FS_CardinalityType DEF LogsTyped
      <4>3. QED
        BY <3>1, <4>1, <4>2
    <3>3. CASE n = m
      <4>1. IsFiniteSet(Passed(m) \cup {r})
            /\ Cardinality(Passed(m) \cup {r}) = Cardinality(Passed(m)) + 1
        BY <2>6, <3>1, <3>3, FS_AddElement
      <4>2. IsFiniteSet(Passed(m)') /\ Cardinality(Passed(m)') <= Cardinality(Passed(m)) + 1
        BY <2>6, <4>1, FS_Subset
      <4>3. Cardinality(Passed(m)') \in Nat
        BY <4>2, FS_CardinalityType
      <4>4. bumps'[m] = bumps[m] + 1
        BY <1>5, <2>1 DEF LogsTyped
      <4>5. QED
        BY <3>1, <3>3, <4>2, <4>3, <4>4
    <3>4. QED
      BY <3>2, <3>3
  <2>8. ASSUME NEW t \in Requests, t # r PROVE Recorded(t)'
    BY <1>1, <2>2, <2>8, RecordedFrame DEF Logging
  <2>9. QED
    BY <2>4, <2>7, <2>8 DEF Logging
<1>6. QED
  BY <1>4, <1>5 DEF Bump

LEMMA LoggingFrame ==
  ASSUME IInv, Logging, UNCHANGED <<req, logs>>
  PROVE  Logging'
<1>1. \A m \in Memories : Passed(m)' = Passed(m)
  BY DEF Passed, At, Accepted, VerdictOf
<1>2. BumpsCount'
  BY <1>1 DEF Logging, BumpsCount, logs
<1>3. ASSUME NEW t \in Requests PROVE Recorded(t)'
  BY RecordedFrame DEF Logging, logs
<1>4. QED
  BY <1>2, <1>3 DEF Logging

LEMMA NextLogs ==
  IInv /\ Logging /\ [Next]_vars => Logging'
<1> SUFFICES ASSUME IInv, Logging, [Next]_vars PROVE Logging'
  OBVIOUS
<1>1. LogsTyped
  BY DEF IInv, TypeOK, LogsTyped
<1>2. ASSUME NEW r \in Requests,
             \/ \E s \in StrategiesOf[r], b \in Budgets : Begin(r, s, b)
             \/ Select(r) \/ Hop(r) \/ Gate(r) \/ Packed(r)
      PROVE  Logging'
  BY <1>1, <1>2, StepsToEarly, EarlyKeeps DEF LogsTyped
<1>3. ASSUME NEW r \in Requests,
             Timeout(r) \/ LogAccess(r) \/ LogGate(r) \/ LogDropped(r) \/ Bump(r) \/ Fail(r)
      PROVE  Logging'
  BY <1>1, <1>3, TimeoutLogs, AccessLogs, GateLogs, DroppedLogs, BumpLogs, FailLogs
<1>4. CASE Packing
  BY <1>4, LoggingFrame DEF Packing
<1>5. ASSUME NEW m \in Memories, Others(m) PROVE Logging'
  <2>1. UNCHANGED <<req, logs>>
    BY <1>5 DEF Others, SetStatus, Supersede, SetBranch, Expire, Changed
  <2>2. QED
    BY <2>1, LoggingFrame
<1>6. CASE UNCHANGED vars
  BY <1>6, LoggingFrame DEF vars
<1>7. QED
  BY <1>2, <1>3, <1>4, <1>5, <1>6 DEF Next, Request

LEMMA LoggingHolds == Spec => []Logging
<1>1. ASSUME Init PROVE Logging
  <2>1. req = [r \in Requests |->
              [at |-> "idle", strategy |-> "baseline_0", budget |-> 0, hop |-> 0,
               found |-> {}, fresh |-> {}, seen |-> [m \in Memories |-> Unseen], todo |-> {},
               blocks |-> {}, dropped |-> {}]]
        /\ gateLog = [r \in Requests |-> [m \in Memories |-> NoDecision]]
        /\ dropLog = [r \in Requests |-> {}] /\ bumps = [m \in Memories |-> 0]
    BY <1>1 DEF Init
  <2>2. \A m \in Memories : Passed(m) = {}
    BY <2>1 DEF Passed, At
  <2>3. BumpsCount
    <3>1. IsFiniteSet({}) /\ Cardinality({}) = 0
      BY FS_EmptySet
    <3>2. ASSUME NEW m \in Memories
          PROVE  IsFiniteSet(Passed(m)) /\ Cardinality(Passed(m)) <= bumps[m]
      <4>1. Passed(m) = {} /\ bumps[m] = 0
        BY <2>1, <2>2
      <4>2. QED
        BY <3>1, <4>1
    <3>3. QED
      BY <3>2 DEF BumpsCount
  <2>4. \A r \in Requests : Recorded(r)
    BY <2>1 DEF Recorded, Unlogged
  <2>5. QED
    BY <2>3, <2>4 DEF Logging
<1>2. QED
  BY <1>1, NextLogs, Invariance, PTL DEF Spec

\* A decision is never the mark that there is none.
LEMMA VerdictDecides ==
  ASSUME NEW q, NEW m PROVE VerdictOf(q, m) # NoDecision
<1>1. ASSUME NEW k, NEW cfg, NEW here PROVE Verdict(k, cfg, here).decision # "none"
  <2>1. Accept.decision # "none" /\ Warn.decision # "none"
        /\ \A why : Reject(why).decision # "none" /\ Degrade(why).decision # "none"
    BY DEF Accept, Warn, Reject, Degrade
  <2>2. FailedVerdict(k, cfg).decision # "none"
    BY <2>1 DEF FailedVerdict
  <2>3. FloorVerdict(k).decision # "none"
    BY <2>1 DEF FloorVerdict
  <2>4. RiskVerdict(k, cfg).decision # "none"
    BY <2>1 DEF RiskVerdict
  <2>5. QED
    BY <2>1, <2>2, <2>3, <2>4 DEF Verdict
<1>2. VerdictOf(q, m).decision # "none"
  BY <1>1 DEF VerdictOf, Judged
<1>3. QED
  BY <1>2 DEF NoDecision

LEMMA DecisionsAreLogged ==
  ASSUME NEW r \in Requests, gateLog[r] = Decisions(req[r], req[r].found),
         req[r].found \subseteq Memories
  PROVE  Logged(r) = req[r].found
         /\ \A m \in req[r].found : gateLog[r][m] = VerdictOf(req[r], m)
  BY VerdictDecides DEF Logged, Decisions

(* No context is returned that its logs do not account for: its access, a  *)
(* decision for every candidate and none for another, what was dropped,    *)
(* and an access counted for every memory accepted, however many requests  *)
(* interleave and whenever one of them fails or times out.                 *)
THEOREM ServedContextIsLogged == Spec => []ServedIsLogged
<1>1. ASSUME IInv, Logging PROVE ServedIsLogged
  <2>1. ASSUME NEW r \in Requests, At(r, "returned")
        PROVE  /\ access[r] = "full" /\ Logged(r) = req[r].found
               /\ req[r].blocks \cap Memories \subseteq
                    {m \in Memories : Admitted(gateLog[r][m])}
               /\ Reserve(req[r].budget) > 0 => dropLog[r] = req[r].dropped
    <3>1. access[r] = "full" /\ gateLog[r] = Decisions(req[r], req[r].found)
          /\ (Reserve(req[r].budget) > 0 => dropLog[r] = req[r].dropped)
      BY <1>1, <2>1 DEF Logging, Recorded, At
    <3>2. req[r].found \subseteq Memories
      BY <1>1 DEF IInv, TypeOK, Asked
    <3>3. Logged(r) = req[r].found
          /\ \A m \in req[r].found : gateLog[r][m] = VerdictOf(req[r], m)
      BY <3>1, <3>2, DecisionsAreLogged
    <3>4. req[r].blocks \cap Memories \subseteq Accepted(req[r])
      BY <1>1 DEF IInv, Sound
    <3>5. QED
      BY <3>1, <3>3, <3>4 DEF Accepted
  <2>2. ASSUME NEW r \in Requests, At(r, "timed_out")
        PROVE  access[r] = "timeout" /\ Logged(r) = {} /\ dropLog[r] = {}
    BY <1>1, <2>2 DEF Logging, Recorded, At, Logged, Unlogged
  <2>3. ASSUME NEW m \in Memories
        PROVE  bumps[m] >= Cardinality({r \in Requests : At(r, "returned")
                                                        /\ m \in Accepted(req[r])})
    <3> DEFINE R == {r \in Requests : At(r, "returned") /\ m \in Accepted(req[r])}
    <3>1. R \subseteq Passed(m)
      BY DEF Passed
    <3>2. IsFiniteSet(Passed(m)) /\ Cardinality(Passed(m)) <= bumps[m] /\ bumps[m] \in Nat
      BY <1>1 DEF Logging, BumpsCount, IInv, TypeOK
    <3> HIDE DEF R
    <3>3. IsFiniteSet(R) /\ Cardinality(R) <= Cardinality(Passed(m))
      BY <3>1, <3>2, FS_Subset
    <3>4. Cardinality(R) \in Nat /\ Cardinality(Passed(m)) \in Nat
      BY <3>2, <3>3, FS_CardinalityType
    <3>5. bumps[m] >= Cardinality(R)
      BY <3>2, <3>3, <3>4
    <3>6. QED
      BY <3>5 DEF R
  <2>4. QED
    BY <2>1, <2>2, <2>3 DEF ServedIsLogged
<1>2. QED
  BY <1>1, Invariance, LoggingHolds, PTL

-----------------------------------------------------------------------------
(* Replay.  What a hop adds is determined by what is known, so following   *)
(* the hops again leads to the same memories as long as no row changes:    *)
(* merging edges into the graph store adds none that a selection would not *)
(* see anyway.                                                             *)

\* Times, like memories, are well ordered.
LEMMA Earliest ==
  ASSUME NEW T, T \subseteq Nat, T # {}
  PROVE  \E x \in T : \A y \in T : x <= y
<1>1. IsWellFoundedOn(Below, Nat)
  BY Zenon, NatLessThanWellFounded DEF Below
<1>2. PICK x \in T : \A y \in T : ~(<<y, x>> \in Below)
  BY Zenon, <1>1, WFMin
<1>3. \A y \in T : ~(y < x)
  BY Zenon, <1>2 DEF Below, OpToRel
<1>4. QED
  BY <1>2, <1>3

\* Which of the new memories fit is determined, one after the other.
LEMMA FittingIsOne ==
  ASSUME NEW new \in SUBSET Nat, NEW room, NEW S \in Fitting(new, room),
         NEW T \in Fitting(new, room)
  PROVE  S = T
<1> DEFINE D == {n \in new : ~(n \in S <=> n \in T)}
<1> SUFFICES ASSUME D # {} PROVE FALSE
  BY DEF Fitting
<1>1. PICK n \in D : \A k \in D : n <= k
  BY Earliest
<1>2. S \subseteq new /\ T \subseteq new
  BY DEF Fitting
<1>3. {k \in S : k < n} = {k \in T : k < n}
  <2>1. ASSUME NEW k \in new, k < n PROVE k \in S <=> k \in T
    <3>1. k \notin D
      BY <1>1, <2>1
    <3>2. QED
      BY <3>1
  <2>2. QED
    BY <1>2, <2>1
<1>4. n \in S <=> TokensOf({k \in S : k < n} \cup {n}) <= room
  BY <1>1 DEF Fitting
<1>5. n \in T <=> TokensOf({k \in T : k < n} \cup {n}) <= room
  BY <1>1 DEF Fitting
<1>6. QED
  BY <1>1, <1>3, <1>4, <1>5

LEMMA WidenedIsOne ==
  ASSUME NEW known, NEW fresh, NEW tokens, NEW rows, NEW edges,
         NEW S \in Widened(known, fresh, tokens, rows, edges)
  PROVE  UNION Widened(known, fresh, tokens, rows, edges) = S
<1> DEFINE cued == UNION {Leads[m] : m \in fresh}
           new == Chosen(rows, edges, cued) \ known
           W == Widened(known, fresh, tokens, rows, edges)
<1>1. new \in SUBSET Nat
  <2>1. Chosen(rows, edges, cued) \subseteq Retrievable(rows)
    BY ChosenIsRetrievable
  <2>2. Retrievable(rows) \subseteq Nat
    BY RetrievalConstants DEF Retrievable
  <2>3. QED
    BY <2>1, <2>2
<1>2. W = {{}} \/ W = Fitting(new, tokens - TokensOf(known))
  BY DEF Widened
<1> HIDE DEF new, W
<1>3. \A T \in W : T = S
  <2>1. S \in W
    BY DEF W
  <2>2. ASSUME NEW T \in W, W = Fitting(new, tokens - TokensOf(known)) PROVE T = S
    BY <1>1, <2>1, <2>2, FittingIsOne
  <2>3. ASSUME NEW T \in W, W = {{}} PROVE T = S
    BY <2>1, <2>3
  <2>4. QED
    BY <1>2, <2>2, <2>3
<1>4. S \in W
  BY DEF W
<1>5. W = {S}
  BY <1>3, <1>4
<1>6. QED
  BY <1>5 DEF W

\* Nothing new leads nowhere.
LEMMA NothingLeadsOn ==
  ASSUME NEW known, NEW tokens, NEW rows, NEW edges
  PROVE  UNION Widened(known, {}, tokens, rows, edges) = {}
<1>1. UNION {Leads[m] : m \in {}} = {}
  OBVIOUS
<1>2. Widened(known, {}, tokens, rows, edges) = {{}}
  BY <1>1 DEF Widened
<1>3. QED
  BY <1>2

\* What a replay knows after h hops.
HopBody(first, tokens, rows, edges, g, h) ==
  IF h = 0 THEN [found |-> first, fresh |-> first]
  ELSE LET h0 == g[h - 1]
           S == UNION Widened(h0.found, h0.fresh, tokens, rows, edges)
       IN  [found |-> h0.found \cup S, fresh |-> S]

Follows(first, tokens, rows, edges, g) ==
  g = [h \in 0..MaxHops |-> HopBody(first, tokens, rows, edges, g, h)]

Hops(first, tokens, rows, edges) == CHOOSE g : Follows(first, tokens, rows, edges, g)

LEMMA HopsExist ==
  ASSUME NEW first, NEW tokens, NEW rows, NEW edges
  PROVE  \E g : Follows(first, tokens, rows, edges, g)
<1> DEFINE B(g, h) == HopBody(first, tokens, rows, edges, g, h)
           Upto(n, g) == /\ g = [h \in 0..MaxHops |-> g[h]]
                         /\ \A h \in 0..MaxHops : h <= n => g[h] = B(g, h)
           A == {n \in Nat : \E g : Upto(n, g)}
<1>0. MaxHops \in Nat
  BY RetrievalConstants
<1>1. 0 \in A
  <2> DEFINE g == [h \in 0..MaxHops |-> [found |-> first, fresh |-> first]]
  <2>1. Upto(0, g)
    BY <1>0 DEF HopBody
  <2> HIDE DEF g, Upto
  <2>2. QED
    BY <2>1
<1>2. ASSUME NEW n \in Nat, n \in A PROVE n + 1 \in A
  <2>1. PICK g : Upto(n, g)
    BY <1>2
  <2> DEFINE f == [h \in 0..MaxHops |-> B(g, h)]
  <2>2. ASSUME NEW h \in 0..MaxHops, h <= n + 1 PROVE f[h] = B(f, h)
    <3>1. CASE h = 0
      BY <3>1 DEF HopBody
    <3>2. CASE h # 0
      <4>1. h - 1 \in 0..MaxHops /\ h - 1 <= n
        BY <1>0, <2>2, <3>2
      <4>2. f[h - 1] = g[h - 1]
        BY <2>1, <4>1
      <4>3. QED
        BY <4>2 DEF HopBody
    <3>3. QED
      BY <3>1, <3>2
  <2>3. Upto(n + 1, f)
    BY <2>2
  <2> HIDE DEF f, Upto
  <2>4. QED
    BY <2>3
<1> HIDE DEF A
<1>3. MaxHops \in A
  BY <1>0, <1>1, <1>2, Induction
<1>4. PICK g : Upto(MaxHops, g)
  BY <1>3 DEF A
<1>5. \A h \in 0..MaxHops : g[h] = B(g, h)
  BY <1>0, <1>4
<1>6. g = [h \in 0..MaxHops |-> B(g, h)]
  BY <1>4, <1>5
<1>7. QED
  BY <1>6 DEF Follows

LEMMA HopsFollow ==
  ASSUME NEW first, NEW tokens, NEW rows, NEW edges, NEW h \in 0..MaxHops
  PROVE  Hops(first, tokens, rows, edges)[h]
           = HopBody(first, tokens, rows, edges, Hops(first, tokens, rows, edges), h)
<1> DEFINE H == Hops(first, tokens, rows, edges)
<1>1. Follows(first, tokens, rows, edges, H)
  BY HopsExist DEF Hops
<1>2. H = [k \in 0..MaxHops |-> HopBody(first, tokens, rows, edges, H, k)]
  BY <1>1 DEF Follows
<1> HIDE DEF H
<1>3. H[h] = HopBody(first, tokens, rows, edges, H, h)
  BY <1>2
<1>4. QED
  BY <1>3 DEF H

LEMMA HopsStart ==
  ASSUME NEW first, NEW tokens, NEW rows, NEW edges
  PROVE  Hops(first, tokens, rows, edges)[0] = [found |-> first, fresh |-> first]
<1>1. 0 \in 0..MaxHops
  BY RetrievalConstants
<1>2. Hops(first, tokens, rows, edges)[0]
        = HopBody(first, tokens, rows, edges, Hops(first, tokens, rows, edges), 0)
  BY <1>1, HopsFollow
<1>3. QED
  BY <1>2 DEF HopBody

LEMMA HopsStep ==
  ASSUME NEW first, NEW tokens, NEW rows, NEW edges, NEW h \in 0..MaxHops, h < MaxHops,
         NEW F, NEW N, Hops(first, tokens, rows, edges)[h] = [found |-> F, fresh |-> N],
         NEW S, UNION Widened(F, N, tokens, rows, edges) = S
  PROVE  Hops(first, tokens, rows, edges)[h + 1] = [found |-> F \cup S, fresh |-> S]
<1> DEFINE H == Hops(first, tokens, rows, edges)
<1>1. h + 1 \in 0..MaxHops /\ h + 1 # 0 /\ (h + 1) - 1 = h
  BY RetrievalConstants
<1>2. H[h + 1] = HopBody(first, tokens, rows, edges, H, h + 1)
  BY <1>1, HopsFollow
<1> HIDE DEF H
<1>3. H[h].found = F /\ H[h].fresh = N
  BY DEF H
<1>4. H[h + 1] = [found |-> F \cup S, fresh |-> S]
  BY <1>1, <1>2, <1>3 DEF HopBody
<1>5. QED
  BY <1>4 DEF H

\* A hop that finds nothing new is the last that matters.
LEMMA HopsSettle ==
  ASSUME NEW first, NEW tokens, NEW rows, NEW edges, NEW h \in 0..MaxHops, NEW F,
         Hops(first, tokens, rows, edges)[h] = [found |-> F, fresh |-> {}]
  PROVE  Hops(first, tokens, rows, edges)[MaxHops].found = F
<1> DEFINE H == Hops(first, tokens, rows, edges)
           A == {n \in Nat : h + n <= MaxHops => H[h + n] = [found |-> F, fresh |-> {}]}
<1>0. MaxHops \in Nat /\ h \in Nat
  BY RetrievalConstants
<1>1. 0 \in A
  <2>1. h + 0 = h
    BY <1>0
  <2>2. QED
    BY <2>1
<1>2. ASSUME NEW n \in Nat, n \in A PROVE n + 1 \in A
  <2> SUFFICES ASSUME h + (n + 1) <= MaxHops
               PROVE  H[h + (n + 1)] = [found |-> F, fresh |-> {}]
    OBVIOUS
  <2>1. h + n \in 0..MaxHops /\ h + n < MaxHops /\ (h + n) + 1 = h + (n + 1)
        /\ h + n <= MaxHops
    BY <1>0
  <2>2. H[h + n] = [found |-> F, fresh |-> {}]
    BY <1>2, <2>1
  <2>3. UNION Widened(F, {}, tokens, rows, edges) = {}
    BY NothingLeadsOn
  <2>4. ASSUME NEW k \in 0..MaxHops, k < MaxHops, H[k] = [found |-> F, fresh |-> {}]
        PROVE  H[k + 1] = [found |-> F \cup {}, fresh |-> {}]
    <3> DEFINE N == {}
    <3>1. Hops(first, tokens, rows, edges)[k] = [found |-> F, fresh |-> N]
      BY <2>4
    <3>2. UNION Widened(F, N, tokens, rows, edges) = N
      BY <2>3
    <3> HIDE DEF N
    <3>3. Hops(first, tokens, rows, edges)[k + 1] = [found |-> F \cup N, fresh |-> N]
      BY <2>4, <3>1, <3>2, HopsStep
    <3>4. QED
      BY <3>3 DEF N
  <2>5. H[(h + n) + 1] = [found |-> F \cup {}, fresh |-> {}]
    BY <2>1, <2>2, <2>4
  <2>6. QED
    BY <2>1, <2>5
<1> HIDE DEF A
<1>3. MaxHops - h \in A
  BY <1>0, <1>1, <1>2, Induction
<1>4. h + (MaxHops - h) = MaxHops /\ MaxHops <= MaxHops
  BY <1>0
<1>5. H[MaxHops] = [found |-> F, fresh |-> {}]
  BY <1>3, <1>4 DEF A
<1>6. QED
  BY <1>5

FirstFound(strategy, rows, edges) ==
  IF strategy = "baseline_0" THEN {}
  ELSE IF strategy = "long_context" THEN Retrievable(rows)
  ELSE Chosen(rows, edges, Hits)

Seen == graph \cup Edges(row)

Path(r) == Hops(FirstFound(req[r].strategy, row, Seen), req[r].budget, row, Seen)

LEMMA AgainFollows ==
  ASSUME NEW r \in Requests
  PROVE  Again(r) = IF MultiHop(req[r].strategy) THEN Path(r)[MaxHops].found
                    ELSE FirstFound(req[r].strategy, row, Seen)
  BY Zenon DEF Again, Path, Hops, Follows, HopBody, FirstFound, Seen

\* What a replay of r finds.
Refound(r) ==
  IF MultiHop(req[r].strategy) THEN Path(r)[MaxHops].found
  ELSE FirstFound(req[r].strategy, row, Seen)

Replayable(r) ==
  LET q == req[r]
  IN  /\ q.at \notin {"idle", "select"} /\ q.strategy # "baseline_0"
      /\ \A m \in q.found : q.seen[m] = row[m]
      /\ q.at = "hop" =>
           MultiHop(q.strategy) /\ Path(r)[q.hop] = [found |-> q.found, fresh |-> q.fresh]
      /\ q.at \notin {"hop", "timed_out", "failed"} => q.found = Refound(r)
      /\ q.at = "pack" /\ q.strategy # "long_context" => budget = q.budget

Steady ==
  /\ \A r \in calm : Replayable(r)
  /\ \A r \in Requests : At(r, "select") => req[r].strategy # "baseline_0"

LEMMA SeenSteady ==
  ASSUME row' = row, graph' = graph \/ graph' = graph \cup Edges(row)
  PROVE  Seen' = Seen
<1>1. Edges(row)' = Edges(row)
  BY DEF Edges
<1>2. QED
  BY <1>1 DEF Seen

LEMMA ReplayFrame ==
  ASSUME NEW r \in Requests, Replayable(r), req'[r] = req[r], row' = row, Seen' = Seen,
         req[r].at = "pack" => budget' = budget
  PROVE  Replayable(r)'
<1>1. Path(r)' = Path(r) /\ Refound(r)' = Refound(r)
  BY DEF Path, Refound
<1>2. QED
  BY <1>1 DEF Replayable

\* A request whose selection is over moves on and keeps what it found.
LEMMA ReplayMove ==
  ASSUME NEW r \in Requests, Replayable(r), row' = row, Seen' = Seen,
         req'[r].found = req[r].found, req'[r].seen = req[r].seen,
         req'[r].strategy = req[r].strategy,
         req'[r].budget = req[r].budget \/ ~ MultiHop(req[r].strategy),
         req'[r].at \notin {"idle", "select", "hop"},
         req'[r].at = "pack" /\ req[r].strategy # "long_context" => budget' = req'[r].budget,
         req'[r].at \notin {"timed_out", "failed"} => req[r].at \notin {"hop", "timed_out", "failed"}
  PROVE  Replayable(r)'
<1>1. Refound(r)' = Refound(r)
  BY DEF Path, Refound
<1>2. QED
  BY <1>1 DEF Replayable

\* A step of r that leaves the rows alone.
LEMMA SteadyStep ==
  ASSUME IInv, Steady, NEW r \in Requests, row' = row, Seen' = Seen,
         calm' \subseteq calm \cup {r}, r \in calm' => Replayable(r)',
         \A t \in Requests : t # r => req'[t] = req[t],
         \A t \in Requests : t # r /\ req[t].at = "pack" => budget' = budget,
         req'[r].at = "select" => req'[r].strategy # "baseline_0"
  PROVE  Steady'
<1>1. ASSUME NEW t \in calm', t # r PROVE Replayable(t)'
  <2>1. t \in calm /\ t \in Requests
    BY <1>1 DEF IInv, TypeOK
  <2>2. QED
    BY <1>1, <2>1, ReplayFrame DEF Steady
<1>2. ASSUME NEW t \in Requests, req'[t].at = "select" PROVE req'[t].strategy # "baseline_0"
  BY <1>2 DEF Steady, At
<1>3. QED
  BY <1>1, <1>2 DEF Steady, At

LEMMA BeginSteady ==
  ASSUME IInv, Steady, NEW r \in Requests, NEW s \in StrategiesOf[r], NEW b \in Budgets,
         Begin(r, s, b)
  PROVE  Steady'
<1> DEFINE q == [req[r] EXCEPT !.strategy = s, !.budget = b,
                               !.at = IF s = "baseline_0" THEN "access" ELSE "select"]
<1>1. req \in [Requests -> Asked] /\ req[r] \in Asked /\ At(r, "idle")
      /\ UNCHANGED <<row, graph, calm, budget>>
  BY DEF IInv, TypeOK, Begin, packer
<1>2. req' = [req EXCEPT ![r] = q]
  BY <1>1 DEF Begin, Asked
<1>3. req'[r] = q /\ \A t \in Requests : t # r => req'[t] = req[t]
  BY <1>1, <1>2
<1>4. q.at = "select" => q.strategy # "baseline_0"
  BY <1>1 DEF Asked
<1>5. r \notin calm
  BY <1>1 DEF Steady, Replayable, At
<1> HIDE DEF q
<1>6. QED
  BY <1>1, <1>3, <1>4, <1>5, SeenSteady, SteadyStep

LEMMA SelectSteady ==
  ASSUME IInv, Steady, NEW r \in Requests, Select(r)
  PROVE  Steady'
<1> DEFINE S == IF req[r].strategy = "long_context" THEN Retrievable(row)
                ELSE Chosen(row, graph \cup Edges(row), Hits)
           q == [req[r] EXCEPT !.found = S, !.fresh = S, !.seen = Read(req[r].seen, row, S),
                               !.at = IF MultiHop(req[r].strategy) THEN "hop" ELSE "gate"]
<1>1. req \in [Requests -> Asked] /\ req[r] \in Asked /\ At(r, "select")
      /\ UNCHANGED <<row, budget>> /\ calm' = calm \cup {r}
      /\ (graph' = graph \/ graph' = graph \cup Edges(row))
  BY DEF IInv, TypeOK, Select, packer
<1>2. req' = [req EXCEPT ![r] = q]
  BY <1>1 DEF Select, Asked
<1>3. S = FirstFound(req[r].strategy, row, Seen) /\ req[r].strategy # "baseline_0"
  BY <1>1 DEF FirstFound, Seen, Steady
<1>4. S \subseteq Memories
  BY ChosenIsRetrievable DEF Retrievable
<1>5. Seen' = Seen
  BY <1>1, SeenSteady
<1> HIDE DEF S
<1>6. req'[r] = q /\ \A t \in Requests : t # r => req'[t] = req[t]
  BY <1>1, <1>2
<1>7. /\ q.found = S /\ q.fresh = S /\ q.seen = Read(req[r].seen, row, S) /\ q.hop = 0
      /\ q.strategy = req[r].strategy /\ q.budget = req[r].budget
      /\ q.at = IF MultiHop(req[r].strategy) THEN "hop" ELSE "gate"
  BY <1>1 DEF Asked, IInv, Sound, At
<1> HIDE DEF q
<1>8. \A m \in S : q.seen[m] = row[m]
  BY <1>4, <1>7 DEF Read
<1>9. MultiHop(q.strategy) => Path(r)'[0] = [found |-> S, fresh |-> S]
  <2>1. Path(r)' = Hops(S, q.budget, row, Seen)
    BY <1>1, <1>3, <1>5, <1>6, <1>7 DEF Path
  <2>2. QED
    BY <2>1, HopsStart
<1>10. ~ MultiHop(q.strategy) => Refound(r)' = S
  BY <1>1, <1>3, <1>5, <1>6, <1>7 DEF Refound
<1>11. Replayable(r)'
  <2>1. q.at \notin {"idle", "select", "pack"} /\ q.strategy # "baseline_0"
        /\ (q.at = "hop" <=> MultiHop(q.strategy))
    BY <1>3, <1>7
  <2>2. QED
    BY <1>1, <1>6, <1>7, <1>8, <1>9, <1>10, <2>1 DEF Replayable
<1>12. q.at # "select"
  BY <1>7
<1>13. QED
  BY <1>1, <1>5, <1>6, <1>11, <1>12, SteadyStep

LEMMA HopSteady ==
  ASSUME IInv, Steady, NEW r \in Requests, Hop(r)
  PROVE  Steady'
<1>1. req \in [Requests -> Asked] /\ req[r] \in Asked /\ At(r, "hop")
      /\ UNCHANGED <<row, calm, budget>> /\ graph' = graph \cup Edges(row)
  BY DEF IInv, TypeOK, Hop, packer, history
<1>2. PICK S \in Widened(req[r].found, req[r].fresh, req[r].budget, row, Seen) :
        req' = [req EXCEPT
             ![r].found = req[r].found \cup S, ![r].fresh = S,
             ![r].seen = Read(req[r].seen, row, S), ![r].hop = req[r].hop + 1,
             ![r].at = IF S = {} \/ req[r].hop + 1 = MaxHops THEN "gate" ELSE "hop"]
  BY DEF Hop, Seen
<1> DEFINE q == [req[r] EXCEPT !.found = req[r].found \cup S, !.fresh = S,
                   !.seen = Read(req[r].seen, row, S), !.hop = req[r].hop + 1,
                   !.at = IF S = {} \/ req[r].hop + 1 = MaxHops THEN "gate" ELSE "hop"]
<1>3. req' = [req EXCEPT ![r] = q]
  BY <1>1, <1>2
<1>4. req'[r] = q /\ \A t \in Requests : t # r => req'[t] = req[t]
  BY <1>1, <1>3
<1>5. /\ q.found = req[r].found \cup S /\ q.fresh = S /\ q.seen = Read(req[r].seen, row, S)
      /\ q.hop = req[r].hop + 1 /\ q.strategy = req[r].strategy /\ q.budget = req[r].budget
      /\ q.at = IF S = {} \/ req[r].hop + 1 = MaxHops THEN "gate" ELSE "hop"
  BY <1>1 DEF Asked
<1> HIDE DEF q
<1>6. Seen' = Seen
  BY <1>1, SeenSteady
<1>7. Path(r)' = Path(r)
  BY <1>1, <1>4, <1>5, <1>6 DEF Path
<1>8. ASSUME r \in calm PROVE Replayable(r)'
  <2>1. MultiHop(req[r].strategy) /\ req[r].strategy # "baseline_0"
        /\ Path(r)[req[r].hop] = [found |-> req[r].found, fresh |-> req[r].fresh]
        /\ \A m \in req[r].found : req[r].seen[m] = row[m]
    BY <1>1, <1>8 DEF Steady, Replayable, At
  <2>2. UNION Widened(req[r].found, req[r].fresh, req[r].budget, row, Seen) = S
    BY WidenedIsOne
  <2>3. req[r].hop \in 0..MaxHops /\ req[r].hop < MaxHops /\ q.hop \in 0..MaxHops
    BY <1>1, <1>5, RetrievalConstants DEF IInv, Sound, At, Asked
  <2>4. Path(r)[q.hop] = [found |-> q.found, fresh |-> S]
    BY <1>5, <2>1, <2>2, <2>3, HopsStep, SMTT(30) DEF Path
  <2>5. q.at = "gate" => Path(r)[MaxHops].found = q.found
    <3>1. CASE S = {}
      BY <2>3, <2>4, <3>1, HopsSettle DEF Path
    <3>2. CASE q.hop = MaxHops
      BY <2>4, <3>2
    <3>3. QED
      BY <1>5, <3>1, <3>2
  <2>6. \A m \in q.found : q.seen[m] = row[m]
    <3>1. q.found \subseteq Memories
      BY <1>1, <1>5, WidenedIsRetrievable DEF Asked, Retrievable
    <3>2. QED
      BY <1>5, <2>1, <3>1 DEF Read
  <2>7. Refound(r)' = Path(r)[MaxHops].found
    BY <1>4, <1>5, <1>7, <2>1 DEF Refound
  <2>8. q.at \in {"gate", "hop"}
    BY <1>5
  <2>9. QED
    BY <1>1, <1>4, <1>5, <1>7, <2>1, <2>4, <2>5, <2>6, <2>7, <2>8 DEF Replayable
<1>9. q.at # "select"
  BY <1>5
<1>10. QED
  BY <1>1, <1>4, <1>6, <1>8, <1>9, SteadyStep

LEMMA GateSteady ==
  ASSUME IInv, Steady, phase = "idle", NEW r \in Requests, Gate(r)
  PROVE  Steady'
<1> DEFINE q == [req[r] EXCEPT !.at = "pack"]
<1>1. req \in [Requests -> Asked] /\ req[r] \in Asked /\ At(r, "gate")
      /\ UNCHANGED <<row, graph, calm>>
  BY DEF IInv, TypeOK, Gate, history
<1>2. req' = [req EXCEPT ![r] = q]
  BY <1>1 DEF Gate, Goto, Asked
<1>3. req'[r] = q /\ \A t \in Requests : t # r => req'[t] = req[t]
  BY <1>1, <1>2
<1>4. q.found = req[r].found /\ q.seen = req[r].seen /\ q.strategy = req[r].strategy
      /\ q.budget = req[r].budget /\ q.at = "pack"
  BY <1>1 DEF Asked
<1> HIDE DEF q
<1>5. req[r].strategy # "long_context" => budget' = req[r].budget
  BY DEF Gate, StartPacking
<1>6. Seen' = Seen
  BY <1>1, SeenSteady
<1>7. r \in calm => Replayable(r)'
  BY <1>1, <1>3, <1>4, <1>5, <1>6, ReplayMove DEF Steady, At
<1>8. \A t \in Requests : req[t].at # "pack"
  BY DEF IInv, Sound
<1>9. QED
  BY <1>1, <1>3, <1>4, <1>6, <1>7, <1>8, SteadyStep

LEMMA PackedSteady ==
  ASSUME IInv, Steady, NEW r \in Requests, Packed(r)
  PROVE  Steady'
<1> DEFINE q == [req[r] EXCEPT !.at = "access", !.budget = budget, !.blocks = kept,
                               !.dropped = Dropped]
<1>1. req \in [Requests -> Asked] /\ req[r] \in Asked /\ At(r, "pack")
      /\ UNCHANGED <<row, graph, calm>>
  BY DEF IInv, TypeOK, Packed, history
<1>2. req' = [req EXCEPT ![r] = q]
  BY <1>1 DEF Packed, Asked
<1>3. req'[r] = q /\ \A t \in Requests : t # r => req'[t] = req[t]
  BY <1>1, <1>2
<1>4. q.found = req[r].found /\ q.seen = req[r].seen /\ q.strategy = req[r].strategy
      /\ q.budget = budget /\ q.at = "access"
  BY <1>1 DEF Asked
<1> HIDE DEF q
<1>5. Seen' = Seen
  BY <1>1, SeenSteady
<1>6. ASSUME r \in calm PROVE Replayable(r)'
  <2>1. Replayable(r)
    BY <1>6 DEF Steady
  <2>2. q.budget = req[r].budget \/ ~ MultiHop(req[r].strategy)
    BY <1>1, <1>4, <2>1 DEF Replayable, At, MultiHop, Learning
  <2>3. QED
    BY <1>1, <1>3, <1>4, <1>5, <2>1, <2>2, ReplayMove DEF At
<1>7. \A t \in Requests : t # r => req[t].at # "pack"
  BY <1>1 DEF IInv, Alone, At
<1>8. QED
  BY <1>1, <1>3, <1>4, <1>5, <1>6, <1>7, SteadyStep

\* The steps after packing, and those that give up.
LEMMA LaterSteady ==
  ASSUME IInv, Steady, NEW r \in Requests,
         Timeout(r) \/ LogAccess(r) \/ LogGate(r) \/ LogDropped(r) \/ Bump(r) \/ Fail(r)
  PROVE  Steady'
<1>1. req \in [Requests -> Asked] /\ req[r] \in Asked
  BY DEF IInv, TypeOK
<1>2. UNCHANGED <<row, graph, calm, budget>>
  BY DEF Timeout, LogAccess, LogGate, LogDropped, Bump, Fail, history, packer
<1>3. ASSUME NEW where \in {"timed_out", "gates", "compaction", "bump", "returned", "failed"},
             NEW T, req' = [req EXCEPT ![r].at = where, ![r].todo = T],
             where \notin {"timed_out", "failed"} =>
               req[r].at \in {"access", "gates", "compaction", "bump"}
      PROVE  Steady'
  <2> DEFINE q == [req[r] EXCEPT !.at = where, !.todo = T]
  <2>1. req' = [req EXCEPT ![r] = q]
    BY <1>1, <1>3 DEF Asked
  <2>2. req'[r] = q /\ \A t \in Requests : t # r => req'[t] = req[t]
    BY <1>1, <2>1
  <2>3. q.found = req[r].found /\ q.seen = req[r].seen /\ q.strategy = req[r].strategy
        /\ q.budget = req[r].budget /\ q.at = where
    BY <1>1 DEF Asked
  <2> HIDE DEF q
  <2>4. Seen' = Seen
    BY <1>2, SeenSteady
  <2>5. q.at \notin {"idle", "select", "hop", "pack"}
    BY <2>3
  <2>6. r \in calm => Replayable(r)'
    BY <1>2, <1>3, <2>2, <2>3, <2>4, <2>5, ReplayMove DEF Steady
  <2>7. QED
    BY <1>2, <2>2, <2>4, <2>5, <2>6, SteadyStep
<1>4. ASSUME NEW where, Goto(r, where)
      PROVE  req' = [req EXCEPT ![r].at = where, ![r].todo = req[r].todo]
  BY <1>1, <1>4 DEF Goto, Asked
<1>5. CASE Timeout(r)
  BY <1>3, <1>4, <1>5 DEF Timeout
<1>6. CASE LogAccess(r)
  BY <1>3, <1>6 DEF LogAccess, At
<1>7. CASE LogGate(r)
  <2>1. At(r, "gates")
    BY <1>7 DEF LogGate
  <2>2. CASE Goto(r, "compaction")
    BY <1>3, <1>4, <2>1, <2>2 DEF At
  <2>3. ASSUME NEW m \in First(req[r].todo), req' = [req EXCEPT ![r].todo = req[r].todo \ {m}]
        PROVE  Steady'
    <3>1. req' = [req EXCEPT ![r].at = "gates", ![r].todo = req[r].todo \ {m}]
      BY <1>1, <2>1, <2>3 DEF At, Asked
    <3>2. QED
      BY <1>3, <2>1, <3>1 DEF At
  <2>4. QED
    BY <1>7, <2>2, <2>3 DEF LogGate
<1>8. CASE LogDropped(r)
  BY <1>3, <1>8 DEF LogDropped, At
<1>9. CASE Bump(r)
  <2>1. At(r, "bump")
    BY <1>9 DEF Bump
  <2>2. CASE Goto(r, "returned")
    BY <1>3, <1>4, <2>1, <2>2 DEF At
  <2>3. ASSUME NEW m \in First(req[r].todo), req' = [req EXCEPT ![r].todo = req[r].todo \ {m}]
        PROVE  Steady'
    <3>1. req' = [req EXCEPT ![r].at = "bump", ![r].todo = req[r].todo \ {m}]
      BY <1>1, <2>1, <2>3 DEF At, Asked
    <3>2. QED
      BY <1>3, <2>1, <3>1 DEF At
  <2>4. QED
    BY <1>9, <2>2, <2>3 DEF Bump
<1>10. CASE Fail(r)
  BY <1>3, <1>4, <1>10 DEF Fail
<1>11. QED
  BY <1>5, <1>6, <1>7, <1>8, <1>9, <1>10

LEMMA SteadyFrame ==
  ASSUME IInv, Steady, UNCHANGED <<row, graph, req, calm, budget>>
  PROVE  Steady'
<1>1. Seen' = Seen
  BY SeenSteady
<1>2. ASSUME NEW r \in calm' PROVE Replayable(r)'
  BY <1>1, <1>2, ReplayFrame DEF IInv, TypeOK, Steady
<1>3. QED
  BY <1>2 DEF Steady, At

LEMMA NextSteady ==
  IInv /\ Steady /\ [Next]_vars => Steady'
<1> SUFFICES ASSUME IInv, Steady, [Next]_vars PROVE Steady'
  OBVIOUS
<1>1. ASSUME NEW r \in Requests, phase = "idle", Request(r) PROVE Steady'
  <2>1. ASSUME NEW s \in StrategiesOf[r], NEW b \in Budgets, Begin(r, s, b) PROVE Steady'
    BY <2>1, BeginSteady
  <2>2. CASE Select(r)
    BY <2>2, SelectSteady
  <2>3. CASE Hop(r)
    BY <2>3, HopSteady
  <2>4. CASE Gate(r)
    BY <1>1, <2>4, GateSteady
  <2>5. CASE Timeout(r) \/ LogAccess(r) \/ LogGate(r) \/ LogDropped(r) \/ Bump(r) \/ Fail(r)
    BY <2>5, LaterSteady
  <2>6. QED
    BY <1>1, <2>1, <2>2, <2>3, <2>4, <2>5 DEF Request
<1>2. ASSUME NEW r \in Requests, Packed(r) PROVE Steady'
  BY <1>2, PackedSteady
<1>3. CASE Packing
  <2>1. budget' = budget
    BY <1>3 DEF Packing, PackStep, PlaceProtected, PlaceOrdinary, NextPhase, PlanReserve,
                DropLast, ShortenLast, AddReserved
  <2>2. QED
    BY <1>3, <2>1, SteadyFrame DEF Packing, history
<1>4. ASSUME NEW m \in Memories, Others(m) PROVE Steady'
  <2>1. calm' = {} /\ req' = req
    BY <1>4 DEF Others, SetStatus, Supersede, SetBranch, Expire, Changed
  <2>2. QED
    BY <2>1 DEF Steady, At
<1>5. CASE UNCHANGED vars
  BY <1>5, SteadyFrame DEF vars, history, packer
<1>6. QED
  BY <1>1, <1>2, <1>3, <1>4, <1>5 DEF Next

LEMMA SteadyHolds == Spec => []Steady
<1>1. ASSUME Init PROVE Steady
  <2>1. calm = {} /\ \A r \in Requests : req[r].at = "idle"
    BY <1>1 DEF Init
  <2>2. QED
    BY <2>1 DEF Steady, At
<1>2. QED
  BY <1>1, NextSteady, Invariance, PTL DEF Spec

\* Packing is given the same for the same memories, rows and verdicts.
LEMMA SameInput ==
  ASSUME NEW S, NEW rows, NEW others, NEW v, NEW w,
         \A m \in S : rows[m] = others[m] /\ v[m] = w[m]
  PROVE  PackInput(S, rows, v) = PackInput(S, others, w)
<1>1. {m \in S : Admitted(v[m])} = {m \in S : Admitted(w[m])}
  BY Zenon
<1>2. [m \in S |-> EvidenceMode(Memory(m, rows[m]), v[m])]
      = [m \in S |-> EvidenceMode(Memory(m, others[m]), w[m])]
  BY Zenon
<1>3. QED
  BY <1>1, <1>2, Zenon DEF PackInput

(* If no memory has changed since a request selected, its replay finds,    *)
(* adds and judges exactly what its logs say, and gives packing the same   *)
(* texts and notices, from the logs as from the memories, as the request   *)
(* did; whatever other requests merged into the graph meanwhile and        *)
(* however many hops it took.  Of scores and orders nothing is said.       *)
THEOREM ReplayDecidesAlike == Spec => []ReplayAgrees
<1>1. ASSUME IInv, Logging, Steady, NEW r \in calm, At(r, "returned")
      PROVE  DecisionDrift(r) = {} /\ ~ ContextDrift(r)
  <2> DEFINE q == req[r]
  <2>1. r \in Requests /\ q.found \subseteq Memories
    BY <1>1 DEF IInv, TypeOK, Asked
  <2>2. q.found = Again(r) /\ \A m \in q.found : q.seen[m] = row[m]
    BY <1>1, <2>1, AgainFollows, ZenonT(30) DEF Steady, Replayable, At, Refound
  <2>3. gateLog[r] = Decisions(q, q.found)
    BY <1>1, <2>1 DEF Logging, Recorded, At
  <2>4. Logged(r) = q.found /\ \A m \in q.found : gateLog[r][m] = VerdictOf(q, m)
    BY <2>1, <2>3, DecisionsAreLogged
  <2>5. \A m \in q.found : Judged(m, row[m], q.strategy) = gateLog[r][m]
    BY <2>2, <2>4 DEF VerdictOf
  <2>6. DecisionDrift(r) = {}
    BY <2>2, <2>4, <2>5 DEF DecisionDrift
  <2> DEFINE now == [m \in Memories |-> Judged(m, row[m], q.strategy)]
             then == [m \in Memories |-> VerdictOf(q, m)]
  <2>7. \A m \in q.found : now[m] = gateLog[r][m] /\ then[m] = gateLog[r][m]
    BY <2>1, <2>4, <2>5
  <2> HIDE DEF now, then
  <2>8. PackInput(q.found, row, gateLog[r]) = PackInput(q.found, row, now)
    BY <2>7, SameInput
  <2>9. PackInput(q.found, q.seen, then) = PackInput(q.found, row, now)
    BY <2>2, <2>7, SameInput
  <2>10. ~ ContextDrift(r)
    BY <2>2, <2>4, <2>8, <2>9, Zenon DEF ContextDrift, Rebuilt, Replayed, Given, now, then
  <2>11. QED
    BY <2>6, <2>10
<1>2. IInv /\ Logging /\ Steady => ReplayAgrees
  BY <1>1 DEF ReplayAgrees
<1>3. QED
  BY <1>2, Invariance, LoggingHolds, SteadyHolds, PTL

=============================================================================
