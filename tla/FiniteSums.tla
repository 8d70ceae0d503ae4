----------------------------- MODULE FiniteSums -----------------------------
(***************************************************************************)
(* Facts about SumFunctionOnSet of the community modules: the sums over    *)
(* orders and over markets that the risk limits and the portfolio          *)
(* snapshot are about.  And the inductions that other proofs use: over the *)
(* subsets of a finite set and over the natural numbers.                   *)
(*                                                                         *)
(* The sum is a fold that takes the elements one after the other.  A table *)
(* of the sums of all subsets (IsSumOf) is shown to exist, by adding one   *)
(* index at a time; the fold is that table, whatever order it takes the    *)
(* elements in.                                                            *)
(*                                                                         *)
(* The provers cannot instantiate the library's induction theorems, which  *)
(* take the formula to prove as an operator.  An induction here looks at a *)
(* minimal counterexample instead, from the first-order theorem WFMin.     *)
(***************************************************************************)
EXTENDS FiniteSetsExt, FiniteSetTheorems, TLAPS

\* Among finite sets there is a minimal one.
LEMMA MinimalSubset ==
    ASSUME NEW S, IsFiniteSet(S), NEW T, T \subseteq SUBSET S, T # {}
    PROVE  \E x \in T : \A y \in T : y \subseteq x => y = x
<1>1. IsWellFoundedOn(StrictSubsetOrdering(S), SUBSET S)
  BY Zenon, FS_StrictSubsetOrderingWellFounded, FS_FiniteSubsetsOfFinite
<1>2. PICK x \in T : \A y \in T : ~(<<y, x>> \in StrictSubsetOrdering(S))
  BY Zenon, <1>1, WFMin
<1>3. \A y \in T : y \subseteq x /\ y # x => <<y, x>> \in StrictSubsetOrdering(S)
  BY Zenon DEF StrictSubsetOrdering
<1>4. \A y \in T : y \subseteq x => y = x
  BY Zenon, <1>2, <1>3
<1>5. QED
  BY <1>4, Zenon

\* Induction over the subsets of a finite set: a family that holds the empty
\* set, and a set whenever it holds the set without one of its elements.
LEMMA SubsetInduction ==
    ASSUME NEW S, IsFiniteSet(S), NEW Family, {} \in Family,
           \A s \in SUBSET S : \A x \in s : s \ {x} \in Family => s \in Family
    PROVE  SUBSET S \subseteq Family
<1> DEFINE Bad == (SUBSET S) \ Family
<1>1. SUFFICES ASSUME Bad # {} PROVE FALSE
  BY Zenon
<1>2. PICK s \in Bad : \A y \in Bad : y \subseteq s => y = s
  <2> Bad \subseteq SUBSET S
    BY Zenon
  <2> HIDE DEF Bad
  <2> QED
    BY <1>1, MinimalSubset
<1>3. PICK x \in s : TRUE
  BY <1>2
<1>4. s \ {x} \subseteq s /\ s \ {x} # s /\ s \ {x} \in SUBSET S
  BY Zenon, <1>2, <1>3
<1>5. s \ {x} \in Family
  BY Zenon, <1>2, <1>4
<1>6. QED
  BY Zenon, <1>2, <1>3, <1>5

-----------------------------------------------------------------------------
(* Natural numbers                                                         *)

\* A set of natural numbers has a least element.
LEMMA LeastNat ==
    ASSUME NEW T, T \subseteq Nat, T # {}
    PROVE  \E x \in T : \A y \in T : x <= y
<1> DEFINE R == OpToRel(<, Nat)
<1>1. IsWellFoundedOn(R, Nat)
  BY Zenon, NatLessThanWellFounded
<1>2. \A x, y \in Nat : y < x => <<y, x>> \in R
  BY Zenon DEF OpToRel
<1> HIDE DEF R
<1>3. PICK x \in T : \A y \in T : ~(<<y, x>> \in R)
  BY Zenon, <1>1, WFMin
<1>4. \A y \in T : ~(y < x)
  BY Zenon, <1>2, <1>3
<1>. QED
  BY <1>4

\* Induction, for the members of a set.
LEMMA NatSetInduction ==
    ASSUME NEW T, 0 \in T, \A n \in Nat : n \in T => n + 1 \in T
    PROVE  Nat \subseteq T
<1>1. SUFFICES ASSUME Nat \ T # {} PROVE FALSE
  BY Zenon
<1>2. PICK x \in Nat \ T : \A y \in Nat \ T : x <= y
  BY Zenon, <1>1, LeastNat
<1>3. x # 0 /\ x - 1 \in Nat /\ x - 1 \notin Nat \ T
  BY <1>2
<1>. QED
  BY <1>2, <1>3

\* The greatest of some indices is one of them.
LEMMA MaxIsIn ==
    ASSUME NEW n \in Nat, NEW s \in SUBSET (1..n), s # {}
    PROVE  /\ Max(s) \in s
           /\ \A i \in s : i <= Max(s)
<1> DEFINE T == {k \in Nat : \E i \in s : k = n - i}
<1>1. T \subseteq Nat /\ T # {}
  <2>1. PICK j \in s : TRUE
    BY Zenon
  <2>2. n - j \in Nat
    OBVIOUS
  <2>. QED
    BY Zenon, <2>2
<1>2. PICK k \in T : \A y \in T : k <= y
  <2> HIDE DEF T
  <2> QED
    BY Zenon, <1>1, LeastNat
<1>3. PICK i \in s : k = n - i
  BY Zenon, <1>2
<1>4. \A j \in s : i >= j
  <2>1. \A j \in s : n - j \in T
    OBVIOUS
  <2>. QED
    BY <1>2, <1>3, <2>1
<1>. QED
  BY Zenon, <1>4 DEF Max

-----------------------------------------------------------------------------
(* The table of the sums                                                   *)

\* g holds the sum of f over every subset of S
IsSumOf(g, f, S) ==
    /\ g \in [SUBSET S -> Int]
    /\ g[{}] = 0
    /\ \A s \in SUBSET S : \A x \in s : g[s] = f[x] + g[s \ {x}]

\* There is a table of the sums of f over all subsets of S.
LEMMA SumExists ==
    ASSUME NEW S, IsFiniteSet(S), NEW f, \A x \in S : f[x] \in Int
    PROVE  \E g : IsSumOf(g, f, S)
<1> DEFINE Family == {s \in SUBSET S : \E g : IsSumOf(g, f, s)}
<1>1. {} \in Family
  <2> DEFINE g == [s \in SUBSET {} |-> 0]
  <2>1. IsSumOf(g, f, {})
    BY DEF IsSumOf
  <2>2. QED
    BY Zenon, <2>1
<1>2. ASSUME NEW s \in SUBSET S, NEW x \in s, s \ {x} \in Family
      PROVE  s \in Family
  <2>1. PICK g : IsSumOf(g, f, s \ {x})
    BY Zenon, <1>2
  <2> DEFINE h == [t \in SUBSET s |-> IF x \in t THEN f[x] + g[t \ {x}] ELSE g[t]]
  <2>2. h \in [SUBSET s -> Int]
    <3>1. \A t \in SUBSET s : /\ t \ {x} \in SUBSET (s \ {x})
                              /\ x \notin t => t \in SUBSET (s \ {x})
      BY Zenon
    <3>2. f[x] \in Int /\ g \in [SUBSET (s \ {x}) -> Int]
      BY Zenon, <2>1 DEF IsSumOf
    <3>3. QED
      BY <3>1, <3>2
  <2>3. h[{}] = 0
    BY Zenon, <2>1 DEF IsSumOf
  <2>4. ASSUME NEW t \in SUBSET s, NEW y \in t
        PROVE  h[t] = f[y] + h[t \ {y}]
    <3>0. /\ f[x] \in Int /\ f[y] \in Int /\ g \in [SUBSET (s \ {x}) -> Int]
          /\ t \ {y} \in SUBSET s /\ t \ {x} \in SUBSET (s \ {x})
          /\ (t \ {x}) \ {y} \in SUBSET (s \ {x})
      BY Zenon, <2>1 DEF IsSumOf
    <3>1. CASE y = x
      <4>1. h[t \ {y}] = g[t \ {x}]
        BY Zenon, <3>0, <3>1
      <4>2. QED
        BY Zenon, <3>1, <4>1
    <3>2. CASE y # x /\ x \in t
      <4>1. h[t] = f[x] + g[t \ {x}]
        BY Zenon, <3>2
      <4>2. g[t \ {x}] = f[y] + g[(t \ {x}) \ {y}]
        BY Zenon, <2>1, <3>0, <3>2 DEF IsSumOf
      <4>3. h[t \ {y}] = f[x] + g[(t \ {y}) \ {x}]
        BY Zenon, <3>0, <3>2
      <4>4. (t \ {y}) \ {x} = (t \ {x}) \ {y}
        BY Zenon
      <4>5. g[(t \ {x}) \ {y}] \in Int
        BY Zenon, <3>0
      <4> HIDE DEF h
      <4>6. \A a, b, c \in Int : a + (b + c) = b + (a + c)
        OBVIOUS
      <4>7. f[x] + (f[y] + g[(t \ {x}) \ {y}]) = f[y] + (f[x] + g[(t \ {x}) \ {y}])
        BY <3>0, <4>5, <4>6
      <4>8. QED
        BY Zenon, <4>1, <4>2, <4>3, <4>4, <4>7
    <3>3. CASE x \notin t
      <4>1. h[t] = g[t] /\ h[t \ {y}] = g[t \ {y}] /\ t \in SUBSET (s \ {x})
        BY Zenon, <3>0, <3>3
      <4>2. QED
        BY Zenon, <2>1, <4>1 DEF IsSumOf
    <3>4. QED
      BY Zenon, <3>1, <3>2, <3>3
  <2>5. IsSumOf(h, f, s)
    <3> HIDE DEF h
    <3> QED
      BY Zenon, <2>2, <2>3, <2>4 DEF IsSumOf
  <2>6. QED
    BY Zenon, <2>5
<1>3. S \in Family
  <2> HIDE DEF Family
  <2> QED
    BY Zenon, <1>1, <1>2, SubsetInduction
<1>4. QED
  BY Zenon, <1>3

\* One step of the fold.
Pick(s) == CHOOSE x \in s : TRUE

FoldStep(h, f, S) ==
    [s \in SUBSET S |-> IF s = {} THEN 0 ELSE f[Pick(s)] + h[s \ {Pick(s)}]]

\* The sum of the community modules, as a choice of such a table.
LEMMA SumUnfolds ==
    ASSUME NEW f, NEW S
    PROVE  SumFunctionOnSet(f, S) = (CHOOSE h : h = FoldStep(h, f, S))[S]
BY Zenon DEF SumFunctionOnSet, FoldFunctionOnSet, MapThenFoldSet, FoldStep, Pick

\* The fold computes the table.
LEMMA SumIs ==
    ASSUME NEW S, IsFiniteSet(S), NEW f, NEW g, IsSumOf(g, f, S)
    PROVE  SumFunctionOnSet(f, S) = g[S]
<1> DEFINE h == CHOOSE k : k = FoldStep(k, f, S)
<1>1. \A s \in SUBSET S : s # {} => Pick(s) \in s
  BY Zenon DEF Pick
<1>2. g = FoldStep(g, f, S)
  BY Zenon, <1>1 DEF IsSumOf, FoldStep
<1>3. h = FoldStep(h, f, S)
  BY Zenon, <1>2
<1> HIDE DEF h
<1>4. h[{}] = g[{}] /\ \A s \in SUBSET S : s # {} => h[s] = f[Pick(s)] + h[s \ {Pick(s)}]
  BY Zenon, <1>3 DEF FoldStep, IsSumOf
<1> DEFINE Bad == {s \in SUBSET S : h[s] # g[s]}
<1>5. SUFFICES ASSUME Bad # {} PROVE FALSE
  BY Zenon, SumUnfolds DEF h
<1>6. PICK s \in Bad : \A y \in Bad : y \subseteq s => y = s
  <2> Bad \subseteq SUBSET S
    BY Zenon
  <2> HIDE DEF Bad
  <2> QED
    BY <1>5, MinimalSubset
<1>7. s # {} /\ Pick(s) \in s /\ s \ {Pick(s)} \in SUBSET S /\ s \ {Pick(s)} # s
  BY Zenon, <1>1, <1>4, <1>6
<1>8. h[s \ {Pick(s)}] = g[s \ {Pick(s)}]
  BY Zenon, <1>6, <1>7
<1>9. QED
  BY Zenon, <1>4, <1>6, <1>7, <1>8 DEF IsSumOf

-----------------------------------------------------------------------------
(* The facts that the theorems about the sums use                          *)

\* A sum over a part of S comes from the same table.
LEMMA SumOfPart ==
    ASSUME NEW S, IsFiniteSet(S), NEW f, NEW g, IsSumOf(g, f, S), NEW T \in SUBSET S
    PROVE  SumFunctionOnSet(f, T) = g[T]
<1> DEFINE h == [s \in SUBSET T |-> g[s]]
<1>1. IsSumOf(h, f, T)
  BY Zenon DEF IsSumOf
<1>2. IsFiniteSet(T)
  BY Zenon, FS_Subset
<1>3. SumFunctionOnSet(f, T) = h[T]
  <2> HIDE DEF h
  <2> QED
    BY Zenon, <1>1, <1>2, SumIs
<1>4. QED
  BY Zenon, <1>3

\* The sum over the empty set.
LEMMA SumOfNothing ==
    ASSUME NEW f
    PROVE  SumFunctionOnSet(f, {}) = 0
<1>1. PICK g : IsSumOf(g, f, {})
  BY Zenon, SumExists, FS_EmptySet
<1>2. QED
  BY Zenon, <1>1, SumIs, FS_EmptySet DEF IsSumOf

\* A finite sum of integers is an integer.
LEMMA SumType ==
    ASSUME NEW S, IsFiniteSet(S), NEW f, \A x \in S : f[x] \in Int
    PROVE  SumFunctionOnSet(f, S) \in Int
<1>1. PICK g : IsSumOf(g, f, S)
  BY Zenon, SumExists
<1>2. g[S] \in Int
  BY Zenon, <1>1 DEF IsSumOf
<1>3. QED
  BY Zenon, <1>1, <1>2, SumIs

\* Any index may be taken out.
LEMMA SumSplits ==
    ASSUME NEW S, IsFiniteSet(S), NEW f, \A x \in S : f[x] \in Int, NEW x \in S
    PROVE  SumFunctionOnSet(f, S) = f[x] + SumFunctionOnSet(f, S \ {x})
<1>1. PICK g : IsSumOf(g, f, S)
  BY Zenon, SumExists
<1>2. SumFunctionOnSet(f, S) = g[S] /\ SumFunctionOnSet(f, S \ {x}) = g[S \ {x}]
  BY <1>1, SumOfPart
<1>3. QED
  BY Zenon, <1>1, <1>2 DEF IsSumOf

\* Larger terms make no smaller sum.
LEMMA SumIsMonotone ==
    ASSUME NEW S, IsFiniteSet(S), NEW f, NEW g,
           \A x \in S : f[x] \in Int /\ g[x] \in Int /\ f[x] <= g[x]
    PROVE  SumFunctionOnSet(f, S) <= SumFunctionOnSet(g, S)
<1> DEFINE Family == {s \in SUBSET S : SumFunctionOnSet(f, s) <= SumFunctionOnSet(g, s)}
<1>1. {} \in Family
  BY SumOfNothing
<1>2. ASSUME NEW s \in SUBSET S, NEW x \in s, s \ {x} \in Family
      PROVE  s \in Family
  <2>1. /\ IsFiniteSet(s) /\ IsFiniteSet(s \ {x})
        /\ \A y \in s : f[y] \in Int /\ g[y] \in Int /\ f[y] <= g[y]
    BY Zenon, FS_Subset
  <2>2. /\ SumFunctionOnSet(f, s) = f[x] + SumFunctionOnSet(f, s \ {x})
        /\ SumFunctionOnSet(g, s) = g[x] + SumFunctionOnSet(g, s \ {x})
        /\ SumFunctionOnSet(f, s \ {x}) \in Int /\ SumFunctionOnSet(g, s \ {x}) \in Int
    BY Zenon, <2>1, SumSplits, SumType
  <2>3. SumFunctionOnSet(f, s \ {x}) <= SumFunctionOnSet(g, s \ {x})
    BY Zenon, <1>2
  <2>4. \A a, b, c, d \in Int : a <= b /\ c <= d => a + c <= b + d
    OBVIOUS
  <2>5. SumFunctionOnSet(f, s) <= SumFunctionOnSet(g, s)
    BY Zenon, <2>1, <2>2, <2>3, <2>4
  <2>6. QED
    BY Zenon, <2>5
<1>3. SUBSET S \subseteq Family
  <2> HIDE DEF Family
  <2> QED
    BY Zenon, <1>1, <1>2, SubsetInduction
<1>4. QED
  BY Zenon, <1>3

\* Equal terms make equal sums.
LEMMA SumOfEqualTerms ==
    ASSUME NEW S, IsFiniteSet(S), NEW f, NEW g,
           \A x \in S : f[x] \in Int /\ g[x] = f[x]
    PROVE  SumFunctionOnSet(f, S) = SumFunctionOnSet(g, S)
<1>1. /\ SumFunctionOnSet(f, S) <= SumFunctionOnSet(g, S)
      /\ SumFunctionOnSet(g, S) <= SumFunctionOnSet(f, S)
  BY SumIsMonotone
<1>2. SumFunctionOnSet(f, S) \in Int /\ SumFunctionOnSet(g, S) \in Int
  BY Zenon, SumType
<1>3. QED
  BY <1>1, <1>2

\* Changing the term at one index, or adding one, changes the sum by that much.
LEMMA SumAfterPut ==
    ASSUME NEW S, IsFiniteSet(S), NEW f, NEW g, NEW k,
           \A x \in S : f[x] \in Int,
           \A x \in S \ {k} : g[x] = f[x],
           g[k] \in Int
    PROVE  /\ k \in S =>
                  SumFunctionOnSet(g, S \cup {k}) + f[k] = SumFunctionOnSet(f, S) + g[k]
           /\ k \notin S =>
                  SumFunctionOnSet(g, S \cup {k}) = SumFunctionOnSet(f, S) + g[k]
<1>1. /\ IsFiniteSet(S \ {k}) /\ IsFiniteSet(S \cup {k})
      /\ (S \cup {k}) \ {k} = S \ {k}
  BY Zenon, FS_RemoveElement, FS_AddElement
<1>2. SumFunctionOnSet(g, S \cup {k}) = g[k] + SumFunctionOnSet(g, S \ {k})
  BY <1>1, SumSplits
<1>3. /\ SumFunctionOnSet(f, S \ {k}) = SumFunctionOnSet(g, S \ {k})
      /\ SumFunctionOnSet(f, S \ {k}) \in Int
  BY Zenon, <1>1, SumOfEqualTerms, SumType
<1>4. CASE k \in S
  <2>1. SumFunctionOnSet(f, S) = f[k] + SumFunctionOnSet(f, S \ {k})
    BY Zenon, <1>4, SumSplits
  <2>2. QED
    BY <1>2, <1>3, <1>4, <2>1
<1>5. CASE k \notin S
  <2>1. S \ {k} = S
    BY Zenon, <1>5
  <2>2. SumFunctionOnSet(f, S \ {k}) = SumFunctionOnSet(f, S)
    BY Zenon, <2>1
  <2>3. \A a, b \in Int : a + b = b + a
    OBVIOUS
  <2>4. QED
    BY Zenon, <1>2, <1>3, <1>5, <2>2, <2>3
<1>6. QED
  BY Zenon, <1>4, <1>5

\* More terms that are not negative make no smaller sum.
LEMMA SumOverMore ==
    ASSUME NEW S, IsFiniteSet(S), NEW f, \A x \in S : f[x] \in Nat, NEW T \in SUBSET S
    PROVE  SumFunctionOnSet(f, T) <= SumFunctionOnSet(f, S)
<1> DEFINE Family == {s \in SUBSET S : SumFunctionOnSet(f, T \cap s) <= SumFunctionOnSet(f, s)}
<1>1. {} \in Family
  BY SumOfNothing
<1>2. ASSUME NEW s \in SUBSET S, NEW x \in s, s \ {x} \in Family
      PROVE  s \in Family
  <2>1. /\ IsFiniteSet(s) /\ IsFiniteSet(s \ {x})
        /\ IsFiniteSet(T \cap s) /\ IsFiniteSet(T \cap (s \ {x}))
        /\ \A y \in S : f[y] \in Int
    BY FS_Subset
  <2>2. /\ SumFunctionOnSet(f, s) = f[x] + SumFunctionOnSet(f, s \ {x})
        /\ SumFunctionOnSet(f, s \ {x}) \in Int
        /\ SumFunctionOnSet(f, T \cap (s \ {x})) \in Int
        /\ SumFunctionOnSet(f, T \cap (s \ {x})) <= SumFunctionOnSet(f, s \ {x})
    BY Zenon, <1>2, <2>1, SumSplits, SumType
  <2>3. SumFunctionOnSet(f, T \cap s) <= f[x] + SumFunctionOnSet(f, T \cap (s \ {x}))
    <3>1. CASE x \in T
      <4>1. (T \cap s) \ {x} = T \cap (s \ {x}) /\ x \in T \cap s
        BY Zenon, <3>1
      <4>2. SumFunctionOnSet(f, T \cap s) = f[x] + SumFunctionOnSet(f, (T \cap s) \ {x})
        BY Zenon, <2>1, <4>1, SumSplits
      <4>3. f[x] \in Int
        BY Zenon, <2>1
      <4>4. QED
        BY <2>2, <4>1, <4>2, <4>3
    <3>2. CASE x \notin T
      <4>1. T \cap s = T \cap (s \ {x})
        BY Zenon, <3>2
      <4>2. SumFunctionOnSet(f, T \cap s) = SumFunctionOnSet(f, T \cap (s \ {x}))
        BY Zenon, <4>1
      <4>3. \A a \in Int, n \in Nat : a <= n + a
        OBVIOUS
      <4>4. QED
        BY Zenon, <2>2, <4>2, <4>3
    <3>3. QED
      BY Zenon, <3>1, <3>2
  <2>4. SumFunctionOnSet(f, T \cap s) \in Int /\ f[x] \in Int
    BY Zenon, <2>1, SumType
  <2>5. \A a, b, c, d, e \in Int : a <= e + b /\ b <= c /\ d = e + c => a <= d
    OBVIOUS
  <2>6. SumFunctionOnSet(f, T \cap s) <= SumFunctionOnSet(f, s)
    BY <2>1, <2>2, <2>3, <2>4, <2>5, SumType
  <2>7. QED
    BY Zenon, <2>6
<1>3. SUBSET S \subseteq Family
  <2> HIDE DEF Family
  <2> QED
    BY Zenon, <1>1, <1>2, SubsetInduction
<1>4. T \cap S = T
  BY Zenon
<1>5. QED
  BY Zenon, <1>3, <1>4

\* A sum over fewer and smaller terms is no larger, if no term is negative.
LEMMA SumShrinks ==
    ASSUME NEW S, IsFiniteSet(S), NEW T \in SUBSET S, NEW f, NEW g,
           \A x \in S : f[x] \in Nat,
           \A x \in T : g[x] \in Nat /\ g[x] <= f[x]
    PROVE  SumFunctionOnSet(g, T) <= SumFunctionOnSet(f, S)
<1>1. IsFiniteSet(T)
  BY Zenon, FS_Subset
<1>2. SumFunctionOnSet(g, T) <= SumFunctionOnSet(f, T)
  BY <1>1, SumIsMonotone
<1>3. SumFunctionOnSet(f, T) <= SumFunctionOnSet(f, S)
  BY Zenon, SumOverMore
<1>4. /\ SumFunctionOnSet(g, T) \in Int
      /\ SumFunctionOnSet(f, T) \in Int
      /\ SumFunctionOnSet(f, S) \in Int
  BY <1>1, SumType
<1>5. \A a, b, c \in Int : a <= b /\ b <= c => a <= c
  OBVIOUS
<1>6. QED
  BY Zenon, <1>2, <1>3, <1>4, <1>5
=============================================================================
