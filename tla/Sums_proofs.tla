----------------------------- MODULE Sums_proofs -----------------------------
(* Facts about SumFunctionOnSet over finite sets, for any function with     *)
(* integer values: the proofs about money cite them.                        *)
EXTENDS Integers, Functions, FiniteSetTheorems, WellFoundedInduction, TLAPS

---------------------------------------------------------------------------
(* Induction, as a statement about a set of numbers.                       *)

\* Every set of natural numbers that is not empty has a least element.
LEMMA LeastNumber ==
  ASSUME NEW N \in SUBSET Nat, N # {}
  PROVE  \E n \in N : \A m \in N : ~(m < n)
<1> DEFINE R == OpToRel(<, Nat)
<1>1. IsWellFoundedOn(R, Nat)
  BY NatLessThanWellFounded
<1>2. \E n \in N : \A m \in N : ~(<<m, n>> \in R)
  <2> HIDE DEF R
  <2> QED
    BY <1>1, WFMin
<1> QED
  BY <1>2 DEF OpToRel

\* A set that holds 0 and every successor holds every natural number.
LEMMA EveryNumber ==
  ASSUME NEW N \in SUBSET Nat, 0 \in N, \A n \in N : n + 1 \in N
  PROVE  N = Nat
<1> SUFFICES ASSUME Nat \ N # {} PROVE FALSE
  OBVIOUS
<1>1. PICK n \in Nat \ N : \A m \in Nat \ N : ~(m < n)
  BY LeastNumber
<1>2. n - 1 \in Nat /\ n - 1 < n
  BY <1>1
<1>3. n - 1 \in N
  BY <1>1, <1>2
<1> QED
  BY <1>1, <1>3

---------------------------------------------------------------------------
(* The recursion behind a sum.                                             *)

Pick(s) == CHOOSE x \in s : TRUE

\* The sum of f over s, from the sums over smaller sets in g.
OneMore(f, g, s) == IF s = {} THEN 0 ELSE f[Pick(s)] + g[s \ {Pick(s)}]

\* g has the sums of f over every subset of S.
Sums(g, f, S) == g = [s \in SUBSET S |-> OneMore(f, g, s)]

IntegersOn(f, S) == \A x \in S : f[x] \in Int

\* A subset without one of its elements is a smaller subset.
LEMMA Smaller ==
  ASSUME NEW S, IsFiniteSet(S), NEW s \in SUBSET S, NEW x \in s
  PROVE  /\ s \ {x} \in SUBSET S
         /\ Cardinality(s) \in Nat /\ Cardinality(s \ {x}) \in Nat
         /\ Cardinality(s \ {x}) + 1 = Cardinality(s)
  BY FS_Subset, FS_RemoveElement, FS_CardinalityType

LEMMA PickIn ==
  ASSUME NEW s, s # {}
  PROVE  Pick(s) \in s
  BY DEF Pick

\* What holds of a set if it holds of every smaller one, holds of every
\* subset of a finite set.
LEMMA BySize ==
  ASSUME NEW S, IsFiniteSet(S), NEW G,
         \A s \in SUBSET S : (\A x \in s : s \ {x} \in G) => s \in G
  PROVE  SUBSET S \subseteq G
<1> DEFINE N == {n \in Nat : \A s \in SUBSET S : Cardinality(s) = n => s \in G}
<1>1. 0 \in N
  <2> SUFFICES ASSUME NEW s \in SUBSET S, Cardinality(s) = 0 PROVE s \in G
    OBVIOUS
  <2> s = {}
    BY FS_Subset, FS_EmptySet
  <2> QED
    OBVIOUS
<1>2. ASSUME NEW n \in N PROVE n + 1 \in N
  <2> SUFFICES ASSUME NEW s \in SUBSET S, Cardinality(s) = n + 1 PROVE s \in G
    OBVIOUS
  <2>1. ASSUME NEW x \in s PROVE s \ {x} \in G
    BY Smaller
  <2> QED
    BY <2>1
<1>3. N = Nat
  <2>1. N \in SUBSET Nat
    OBVIOUS
  <2> HIDE DEF N
  <2> QED
    BY <1>1, <1>2, <2>1, EveryNumber
<1> SUFFICES ASSUME NEW s \in SUBSET S PROVE s \in G
  OBVIOUS
<1>4. Cardinality(s) \in N
  BY <1>3, FS_Subset, FS_CardinalityType
<1> QED
  BY <1>4

\* The recursion has a solution.
LEMMA SumsExist ==
  ASSUME NEW S, IsFiniteSet(S), NEW f, IntegersOn(f, S)
  PROVE  \E g \in [SUBSET S -> Int] : Sums(g, f, S)
<1> DEFINE UpTo(g, n) ==
             \A s \in SUBSET S : Cardinality(s) <= n => g[s] = OneMore(f, g, s)
           N == {n \in Nat : \E g \in [SUBSET S -> Int] : UpTo(g, n)}
<1>0. ASSUME NEW g \in [SUBSET S -> Int], NEW s \in SUBSET S
      PROVE  OneMore(f, g, s) \in Int
  <2>1. CASE s = {}
    BY <2>1 DEF OneMore
  <2>2. CASE s # {}
    <3>1. Pick(s) \in s
      BY <2>2, PickIn
    <3>2. g[s \ {Pick(s)}] \in Int
      OBVIOUS
    <3> QED
      BY <2>2, <3>1, <3>2 DEF OneMore, IntegersOn
  <2> QED
    BY <2>1, <2>2
<1>1. 0 \in N
  <2> DEFINE g == [s \in SUBSET S |-> 0]
  <2>1. UpTo(g, 0)
    <3> SUFFICES ASSUME NEW s \in SUBSET S, Cardinality(s) <= 0
                 PROVE  g[s] = OneMore(f, g, s)
      OBVIOUS
    <3> s = {}
      BY FS_Subset, FS_EmptySet, FS_CardinalityType
    <3> QED
      BY DEF OneMore
  <2>2. g \in [SUBSET S -> Int]
    OBVIOUS
  <2> QED
    BY <2>1, <2>2
<1>2. ASSUME NEW n \in N PROVE n + 1 \in N
  <2>1. PICK g \in [SUBSET S -> Int] : UpTo(g, n)
    OBVIOUS
  <2> DEFINE h == [s \in SUBSET S |-> OneMore(f, g, s)]
  <2>2. h \in [SUBSET S -> Int]
    BY <1>0
  <2>3. ASSUME NEW s \in SUBSET S, Cardinality(s) <= n PROVE h[s] = g[s]
    BY <2>1, <2>3
  <2>4. UpTo(h, n + 1)
    <3> SUFFICES ASSUME NEW s \in SUBSET S, Cardinality(s) <= n + 1
                 PROVE  OneMore(f, g, s) = OneMore(f, h, s)
      OBVIOUS
    <3>1. CASE s = {}
      BY <3>1 DEF OneMore
    <3>2. CASE s # {}
      <4>1. /\ s \ {Pick(s)} \in SUBSET S
            /\ Cardinality(s \ {Pick(s)}) <= n
        BY <3>2, PickIn, Smaller
      <4>2. h[s \ {Pick(s)}] = g[s \ {Pick(s)}]
        BY <2>3, <4>1
      <4> QED
        BY <4>2 DEF OneMore
    <3> QED
      BY <3>1, <3>2
  <2>5. \E e \in [SUBSET S -> Int] : UpTo(e, n + 1)
    <3> HIDE DEF h, UpTo
    <3> QED
      BY <2>2, <2>4
  <2> QED
    BY <2>5
<1>3. Cardinality(S) \in N
  <2>1. N = Nat
    <3>1. N \in SUBSET Nat
      OBVIOUS
    <3> HIDE DEF N
    <3> QED
      BY <1>1, <1>2, <3>1, EveryNumber
  <2> QED
    BY <2>1, FS_CardinalityType
<1>4. PICK g \in [SUBSET S -> Int] : UpTo(g, Cardinality(S))
  BY <1>3
<1>5. ASSUME NEW s \in SUBSET S PROVE g[s] = OneMore(f, g, s)
  BY <1>4, FS_Subset
<1>6. g = [s \in SUBSET S |-> OneMore(f, g, s)]
  BY <1>5
<1> QED
  BY <1>6 DEF Sums

\* SumFunctionOnSet is that solution.
LEMMA SumIsSums ==
  ASSUME NEW S, IsFiniteSet(S), NEW f, IntegersOn(f, S)
  PROVE  \E g : Sums(g, f, S) /\ SumFunctionOnSet(f, S) = g[S]
<1> DEFINE g == CHOOSE g : Sums(g, f, S)
<1>1. Sums(g, f, S)
  BY SumsExist
<1>2. SumFunctionOnSet(f, S) = g[S]
  BY DEF SumFunctionOnSet, FoldFunctionOnSet, MapThenFoldSet, Sums, OneMore, Pick
<1> HIDE DEF g
<1> QED
  BY <1>1, <1>2

\* Two solutions agree where they sum the same numbers.
LEMMA SumsAgree ==
  ASSUME NEW S, NEW T, NEW f, NEW e, NEW g, NEW h, Sums(g, f, S), Sums(h, e, T),
         NEW U \in SUBSET (S \cap T), IsFiniteSet(U), \A x \in U : f[x] = e[x]
  PROVE  g[U] = h[U]
<1> DEFINE G == {s \in SUBSET U : g[s] = h[s]}
<1>1. ASSUME NEW s \in SUBSET U, \A x \in s : s \ {x} \in G PROVE s \in G
  <2>1. g[s] = OneMore(f, g, s) /\ h[s] = OneMore(e, h, s)
    BY DEF Sums
  <2>2. CASE s = {}
    BY <2>1, <2>2 DEF OneMore
  <2>3. CASE s # {}
    <3>1. Pick(s) \in s
      BY <2>3, PickIn
    <3>2. s \ {Pick(s)} \in G
      BY <1>1, <3>1
    <3>3. f[Pick(s)] = e[Pick(s)]
      BY <3>1
    <3> QED
      BY <2>1, <2>3, <3>2, <3>3 DEF OneMore
  <2> QED
    BY <2>2, <2>3
<1>2. SUBSET U \subseteq G
  <2> HIDE DEF G
  <2> QED
    BY <1>1, BySize
<1> QED
  BY <1>2


\* A sum of integers is one.
LEMMA SumsType ==
  ASSUME NEW S, IsFiniteSet(S), NEW f, IntegersOn(f, S), NEW g, Sums(g, f, S),
         NEW s \in SUBSET S
  PROVE  g[s] \in Int
<1>1. PICK h \in [SUBSET S -> Int] : Sums(h, f, S)
  BY SumsExist
<1>2. s \in SUBSET (S \cap S) /\ IsFiniteSet(s)
  BY FS_Subset
<1>3. g[s] = h[s]
  BY <1>1, <1>2, SumsAgree
<1> QED
  BY <1>3

\* The order does not matter: any element may come last.
LEMMA AnyOrder ==
  ASSUME NEW S, IsFiniteSet(S), NEW f, IntegersOn(f, S), NEW g, Sums(g, f, S),
         NEW s \in SUBSET S, NEW x \in s
  PROVE  g[s] = g[s \ {x}] + f[x]
<1> DEFINE G == {r \in SUBSET S : \A y \in r : g[r] = g[r \ {y}] + f[y]}
<1>1. ASSUME NEW r \in SUBSET S, \A y \in r : r \ {y} \in G, NEW y \in r
      PROVE  g[r] = g[r \ {y}] + f[y]
  <2> DEFINE p == Pick(r)
  <2>1. p \in r
    BY PickIn
  <2>2. g[r] = f[p] + g[r \ {p}]
    BY DEF Sums, OneMore
  <2> HIDE DEF p
  <2>3. /\ f[p] \in Int /\ f[y] \in Int
        /\ g[r] \in Int /\ g[r \ {p}] \in Int /\ g[r \ {y}] \in Int
        /\ g[(r \ {p}) \ {y}] \in Int
    BY <2>1, SumsType DEF IntegersOn
  <2>4. CASE y = p
    BY <2>2, <2>3, <2>4
  <2>5. CASE y # p
    <3>1. g[r \ {p}] = g[(r \ {p}) \ {y}] + f[y]
      BY <1>1, <2>1, <2>5
    <3>2. g[r \ {y}] = g[(r \ {y}) \ {p}] + f[p]
      BY <1>1, <2>1, <2>5
    <3>3. g[(r \ {y}) \ {p}] = g[(r \ {p}) \ {y}]
      <4>1. (r \ {p}) \ {y} = (r \ {y}) \ {p}
        OBVIOUS
      <4> QED
        BY <4>1
    <3> QED
      BY <2>2, <2>3, <3>1, <3>2, <3>3
  <2> QED
    BY <2>4, <2>5
<1>2. SUBSET S \subseteq G
  <2>1. \A r \in SUBSET S : (\A y \in r : r \ {y} \in G) => r \in G
    BY <1>1
  <2> HIDE DEF G
  <2> QED
    BY <2>1, BySize
<1> QED
  BY <1>2

---------------------------------------------------------------------------
(* Facts to cite.                                                          *)

\* Nothing sums to 0.
THEOREM SumEmpty == ASSUME NEW f PROVE SumFunctionOnSet(f, {}) = 0
<1>1. IsFiniteSet({}) /\ IntegersOn(f, {})
  BY FS_EmptySet DEF IntegersOn
<1>2. PICK g : Sums(g, f, {}) /\ SumFunctionOnSet(f, {}) = g[{}]
  BY <1>1, SumIsSums
<1> QED
  BY <1>2 DEF Sums, OneMore

\* A sum of integers is an integer.
THEOREM SumInt ==
  ASSUME NEW S, IsFiniteSet(S), NEW f, IntegersOn(f, S)
  PROVE  SumFunctionOnSet(f, S) \in Int
  BY SumIsSums, SumsType

\* One element, taken out or added.
THEOREM SumSplit ==
  ASSUME NEW S, IsFiniteSet(S), NEW f, IntegersOn(f, S), NEW x \in S
  PROVE  SumFunctionOnSet(f, S) = SumFunctionOnSet(f, S \ {x}) + f[x]
<1>1. PICK g : Sums(g, f, S) /\ SumFunctionOnSet(f, S) = g[S]
  BY SumIsSums
<1>2. IsFiniteSet(S \ {x}) /\ IntegersOn(f, S \ {x})
  BY FS_Subset DEF IntegersOn
<1>3. PICK h : Sums(h, f, S \ {x}) /\ SumFunctionOnSet(f, S \ {x}) = h[S \ {x}]
  BY <1>2, SumIsSums
<1>4. g[S \ {x}] = h[S \ {x}]
  BY <1>1, <1>2, <1>3, SumsAgree
<1> QED
  BY <1>1, <1>3, <1>4, AnyOrder

\* Sums over one set of functions that agree on it.
THEOREM SumSame ==
  ASSUME NEW S, IsFiniteSet(S), NEW f, IntegersOn(f, S),
         NEW e, \A x \in S : f[x] = e[x]
  PROVE  SumFunctionOnSet(f, S) = SumFunctionOnSet(e, S)
<1>1. IntegersOn(e, S)
  BY DEF IntegersOn
<1>2. PICK g : Sums(g, f, S) /\ SumFunctionOnSet(f, S) = g[S]
  BY SumIsSums
<1>3. PICK h : Sums(h, e, S) /\ SumFunctionOnSet(e, S) = h[S]
  BY <1>1, SumIsSums
<1> QED
  BY <1>2, <1>3, SumsAgree

\* One value changes.
THEOREM SumChange ==
  ASSUME NEW S, IsFiniteSet(S), NEW f, IntegersOn(f, S), NEW e, IntegersOn(e, S),
         NEW x \in S, \A y \in S \ {x} : e[y] = f[y]
  PROVE  SumFunctionOnSet(e, S) = SumFunctionOnSet(f, S) - f[x] + e[x]
<1>1. IsFiniteSet(S \ {x}) /\ IntegersOn(f, S \ {x})
  BY FS_Subset DEF IntegersOn
<1>2. SumFunctionOnSet(e, S \ {x}) = SumFunctionOnSet(f, S \ {x})
  BY <1>1, SumSame
<1>3. /\ SumFunctionOnSet(f, S \ {x}) \in Int
      /\ SumFunctionOnSet(f, S) = SumFunctionOnSet(f, S \ {x}) + f[x]
      /\ SumFunctionOnSet(e, S) = SumFunctionOnSet(e, S \ {x}) + e[x]
      /\ f[x] \in Int /\ e[x] \in Int
  BY <1>1, SumInt, SumSplit DEF IntegersOn
<1> QED
  BY <1>2, <1>3

\* Where every value is at most another, so is the sum.
THEOREM SumMonotonic ==
  ASSUME NEW S, IsFiniteSet(S), NEW f, IntegersOn(f, S), NEW e, IntegersOn(e, S),
         \A x \in S : f[x] <= e[x]
  PROVE  SumFunctionOnSet(f, S) <= SumFunctionOnSet(e, S)
<1> DEFINE G == {s \in SUBSET S : SumFunctionOnSet(f, s) <= SumFunctionOnSet(e, s)}
<1>1. ASSUME NEW s \in SUBSET S, \A x \in s : s \ {x} \in G PROVE s \in G
  <2>1. CASE s = {}
    BY <2>1, SumEmpty
  <2>2. CASE s # {}
    <3>1. PICK x \in s : TRUE
      BY <2>2
    <3>2. /\ IsFiniteSet(s) /\ IsFiniteSet(s \ {x})
          /\ IntegersOn(f, s) /\ IntegersOn(e, s)
          /\ IntegersOn(f, s \ {x}) /\ IntegersOn(e, s \ {x})
      BY FS_Subset DEF IntegersOn
    <3>3. /\ SumFunctionOnSet(f, s) = SumFunctionOnSet(f, s \ {x}) + f[x]
          /\ SumFunctionOnSet(e, s) = SumFunctionOnSet(e, s \ {x}) + e[x]
          /\ SumFunctionOnSet(f, s \ {x}) \in Int /\ SumFunctionOnSet(e, s \ {x}) \in Int
          /\ f[x] \in Int /\ e[x] \in Int /\ f[x] <= e[x]
      BY <3>1, <3>2, SumInt, SumSplit DEF IntegersOn
    <3>4. SumFunctionOnSet(f, s \ {x}) <= SumFunctionOnSet(e, s \ {x})
      BY <1>1, <3>1
    <3> QED
      BY <3>3, <3>4
  <2> QED
    BY <2>1, <2>2
<1>2. SUBSET S \subseteq G
  <2> HIDE DEF G
  <2> QED
    BY <1>1, BySize
<1> QED
  BY <1>2

\* A sum of natural numbers is one, and grows with the set.
THEOREM SumNat ==
  ASSUME NEW S, IsFiniteSet(S), NEW f, \A x \in S : f[x] \in Nat
  PROVE  SumFunctionOnSet(f, S) \in Nat
<1> DEFINE G == {s \in SUBSET S : SumFunctionOnSet(f, s) \in Nat}
<1>1. ASSUME NEW s \in SUBSET S, \A x \in s : s \ {x} \in G PROVE s \in G
  <2>1. CASE s = {}
    BY <2>1, SumEmpty
  <2>2. CASE s # {}
    <3>1. PICK x \in s : TRUE
      BY <2>2
    <3>2. IsFiniteSet(s) /\ IntegersOn(f, s)
      BY FS_Subset DEF IntegersOn
    <3>3. SumFunctionOnSet(f, s) = SumFunctionOnSet(f, s \ {x}) + f[x]
      BY <3>1, <3>2, SumSplit
    <3>4. SumFunctionOnSet(f, s \ {x}) \in Nat /\ f[x] \in Nat
      BY <1>1, <3>1
    <3> QED
      BY <3>3, <3>4
  <2> QED
    BY <2>1, <2>2
<1>2. SUBSET S \subseteq G
  <2> HIDE DEF G
  <2> QED
    BY <1>1, BySize
<1> QED
  BY <1>2

\* A sum of natural numbers grows with the set.
THEOREM SumGrows ==
  ASSUME NEW S, IsFiniteSet(S), NEW f, \A x \in S : f[x] \in Nat,
         NEW T \in SUBSET S
  PROVE  SumFunctionOnSet(f, T) <= SumFunctionOnSet(f, S)
<1> DEFINE G == {s \in SUBSET S : \A r \in SUBSET s :
                                   SumFunctionOnSet(f, r) <= SumFunctionOnSet(f, s)}
<1>1. ASSUME NEW s \in SUBSET S, \A x \in s : s \ {x} \in G,
             NEW r \in SUBSET s
      PROVE  SumFunctionOnSet(f, r) <= SumFunctionOnSet(f, s)
  <2>0. ASSUME NEW q \in SUBSET S PROVE SumFunctionOnSet(f, q) \in Nat
    BY SumNat, FS_Subset
  <2>1. CASE r = s
    BY <2>0, <2>1
  <2>2. CASE r # s
    <3>1. PICK x \in s : x \notin r
      BY <2>2
    <3>2. IsFiniteSet(s) /\ IntegersOn(f, s)
      BY FS_Subset DEF IntegersOn
    <3>3. SumFunctionOnSet(f, s) = SumFunctionOnSet(f, s \ {x}) + f[x]
      BY <3>1, <3>2, SumSplit
    <3>4. SumFunctionOnSet(f, r) <= SumFunctionOnSet(f, s \ {x})
      BY <1>1, <3>1
    <3> QED
      BY <2>0, <3>3, <3>4
  <2> QED
    BY <2>1, <2>2
<1>2. SUBSET S \subseteq G
  <2>1. \A s \in SUBSET S : (\A x \in s : s \ {x} \in G) => s \in G
    BY <1>1
  <2> HIDE DEF G
  <2> QED
    BY <2>1, BySize
<1> QED
  BY <1>2

\* A sum of numbers that are each at most c is at most c for each of them.
THEOREM SumBounded ==
  ASSUME NEW S, IsFiniteSet(S), NEW f, NEW c \in Nat,
         \A x \in S : f[x] \in Nat /\ f[x] <= c
  PROVE  SumFunctionOnSet(f, S) <= Cardinality(S) * c
<1> DEFINE G == {s \in SUBSET S : SumFunctionOnSet(f, s) <= Cardinality(s) * c}
<1>1. ASSUME NEW s \in SUBSET S, \A x \in s : s \ {x} \in G PROVE s \in G
  <2>1. CASE s = {}
    BY <2>1, SumEmpty, FS_EmptySet
  <2>2. CASE s # {}
    <3>1. PICK x \in s : TRUE
      BY <2>2
    <3>2. IsFiniteSet(s) /\ IntegersOn(f, s)
      BY FS_Subset DEF IntegersOn
    <3>3. SumFunctionOnSet(f, s) = SumFunctionOnSet(f, s \ {x}) + f[x]
      BY <3>1, <3>2, SumSplit
    <3>4. /\ SumFunctionOnSet(f, s \ {x}) <= Cardinality(s \ {x}) * c
          /\ f[x] \in Nat /\ f[x] <= c
      BY <1>1, <3>1
    <3>5. /\ SumFunctionOnSet(f, s \ {x}) \in Nat
          /\ Cardinality(s) \in Nat /\ Cardinality(s \ {x}) \in Nat
          /\ Cardinality(s \ {x}) + 1 = Cardinality(s)
      BY <3>1, <3>2, Smaller, SumNat, FS_Subset
    <3>6. Cardinality(s) * c = Cardinality(s \ {x}) * c + c
      BY <3>5
    <3> QED
      BY <3>3, <3>4, <3>5, <3>6
  <2> QED
    BY <2>1, <2>2
<1>2. SUBSET S \subseteq G
  <2> HIDE DEF G
  <2> QED
    BY <1>1, BySize
<1> QED
  BY <1>2
=============================================================================
