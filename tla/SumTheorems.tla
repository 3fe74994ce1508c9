---------------------------- MODULE SumTheorems ----------------------------
(***************************************************************************)
(* Sums of integer functions over finite sets (SumFunctionOnSet of module   *)
(* Functions): what the theorems about counted units rest on.  Induction on  *)
(* the size of a set is an argument by a least counterexample (LeastNumber).  *)
(***************************************************************************)
EXTENDS Integers, FiniteSets, Functions, FiniteSetTheorems, WellFoundedInduction, TLAPS

NatOrder == {pair \in Nat \X Nat : pair[1] < pair[2]}

\* Every nonempty set of natural numbers has a least element.
LEMMA LeastNumber ==
  ASSUME NEW T, T \subseteq Nat, T # {}
  PROVE  \E n \in T : \A m \in T : n <= m
<1>1. IsWellFoundedOn(NatOrder, Nat)
  BY NatLessThanWellFounded DEF OpToRel, NatOrder
<1>2. PICK n \in T : \A m \in T : ~ (<<m, n>> \in NatOrder)
  BY <1>1, WFMin
<1>3. \A m \in T : ~ (m < n)
  BY <1>2 DEF NatOrder
<1>. QED  BY <1>3

\* A set of sizes that holds 0, and n whenever it holds all smaller sizes, holds
\* every size.
LEMMA SizeInduction ==
  ASSUME NEW Good, \A n \in Nat : (\A m \in Nat : m < n => m \in Good) => n \in Good
  PROVE  Nat \subseteq Good
<1> DEFINE Bad == Nat \ Good
<1> SUFFICES ASSUME Bad # {} PROVE FALSE
  OBVIOUS
<1>1. PICK n \in Bad : \A m \in Bad : n <= m
  BY LeastNumber
<1>2. \A m \in Nat : m < n => m \in Good
  BY <1>1
<1>. QED  BY <1>1, <1>2

---------------------------------------------------------------------------
Pick(s) == CHOOSE x \in s : TRUE

\* The element a fold takes first, and the set it is left with.
LEMMA PickRest ==
  ASSUME NEW S, IsFiniteSet(S), S # {}
  PROVE  /\ Pick(S) \in S /\ IsFiniteSet(S \ {Pick(S)})
         /\ \A x \in S : /\ IsFiniteSet(S \ {x})
                         /\ Cardinality(S \ {x}) \in Nat
                         /\ Cardinality(S \ {x}) < Cardinality(S)
         /\ Cardinality(S) \in Nat
<1>1. Pick(S) \in S
  BY DEF Pick
<1>2. Cardinality(S) \in Nat
  BY FS_CardinalityType
<1>3. ASSUME NEW x \in S
      PROVE  IsFiniteSet(S \ {x}) /\ Cardinality(S \ {x}) = Cardinality(S) - 1
  BY FS_RemoveElement
<1>4. ASSUME NEW x \in S PROVE Cardinality(S \ {x}) \in Nat
  BY <1>3, FS_CardinalityType
<1>. QED  BY <1>1, <1>2, <1>3, <1>4

\* g computes the sums of f over the subsets of S.
Sums(g, f, S) ==
  g = [s \in SUBSET S |-> IF s = {} THEN 0 ELSE f[Pick(s)] + g[s \ {Pick(s)}]]

\* ... and the sums over those with at most n elements.
SumsUpTo(g, f, S, n) ==
  \A s \in SUBSET S : Cardinality(s) <= n =>
      g[s] = IF s = {} THEN 0 ELSE f[Pick(s)] + g[s \ {Pick(s)}]

\* The recursive definition of a sum has a solution, with integer values.
LEMMA SumsExist ==
  ASSUME NEW S, IsFiniteSet(S), NEW f \in [S -> Int]
  PROVE  \E g \in [SUBSET S -> Int] : Sums(g, f, S)
<1> DEFINE Good == {n \in Nat : \E g \in [SUBSET S -> Int] : SumsUpTo(g, f, S, n)}
<1>0. \A s \in SUBSET S : IsFiniteSet(s) /\ Cardinality(s) \in Nat /\ Cardinality(s) <= Cardinality(S)
  BY FS_Subset, FS_CardinalityType
<1>1. ASSUME NEW n \in Nat, \A m \in Nat : m < n => m \in Good
      PROVE  n \in Good
  <2>1. PICK h \in [SUBSET S -> Int] : n > 0 => SumsUpTo(h, f, S, n - 1)
    <3>1. CASE n = 0
      <4>1. [s \in SUBSET S |-> 0] \in [SUBSET S -> Int]
        OBVIOUS
      <4>2. ~(n > 0)
        BY <3>1
      <4>. QED  BY <4>1, <4>2
    <3>2. CASE n # 0
      <4>1. n - 1 \in Nat /\ n - 1 < n
        BY <3>2
      <4>2. n - 1 \in Good
        BY <1>1, <4>1
      <4>. QED  BY <4>2
    <3>. QED  BY <3>1, <3>2
  <2> DEFINE g == [s \in SUBSET S |-> IF s = {} THEN 0 ELSE f[Pick(s)] + h[s \ {Pick(s)}]]
  <2>2. g \in [SUBSET S -> Int]
    <3>1. ASSUME NEW s \in SUBSET S, s # {} PROVE f[Pick(s)] + h[s \ {Pick(s)}] \in Int
      <4>1. Pick(s) \in S /\ s \ {Pick(s)} \in SUBSET S
        BY <3>1 DEF Pick
      <4>2. f[Pick(s)] \in Int /\ h[s \ {Pick(s)}] \in Int
        BY <4>1
      <4>. QED  BY <4>2
    <3>. QED  BY <3>1
  <2>3. ASSUME NEW s \in SUBSET S, s # {}, Cardinality(s) <= n
        PROVE  g[s] = f[Pick(s)] + g[s \ {Pick(s)}]
    <3> DEFINE rest == s \ {Pick(s)}
    <3>1. rest \in SUBSET S /\ Cardinality(rest) \in Nat /\ Cardinality(rest) < Cardinality(s)
      BY <1>0, <2>3, PickRest
    <3>2. n > 0 /\ Cardinality(rest) <= n - 1
      BY <1>0, <2>3, <3>1
    <3>3. g[rest] = h[rest]
      BY <2>1, <3>1, <3>2 DEF SumsUpTo
    <3>4. g[s] = f[Pick(s)] + h[rest]
      BY <2>3
    <3>. QED  BY <3>3, <3>4
  <2>4. g[{}] = 0
    OBVIOUS
  <2>. HIDE DEF g
  <2>5. SumsUpTo(g, f, S, n)
    BY <2>3, <2>4 DEF SumsUpTo
  <2>. QED  BY <2>2, <2>5
<1>. HIDE DEF Good
<1>2. Nat \subseteq Good
  BY <1>1, SizeInduction
<1>3. Cardinality(S) \in Good
  BY <1>0, <1>2
<1>4. PICK g \in [SUBSET S -> Int] : SumsUpTo(g, f, S, Cardinality(S))
  BY <1>3 DEF Good
<1>5. Sums(g, f, S)
  BY <1>0, <1>4 DEF SumsUpTo, Sums
<1>. QED  BY <1>5

\* Two solutions for functions that agree on a set give it the same sum.
LEMMA SumsAgree ==
  ASSUME NEW S, NEW f, NEW g, Sums(g, f, S),
         NEW R, NEW e, NEW h, Sums(h, e, R),
         NEW s, IsFiniteSet(s), s \subseteq S, s \subseteq R, \A x \in s : f[x] = e[x]
  PROVE  g[s] = h[s]
<1> DEFINE Good == {n \in Nat : \A u \in SUBSET s : Cardinality(u) = n => g[u] = h[u]}
<1>1. ASSUME NEW n \in Nat, \A m \in Nat : m < n => m \in Good
      PROVE  n \in Good
  <2> SUFFICES ASSUME NEW u \in SUBSET s, Cardinality(u) = n PROVE g[u] = h[u]
    OBVIOUS
  <2>1. u \in SUBSET S /\ u \in SUBSET R
    OBVIOUS
  <2>2. CASE u = {}
    BY <2>1, <2>2 DEF Sums
  <2>3. CASE u # {}
    <3> DEFINE rest == u \ {Pick(u)}
    <3>1. IsFiniteSet(u)
      BY FS_Subset
    <3>2. Pick(u) \in s /\ rest \in SUBSET s /\ Cardinality(rest) \in Nat /\ Cardinality(rest) < n
      BY <2>3, <3>1, PickRest
    <3>3. g[rest] = h[rest]
      <4>1. Cardinality(rest) \in Good
        BY <1>1, <3>2
      <4>. QED  BY <3>2, <4>1
    <3>4. g[u] = f[Pick(u)] + g[rest] /\ h[u] = e[Pick(u)] + h[rest]
      BY <2>1, <2>3 DEF Sums
    <3>. QED  BY <3>2, <3>3, <3>4
  <2>. QED  BY <2>2, <2>3
<1>. HIDE DEF Good
<1>2. Nat \subseteq Good
  BY <1>1, SizeInduction
<1>3. Cardinality(s) \in Good
  BY <1>2, FS_CardinalityType
<1>. QED  BY <1>3 DEF Good

\* The solution the fold chooses.
LEMMA SumIsSolution ==
  ASSUME NEW S, IsFiniteSet(S), NEW f, NEW R, S \subseteq R, f \in [R -> Int]
  PROVE  \E g : Sums(g, f, S) /\ SumFunctionOnSet(f, S) = g[S]
<1> DEFINE k == [x \in S |-> f[x]]
<1>1. PICK h \in [SUBSET S -> Int] : Sums(h, k, S)
  BY SumsExist
<1>2. Sums(h, f, S)
  <2>1. \A s \in SUBSET S : s # {} => k[Pick(s)] = f[Pick(s)]
    BY DEF Pick
  <2>. HIDE DEF k
  <2>. QED  BY <1>1, <2>1 DEF Sums
<1> DEFINE g == CHOOSE g : Sums(g, f, S)
<1>3. Sums(g, f, S)
  BY <1>2
<1>4. SumFunctionOnSet(f, S) = g[S]
  BY DEF SumFunctionOnSet, FoldFunctionOnSet, MapThenFoldSet, Pick, Sums
<1>. QED  BY <1>3, <1>4

---------------------------------------------------------------------------
\* A sum of integers is an integer, and the empty sum is 0.
LEMMA SumInt ==
  ASSUME NEW S, IsFiniteSet(S), NEW R, S \subseteq R, NEW f \in [R -> Int]
  PROVE  SumFunctionOnSet(f, S) \in Int /\ (S = {} => SumFunctionOnSet(f, S) = 0)
<1> DEFINE k == [x \in S |-> f[x]]
<1>1. PICK g : Sums(g, f, S) /\ SumFunctionOnSet(f, S) = g[S]
  BY SumIsSolution
<1>2. PICK h \in [SUBSET S -> Int] : Sums(h, k, S)
  BY SumsExist
<1>3. \A x \in S : f[x] = k[x]
  OBVIOUS
<1>. HIDE DEF k
<1>4. g[S] = h[S]
  BY <1>1, <1>2, <1>3, SumsAgree
<1>5. S = {} => g[S] = 0
  BY <1>1 DEF Sums
<1>. QED  BY <1>1, <1>2, <1>4, <1>5

\* A sum depends on the values of its elements only.
LEMMA SumSame ==
  ASSUME NEW S, IsFiniteSet(S),
         NEW R, S \subseteq R, NEW f \in [R -> Int],
         NEW T, S \subseteq T, NEW e \in [T -> Int],
         \A x \in S : f[x] = e[x]
  PROVE  SumFunctionOnSet(f, S) = SumFunctionOnSet(e, S)
<1>1. PICK g : Sums(g, f, S) /\ SumFunctionOnSet(f, S) = g[S]
  BY SumIsSolution
<1>2. PICK h : Sums(h, e, S) /\ SumFunctionOnSet(e, S) = h[S]
  BY SumIsSolution
<1>. QED  BY <1>1, <1>2, SumsAgree

\* The recursion, one element at a time.
LEMMA SumPick ==
  ASSUME NEW S, IsFiniteSet(S), S # {}, NEW R, S \subseteq R, NEW f \in [R -> Int]
  PROVE  SumFunctionOnSet(f, S) = f[Pick(S)] + SumFunctionOnSet(f, S \ {Pick(S)})
<1> DEFINE rest == S \ {Pick(S)}
<1>1. PICK g : Sums(g, f, S) /\ SumFunctionOnSet(f, S) = g[S]
  BY SumIsSolution
<1>2. IsFiniteSet(rest) /\ rest \subseteq R /\ rest \subseteq S
  BY PickRest
<1>3. PICK h : Sums(h, f, rest) /\ SumFunctionOnSet(f, rest) = h[rest]
  BY <1>2, SumIsSolution
<1>4. g[rest] = h[rest]
  BY <1>1, <1>2, <1>3, SumsAgree
<1>5. g[S] = f[Pick(S)] + g[rest]
  BY <1>1 DEF Sums
<1>. QED  BY <1>1, <1>3, <1>4, <1>5

\* The order in which a sum takes its elements does not matter.
LEMMA SumRemove ==
  ASSUME NEW S, IsFiniteSet(S), NEW R, S \subseteq R, NEW f \in [R -> Int], NEW y \in S
  PROVE  SumFunctionOnSet(f, S) = f[y] + SumFunctionOnSet(f, S \ {y})
<1> DEFINE Sum(u) == SumFunctionOnSet(f, u)
<1> DEFINE Good == {n \in Nat : \A u \in SUBSET S : Cardinality(u) = n =>
                                   \A x \in u : Sum(u) = f[x] + Sum(u \ {x})}
<1>0. ASSUME NEW u \in SUBSET S
      PROVE  /\ IsFiniteSet(u) /\ Sum(u) \in Int
             /\ u # {} => Sum(u) = f[Pick(u)] + Sum(u \ {Pick(u)})
  <2>1. IsFiniteSet(u) /\ u \subseteq R
    BY FS_Subset
  <2>. QED  BY <2>1, SumInt, SumPick
<1>. HIDE DEF Sum
<1>1. ASSUME NEW n \in Nat, \A m \in Nat : m < n => m \in Good
      PROVE  n \in Good
  <2> SUFFICES ASSUME NEW u \in SUBSET S, Cardinality(u) = n, NEW x \in u
               PROVE  Sum(u) = f[x] + Sum(u \ {x})
    OBVIOUS
  <2> DEFINE p == Pick(u)
  <2>1. p \in u /\ Sum(u) = f[p] + Sum(u \ {p}) /\ IsFiniteSet(u)
    BY <1>0, PickRest
  <2>2. CASE x = p
    BY <2>1, <2>2
  <2>3. CASE x # p
    <3>1. ASSUME NEW v \in SUBSET u, v # u, NEW z \in v
          PROVE  Sum(v) = f[z] + Sum(v \ {z})
      <4>1. PICK w \in u : w \notin v
        BY <3>1
      <4>2. v \in SUBSET (u \ {w}) /\ IsFiniteSet(u \ {w}) /\ Cardinality(u \ {w}) < n
            /\ Cardinality(u \ {w}) \in Nat
        BY <2>1, <4>1, PickRest
      <4>3. Cardinality(v) \in Nat /\ Cardinality(v) <= Cardinality(u \ {w})
        BY <4>2, FS_Subset, FS_CardinalityType
      <4>4. Cardinality(v) \in Good
        BY <1>1, <4>2, <4>3
      <4>. QED  BY <3>1, <4>4
    <3>2. Sum(u \ {p}) = f[x] + Sum((u \ {p}) \ {x})
      BY <2>1, <2>3, <3>1
    <3>3. Sum(u \ {x}) = f[p] + Sum((u \ {x}) \ {p})
      BY <2>1, <2>3, <3>1
    <3>4. (u \ {p}) \ {x} = (u \ {x}) \ {p}
      OBVIOUS
    <3>5. f[p] \in Int /\ f[x] \in Int /\ Sum((u \ {x}) \ {p}) \in Int
      <4>1. p \in R /\ x \in R
        BY <2>1
      <4>. QED  BY <1>0, <4>1
    <3> DEFINE rest == Sum((u \ {x}) \ {p})
    <3>6. Sum(u) = f[p] + (f[x] + rest)
      BY <2>1, <3>2, <3>4
    <3>7. Sum(u \ {x}) = f[p] + rest
      BY <3>3
    <3>. HIDE DEF p, rest
    <3>. QED  BY <3>5, <3>6, <3>7 DEF rest
  <2>. QED  BY <2>2, <2>3
<1>. HIDE DEF Good
<1>2. Nat \subseteq Good
  BY <1>1, SizeInduction
<1>3. Cardinality(S) \in Good
  BY <1>2, FS_CardinalityType
<1>. QED  BY <1>3 DEF Good, Sum

\* Two functions that differ at one point only have sums that differ by as much.
LEMMA SumChange ==
  ASSUME NEW S, IsFiniteSet(S), NEW f \in [S -> Int], NEW g \in [S -> Int], NEW y \in S,
         \A x \in S \ {y} : g[x] = f[x]
  PROVE  SumFunctionOnSet(g, S) = SumFunctionOnSet(f, S) - f[y] + g[y]
<1>1. IsFiniteSet(S \ {y})
  BY FS_RemoveElement
<1>2. SumFunctionOnSet(g, S \ {y}) = SumFunctionOnSet(f, S \ {y})
  BY <1>1, SumSame
<1>3. /\ SumFunctionOnSet(f, S) = f[y] + SumFunctionOnSet(f, S \ {y})
      /\ SumFunctionOnSet(g, S) = g[y] + SumFunctionOnSet(g, S \ {y})
  BY SumRemove
<1>4. SumFunctionOnSet(f, S \ {y}) \in Int /\ f[y] \in Int /\ g[y] \in Int
  BY <1>1, SumInt
<1>. QED  BY <1>2, <1>3, <1>4

\* A sum of natural numbers is a natural number, and at least each of them.
LEMMA SumNat ==
  ASSUME NEW S, IsFiniteSet(S), NEW R, S \subseteq R, NEW f \in [R -> Int], \A x \in S : f[x] >= 0
  PROVE  SumFunctionOnSet(f, S) \in Nat /\ \A x \in S : f[x] <= SumFunctionOnSet(f, S)
<1> DEFINE Sum(u) == SumFunctionOnSet(f, u)
<1> DEFINE Good == {n \in Nat : \A u \in SUBSET S : Cardinality(u) = n => Sum(u) \in Nat}
<1>0. ASSUME NEW u \in SUBSET S
      PROVE  /\ IsFiniteSet(u) /\ Sum(u) \in Int /\ (u = {} => Sum(u) = 0)
             /\ \A x \in u : Sum(u) = f[x] + Sum(u \ {x})
  <2>1. IsFiniteSet(u) /\ u \subseteq R
    BY FS_Subset
  <2>. QED  BY <2>1, SumInt, SumRemove
<1>. HIDE DEF Sum
<1>1. ASSUME NEW n \in Nat, \A m \in Nat : m < n => m \in Good
      PROVE  n \in Good
  <2> SUFFICES ASSUME NEW u \in SUBSET S, Cardinality(u) = n, NEW x \in u PROVE Sum(u) \in Nat
    BY <1>0
  <2>1. Cardinality(u \ {x}) \in Nat /\ Cardinality(u \ {x}) < n
    BY <1>0, PickRest
  <2>2. Sum(u \ {x}) \in Nat
    <3>1. Cardinality(u \ {x}) \in Good
      BY <1>1, <2>1
    <3>. QED  BY <3>1
  <2>3. Sum(u) = f[x] + Sum(u \ {x}) /\ f[x] \in Int /\ f[x] >= 0
    BY <1>0
  <2>. QED  BY <2>2, <2>3
<1>2. Nat \subseteq Good
  <2>. HIDE DEF Good
  <2>. QED  BY <1>1, SizeInduction
<1>3. ASSUME NEW u \in SUBSET S PROVE Sum(u) \in Nat
  <2>1. Cardinality(u) \in Nat
    BY <1>0, FS_CardinalityType
  <2>. QED  BY <1>2, <2>1
<1>4. ASSUME NEW x \in S PROVE f[x] <= Sum(S)
  <2>1. Sum(S) = f[x] + Sum(S \ {x}) /\ Sum(S \ {x}) \in Nat /\ f[x] \in Int
    BY <1>0, <1>3
  <2>. QED  BY <2>1
<1>. QED  BY <1>3, <1>4 DEF Sum

\* A sum of zeros is 0.
LEMMA SumZero ==
  ASSUME NEW S, IsFiniteSet(S), NEW f \in [S -> Int], \A x \in S : f[x] = 0
  PROVE  SumFunctionOnSet(f, S) = 0
<1> DEFINE g == [s \in SUBSET S |-> 0]
<1>1. Sums(g, f, S)
  BY DEF Sums, Pick
<1>2. PICK h : Sums(h, f, S) /\ SumFunctionOnSet(f, S) = h[S]
  BY SumIsSolution
<1>3. g[S] = 0
  OBVIOUS
<1>. HIDE DEF g
<1>4. g[S] = h[S]
  BY <1>1, <1>2, SumsAgree
<1>. QED  BY <1>2, <1>3, <1>4
=============================================================================
