----------------------------- MODULE FoldProofs -----------------------------
(***************************************************************************)
(* Facts about the library's sums over finite sets (Functions), and about   *)
(* extremes, shares and averages, which the proofs about coins, voting      *)
(* power and prices rest on.  The summands are a function f, so that the    *)
(* facts are first order; induction is over a set of subsets, from the      *)
(* minimal counterexample that WFMin gives.                                 *)
(***************************************************************************)
EXTENDS Laws, TLAPS, FiniteSetTheorems, WellFoundedInduction

\* Leaves are first-order set reasoning unless they cite SMT for arithmetic.
USE Zenon

\* The strict subsets of a finite set are well founded.
LEMMA SubsetsWellFounded ==
    ASSUME NEW S, IsFiniteSet(S)
    PROVE  IsWellFoundedOn(StrictSubsetOrdering(S), SUBSET S)
<1>1. FiniteSubsetsOf(S) = SUBSET S
  BY FS_FiniteSubsetsOfFinite
<1>2. QED
  BY <1>1, FS_StrictSubsetOrderingWellFounded

\* Every family of subsets of a finite set has a minimal member.
LEMMA MinimalSubset ==
    ASSUME NEW S, IsFiniteSet(S), NEW B, B \subseteq SUBSET S, B # {}
    PROVE  \E s \in B : \A t \in B : <<t, s>> \notin StrictSubsetOrdering(S)
  BY SubsetsWellFounded, WFMin

\* Induction over the subsets of a finite set, for a property given as a set T.
LEMMA SubsetInduction ==
    ASSUME NEW S, IsFiniteSet(S), NEW T,
           \A s \in SUBSET S : (\A t \in SUBSET s : t # s => t \in T) => s \in T
    PROVE  SUBSET S \subseteq T
<1> DEFINE Bad == (SUBSET S) \ T
<1> SUFFICES ASSUME Bad # {} PROVE FALSE
  OBVIOUS
<1>1. Bad \subseteq SUBSET S
  OBVIOUS
<1>2. PICK s \in Bad : \A t \in Bad : <<t, s>> \notin StrictSubsetOrdering(S)
  <2> HIDE DEF Bad
  <2> QED
    BY <1>1, MinimalSubset
<1>3. ASSUME NEW t \in SUBSET s, t # s PROVE t \in T
  BY <1>2, <1>3 DEF StrictSubsetOrdering
<1>4. QED
  BY <1>2, <1>3

\* The element that the library's sums take from a set.
Pick(s) == CHOOSE x \in s : TRUE

\* The element that a sum takes first.
LEMMA PickIn == ASSUME NEW s, s # {} PROVE Pick(s) \in s
  BY DEF Pick

\* The body of the library's recursion, and the functions that satisfy it.
Rec(f, g, s) == IF s = {} THEN 0 ELSE f[Pick(s)] + g[s \ {Pick(s)}]

Adds(f, S, g) == g = [s \in SUBSET S |-> Rec(f, g, s)]

\* SumFunctionOnSet, unfolded to the recursive function it chooses.
LEMMA SumUnfold ==
    ASSUME NEW f, NEW S
    PROVE  SumFunctionOnSet(f, S) = (CHOOSE g : Adds(f, S, g))[S]
  BY DEF SumFunctionOnSet, FoldFunctionOnSet, MapThenFoldSet, Pick, Rec, Adds

\* Two functions that satisfy the recursion agree where both are defined.
LEMMA AddsUnique ==
    ASSUME NEW f, NEW u, IsFiniteSet(u), NEW w,
           NEW g, Adds(f, u, g), NEW h, Adds(f, w, h), NEW s, s \subseteq u, s \subseteq w
    PROVE  g[s] = h[s]
<1> DEFINE U == u \cap w
           T == {t \in SUBSET U : g[t] = h[t]}
<1>1. ASSUME NEW t \in SUBSET U, \A r \in SUBSET t : r # t => r \in T
      PROVE  t \in T
  <2>1. g[t] = Rec(f, g, t) /\ h[t] = Rec(f, h, t)
    BY DEF Adds
  <2>2. t # {} => g[t \ {Pick(t)}] = h[t \ {Pick(t)}]
    BY <1>1, PickIn
  <2>3. QED
    BY <2>1, <2>2 DEF Rec
<1>2. IsFiniteSet(U)
  BY FS_Subset
<1>3. SUBSET U \subseteq T
  <2> HIDE DEF T, U
  <2> QED
    BY <1>1, <1>2, SubsetInduction
<1>4. QED
  BY <1>3

\* The recursion has a solution on every finite set of integers.
LEMMA AddsExists ==
    ASSUME NEW S, IsFiniteSet(S), NEW f, \A x \in S : f[x] \in Int
    PROVE  \E g \in [SUBSET S -> Int] : Adds(f, S, g)
<1> DEFINE T == {s \in SUBSET S : \E g \in [SUBSET s -> Int] : Adds(f, s, g)}
           G(s) == CHOOSE g : g \in [SUBSET s -> Int] /\ Adds(f, s, g)
           F(s) == G(s)[s]
<1>1. ASSUME NEW s \in T
      PROVE  G(s) \in [SUBSET s -> Int] /\ Adds(f, s, G(s)) /\ F(s) \in Int
  <2>1. \E g : g \in [SUBSET s -> Int] /\ Adds(f, s, g)
    OBVIOUS
  <2>2. G(s) \in [SUBSET s -> Int] /\ Adds(f, s, G(s))
    BY <2>1
  <2>3. QED
    BY <2>2
<1>2. ASSUME NEW s \in T, s # {}, s \ {Pick(s)} \in T
      PROVE  F(s) = f[Pick(s)] + F(s \ {Pick(s)})
  <2> DEFINE r == s \ {Pick(s)}
  <2>1. /\ Adds(f, s, G(s)) /\ Adds(f, r, G(r))
        /\ IsFiniteSet(s) /\ r \subseteq s /\ r \subseteq r
    BY <1>1, <1>2, FS_Subset
  <2> HIDE DEF G, T
  <2>2. G(s)[r] = G(r)[r]
    <3> HIDE DEF r
    <3> QED BY <2>1, AddsUnique, SMT
  <2>3. G(s)[s] = Rec(f, G(s), s)
    BY <2>1 DEF Adds
  <2>4. QED
    BY <1>2, <2>2, <2>3 DEF Rec
<1>3. ASSUME NEW s \in SUBSET S, \A t \in SUBSET s : t # s => t \in T
      PROVE  s \in T
  <2> DEFINE r == s \ {Pick(s)}
             new == IF s = {} THEN 0 ELSE f[Pick(s)] + F(r)
             h == [t \in SUBSET s |-> IF t = s THEN new ELSE F(t)]
  <2> HIDE DEF G, T
  <2>1. new \in Int
    <3>1. CASE s # {}
      <4>1. Pick(s) \in s /\ r \in SUBSET s /\ r # s
        BY <3>1, PickIn
      <4>2. F(r) \in Int
        BY <1>1, <1>3, <4>1
      <4>3. QED
        BY <4>1, <4>2, SMT
    <3>2. QED
      BY <3>1, SMT
  <2>2. \A t \in SUBSET s : t # s => F(t) \in Int
    BY <1>1, <1>3
  <2> HIDE DEF F
  <2>3. h \in [SUBSET s -> Int]
    BY <2>1, <2>2
  <2>4. ASSUME NEW t \in SUBSET s PROVE h[t] = Rec(f, h, t)
    <3>1. CASE t = {}
      <4>1. CASE s = {}
        BY <3>1, <4>1 DEF Rec
      <4>2. CASE s # {}
        <5>1. {} \in T /\ h[t] = F({})
          BY <1>3, <3>1, <4>2
        <5>2. Adds(f, {}, G({}))
          BY <1>1, <5>1
        <5>3. F({}) = 0
          BY <5>2 DEF Adds, Rec, F
        <5>4. QED
          BY <3>1, <5>1, <5>3 DEF Rec
      <4>3. QED
        BY <4>1, <4>2
    <3>2. CASE t # {}
      <4>1. t \ {Pick(t)} \in SUBSET s /\ t \ {Pick(t)} # s
        BY <3>2, PickIn
      <4>2. h[t \ {Pick(t)}] = F(t \ {Pick(t)}) /\ t \ {Pick(t)} \in T
        BY <1>3, <4>1
      <4>3. h[t] = f[Pick(t)] + F(t \ {Pick(t)})
        <5>1. CASE t = s
          BY <3>2, <5>1
        <5>2. CASE t # s
          <6>1. t \in T /\ h[t] = F(t)
            BY <1>3, <5>2
          <6>2. QED
            BY <1>2, <3>2, <4>2, <6>1
        <5>3. QED
          BY <5>1, <5>2
      <4>4. QED
        BY <3>2, <4>2, <4>3 DEF Rec
    <3>3. QED
      BY <3>1, <3>2
  <2>5. Adds(f, s, h)
    BY <2>4 DEF Adds
  <2>6. QED
    BY <2>3, <2>5 DEF T
<1> HIDE DEF T, G
<1>4. SUBSET S \subseteq T
  BY <1>3, SubsetInduction
<1>5. QED
  BY <1>4 DEF T

\* A sum over a finite set is an integer and satisfies its recursion.
LEMMA SumRecursive ==
    ASSUME NEW S, IsFiniteSet(S), NEW f, \A x \in S : f[x] \in Int
    PROVE  /\ SumFunctionOnSet(f, S) \in Int
           /\ S = {} => SumFunctionOnSet(f, S) = 0
           /\ S # {} => SumFunctionOnSet(f, S)
                          = f[Pick(S)] + SumFunctionOnSet(f, S \ {Pick(S)})
<1> DEFINE G(s) == CHOOSE g : Adds(f, s, g)
<1>1. ASSUME NEW s \in SUBSET S
      PROVE  Adds(f, s, G(s)) /\ G(s)[s] \in Int /\ SumFunctionOnSet(f, s) = G(s)[s]
  <2>1. PICK h \in [SUBSET s -> Int] : Adds(f, s, h)
    BY AddsExists, FS_Subset
  <2>2. Adds(f, s, G(s))
    BY <2>1
  <2> HIDE DEF G
  <2>3. G(s)[s] = h[s]
    BY <2>1, <2>2, FS_Subset, AddsUnique, SMT
  <2>4. SumFunctionOnSet(f, s) = G(s)[s]
    BY SumUnfold DEF G
  <2>5. QED
    BY <2>1, <2>2, <2>3, <2>4
<1> HIDE DEF G
<1>2. G(S)[S] = Rec(f, G(S), S)
  BY <1>1 DEF Adds
<1>3. ASSUME S # {} PROVE G(S)[S \ {Pick(S)}] = G(S \ {Pick(S)})[S \ {Pick(S)}]
  <2> DEFINE r == S \ {Pick(S)}
  <2>1. r \in SUBSET S /\ r \subseteq S /\ r \subseteq r /\ S \in SUBSET S
    OBVIOUS
  <2>2. Adds(f, S, G(S)) /\ Adds(f, r, G(r))
    BY <1>1, <2>1
  <2> HIDE DEF r
  <2>3. G(S)[r] = G(r)[r]
    BY <2>1, <2>2, AddsUnique, SMT
  <2>4. QED
    BY <2>3 DEF r
<1>4. QED
  BY <1>1, <1>2, <1>3 DEF Rec

\* A sum of integers is an integer.
LEMMA SumType ==
    ASSUME NEW S, IsFiniteSet(S), NEW f, \A x \in S : f[x] \in Int
    PROVE  SumFunctionOnSet(f, S) \in Int
  BY SumRecursive

\* The empty sum.
LEMMA SumEmpty ==
    ASSUME NEW f
    PROVE  SumFunctionOnSet(f, {}) = 0
  BY SumRecursive, FS_EmptySet

\* A sum is independent of the order in which it is taken.
LEMMA SumRemove ==
    ASSUME NEW S, IsFiniteSet(S), NEW f, \A x \in S : f[x] \in Int, NEW x \in S
    PROVE  SumFunctionOnSet(f, S) = f[x] + SumFunctionOnSet(f, S \ {x})
<1> DEFINE Sum(s) == SumFunctionOnSet(f, s)
           T == {s \in SUBSET S : \A y \in s : Sum(s) = f[y] + Sum(s \ {y})}
<1>1. \A s \in SUBSET S : IsFiniteSet(s) /\ Sum(s) \in Int
  BY FS_Subset, SumType
<1>2. \A s \in SUBSET S : s # {} => Sum(s) = f[Pick(s)] + Sum(s \ {Pick(s)})
  BY <1>1, SumRecursive
<1>3. ASSUME NEW s \in SUBSET S, \A t \in SUBSET s : t # s => t \in T
      PROVE  s \in T
  <2> SUFFICES ASSUME NEW y \in s PROVE Sum(s) = f[y] + Sum(s \ {y})
    OBVIOUS
  <2> DEFINE z == Pick(s)
  <2>1. z \in s /\ Sum(s) = f[z] + Sum(s \ {z})
    BY <1>2, PickIn
  <2>2. CASE y # z
    <3>1. Sum(s \ {z}) = f[y] + Sum((s \ {z}) \ {y})
      BY <1>3, <2>1, <2>2
    <3>2. Sum(s \ {y}) = f[z] + Sum((s \ {y}) \ {z})
      BY <1>3, <2>1, <2>2
    <3>3. Sum((s \ {z}) \ {y}) = Sum((s \ {y}) \ {z})
      <4>1. (s \ {z}) \ {y} = (s \ {y}) \ {z}
        OBVIOUS
      <4>2. QED
        BY <4>1
    <3> DEFINE a == Sum((s \ {y}) \ {z})
               b == Sum(s \ {y})
               c == Sum(s \ {z})
               d == Sum(s)
    <3>4. f[y] \in Int /\ f[z] \in Int /\ a \in Int
      BY <1>1, <2>1
    <3>5. d = f[z] + c /\ c = f[y] + a /\ b = f[z] + a
      BY <2>1, <3>1, <3>2, <3>3
    <3> HIDE DEF a, b, c, d
    <3>6. d = f[y] + b
      BY <3>4, <3>5, SMT
    <3>7. QED
      BY <3>6 DEF b, d
  <2>3. QED
    BY <2>1, <2>2
<1>4. SUBSET S \subseteq T
  <2> HIDE DEF T
  <2> QED
    BY <1>3, SubsetInduction
<1>5. QED
  BY <1>4

\* Only the values on the set count.
LEMMA SumSame ==
    ASSUME NEW S, IsFiniteSet(S), NEW f, NEW g, \A x \in S : f[x] \in Int /\ f[x] = g[x]
    PROVE  SumFunctionOnSet(f, S) = SumFunctionOnSet(g, S)
<1> DEFINE T == {s \in SUBSET S : SumFunctionOnSet(f, s) = SumFunctionOnSet(g, s)}
<1>1. ASSUME NEW s \in SUBSET S, \A t \in SUBSET s : t # s => t \in T
      PROVE  s \in T
  <2>1. IsFiniteSet(s)
    BY FS_Subset
  <2>2. CASE s = {}
    BY <2>2, SumEmpty
  <2>3. CASE s # {}
    <3>1. PICK x : x \in s
      BY <2>3
    <3>2. SumFunctionOnSet(f, s) = f[x] + SumFunctionOnSet(f, s \ {x})
      BY <2>1, <3>1, SumRemove
    <3>3. SumFunctionOnSet(g, s) = g[x] + SumFunctionOnSet(g, s \ {x})
      BY <2>1, <3>1, SumRemove
    <3>4. QED
      BY <1>1, <3>1, <3>2, <3>3
  <2>4. QED
    BY <2>2, <2>3
<1>2. SUBSET S \subseteq T
  <2> HIDE DEF T
  <2> QED
    BY <1>1, SubsetInduction
<1>3. QED
  BY <1>2

\* One more element.
LEMMA SumInsert ==
    ASSUME NEW S, IsFiniteSet(S), NEW f, NEW x, x \notin S, \A y \in S \cup {x} : f[y] \in Int
    PROVE  SumFunctionOnSet(f, S \cup {x}) = f[x] + SumFunctionOnSet(f, S)
<1>1. IsFiniteSet(S \cup {x}) /\ (S \cup {x}) \ {x} = S
  BY FS_AddElement
<1>2. QED
  BY <1>1, SumRemove, SMT

\* One value changes.
LEMMA SumUpdate ==
    ASSUME NEW S, IsFiniteSet(S), NEW f, NEW g, \A y \in S : f[y] \in Int /\ g[y] \in Int,
           NEW x \in S, \A y \in S : y # x => g[y] = f[y]
    PROVE  SumFunctionOnSet(g, S) = SumFunctionOnSet(f, S) - f[x] + g[x]
<1>1. SumFunctionOnSet(f, S) = f[x] + SumFunctionOnSet(f, S \ {x})
  BY SumRemove
<1>2. SumFunctionOnSet(g, S) = g[x] + SumFunctionOnSet(g, S \ {x})
  BY SumRemove
<1>3. IsFiniteSet(S \ {x})
  BY FS_Subset
<1>4. SumFunctionOnSet(f, S \ {x}) = SumFunctionOnSet(g, S \ {x})
  BY <1>3, SumSame
<1>5. SumFunctionOnSet(f, S \ {x}) \in Int
  BY <1>3, SumType
<1>6. QED
  BY <1>1, <1>2, <1>4, <1>5, SMT

\* Smaller values have a smaller sum.
LEMMA SumMonotone ==
    ASSUME NEW S, IsFiniteSet(S), NEW f, NEW g,
           \A x \in S : f[x] \in Int /\ g[x] \in Int /\ f[x] <= g[x]
    PROVE  SumFunctionOnSet(f, S) <= SumFunctionOnSet(g, S)
<1> DEFINE T == {s \in SUBSET S : SumFunctionOnSet(f, s) <= SumFunctionOnSet(g, s)}
<1>1. ASSUME NEW s \in SUBSET S, \A t \in SUBSET s : t # s => t \in T
      PROVE  s \in T
  <2>1. IsFiniteSet(s)
    BY FS_Subset
  <2>2. CASE s = {}
    BY <2>2, SumEmpty, SMT
  <2>3. CASE s # {}
    <3>1. PICK x : x \in s
      BY <2>3
    <3> DEFINE r == s \ {x}
    <3>2. SumFunctionOnSet(f, s) = f[x] + SumFunctionOnSet(f, r)
      BY <2>1, <3>1, SumRemove
    <3>3. SumFunctionOnSet(g, s) = g[x] + SumFunctionOnSet(g, r)
      BY <2>1, <3>1, SumRemove
    <3>4. SumFunctionOnSet(f, r) \in Int /\ SumFunctionOnSet(g, r) \in Int
      BY <2>1, FS_Subset, SumType
    <3>5. SumFunctionOnSet(f, r) <= SumFunctionOnSet(g, r)
      BY <1>1, <3>1
    <3> HIDE DEF r
    <3>6. QED
      BY <3>1, <3>2, <3>3, <3>4, <3>5, SMT
  <2>4. QED
    BY <2>2, <2>3
<1>2. SUBSET S \subseteq T
  <2> HIDE DEF T
  <2> QED
    BY <1>1, SubsetInduction
<1>3. QED
  BY <1>2

\* The sum of sums.
LEMMA SumAdd ==
    ASSUME NEW S, IsFiniteSet(S), NEW f, NEW g, NEW h,
           \A x \in S : f[x] \in Int /\ g[x] \in Int /\ h[x] = f[x] + g[x]
    PROVE  SumFunctionOnSet(h, S) = SumFunctionOnSet(f, S) + SumFunctionOnSet(g, S)
<1> DEFINE T == {s \in SUBSET S :
                   SumFunctionOnSet(h, s) = SumFunctionOnSet(f, s) + SumFunctionOnSet(g, s)}
<1>1. ASSUME NEW s \in SUBSET S, \A t \in SUBSET s : t # s => t \in T
      PROVE  s \in T
  <2>1. IsFiniteSet(s) /\ \A x \in s : h[x] \in Int
    BY FS_Subset, SMT
  <2>2. CASE s = {}
    BY <2>2, SumEmpty, SMT
  <2>3. CASE s # {}
    <3>1. PICK x : x \in s
      BY <2>3
    <3> DEFINE r == s \ {x}
    <3>2. SumFunctionOnSet(f, s) = f[x] + SumFunctionOnSet(f, r)
      BY <2>1, <3>1, SumRemove
    <3>3. SumFunctionOnSet(g, s) = g[x] + SumFunctionOnSet(g, r)
      BY <2>1, <3>1, SumRemove
    <3>4. SumFunctionOnSet(h, s) = h[x] + SumFunctionOnSet(h, r)
      BY <2>1, <3>1, SumRemove
    <3>5. SumFunctionOnSet(f, r) \in Int /\ SumFunctionOnSet(g, r) \in Int
      BY <2>1, FS_Subset, SumType
    <3>6. SumFunctionOnSet(h, r) = SumFunctionOnSet(f, r) + SumFunctionOnSet(g, r)
      BY <1>1, <3>1
    <3> HIDE DEF r
    <3>7. QED
      BY <3>1, <3>2, <3>3, <3>4, <3>5, <3>6, SMT
  <2>4. QED
    BY <2>2, <2>3
<1>2. SUBSET S \subseteq T
  <2> HIDE DEF T
  <2> QED
    BY <1>1, SubsetInduction
<1>3. QED
  BY <1>2

\* The sum of multiples.
LEMMA SumScale ==
    ASSUME NEW S, IsFiniteSet(S), NEW f, NEW h, NEW c \in Int,
           \A x \in S : f[x] \in Int /\ h[x] = c * f[x]
    PROVE  SumFunctionOnSet(h, S) = c * SumFunctionOnSet(f, S)
<1> DEFINE T == {s \in SUBSET S : SumFunctionOnSet(h, s) = c * SumFunctionOnSet(f, s)}
<1>1. ASSUME NEW s \in SUBSET S, \A t \in SUBSET s : t # s => t \in T
      PROVE  s \in T
  <2>1. IsFiniteSet(s) /\ \A x \in s : h[x] \in Int
    BY FS_Subset, SMT
  <2>2. CASE s = {}
    BY <2>2, SumEmpty, SMT
  <2>3. CASE s # {}
    <3>1. PICK x : x \in s
      BY <2>3
    <3> DEFINE r == s \ {x}
    <3>2. SumFunctionOnSet(f, s) = f[x] + SumFunctionOnSet(f, r)
      BY <2>1, <3>1, SumRemove
    <3>3. SumFunctionOnSet(h, s) = h[x] + SumFunctionOnSet(h, r)
      BY <2>1, <3>1, SumRemove
    <3>4. SumFunctionOnSet(f, r) \in Int
      BY <2>1, FS_Subset, SumType
    <3>5. SumFunctionOnSet(h, r) = c * SumFunctionOnSet(f, r)
      BY <1>1, <3>1
    <3> HIDE DEF r
    <3>6. QED
      BY <3>1, <3>2, <3>3, <3>4, <3>5, SMT
  <2>4. QED
    BY <2>2, <2>3
<1>2. SUBSET S \subseteq T
  <2> HIDE DEF T
  <2> QED
    BY <1>1, SubsetInduction
<1>3. QED
  BY <1>2

\* The sum over disjoint sets.
LEMMA SumUnion ==
    ASSUME NEW S, IsFiniteSet(S), NEW R, IsFiniteSet(R), S \cap R = {},
           NEW f, \A x \in S \cup R : f[x] \in Int
    PROVE  SumFunctionOnSet(f, S \cup R) = SumFunctionOnSet(f, S) + SumFunctionOnSet(f, R)
<1> DEFINE T == {s \in SUBSET S :
                   SumFunctionOnSet(f, s \cup R) = SumFunctionOnSet(f, s) + SumFunctionOnSet(f, R)}
<1>0. SumFunctionOnSet(f, R) \in Int
  BY SumType
<1>1. ASSUME NEW s \in SUBSET S, \A t \in SUBSET s : t # s => t \in T
      PROVE  s \in T
  <2>1. IsFiniteSet(s) /\ IsFiniteSet(s \cup R)
    BY FS_Subset, FS_Union
  <2>2. CASE s = {}
    <3>1. s \cup R = R
      BY <2>2
    <3>2. QED
      BY <1>0, <2>2, <3>1, SumEmpty, SMT
  <2>3. CASE s # {}
    <3>1. PICK x : x \in s
      BY <2>3
    <3> DEFINE r == s \ {x}
    <3>2. SumFunctionOnSet(f, s) = f[x] + SumFunctionOnSet(f, r)
      BY <2>1, <3>1, SumRemove
    <3>3. SumFunctionOnSet(f, s \cup R) = f[x] + SumFunctionOnSet(f, r \cup R)
      <4>1. (s \cup R) \ {x} = r \cup R
        BY <3>1
      <4>2. QED
        BY <2>1, <3>1, <4>1, SumRemove, SMT
    <3>4. SumFunctionOnSet(f, r) \in Int
      BY <2>1, FS_Subset, SumType
    <3>5. SumFunctionOnSet(f, r \cup R) = SumFunctionOnSet(f, r) + SumFunctionOnSet(f, R)
      BY <1>1, <3>1
    <3> HIDE DEF r
    <3>6. QED
      BY <1>0, <3>1, <3>2, <3>3, <3>4, <3>5, SMT
  <2>4. QED
    BY <2>2, <2>3
<1>2. SUBSET S \subseteq T
  <2> HIDE DEF T
  <2> QED
    BY <1>1, SubsetInduction
<1>3. QED
  BY <1>2

\* The sum of nothing but zeros.
LEMMA SumZero ==
    ASSUME NEW S, IsFiniteSet(S), NEW f, \A x \in S : f[x] = 0
    PROVE  SumFunctionOnSet(f, S) = 0
<1>1. \A x \in S : f[x] \in Int /\ f[x] = 0 * f[x]
  BY SMT
<1>2. SumFunctionOnSet(f, S) = 0 * SumFunctionOnSet(f, S) /\ SumFunctionOnSet(f, S) \in Int
  BY <1>1, SumScale, SumType, SMT
<1>3. QED
  BY <1>2, SMT

\* The sum of natural numbers is one.
LEMMA SumNat ==
    ASSUME NEW S, IsFiniteSet(S), NEW f, \A x \in S : f[x] \in Nat
    PROVE  SumFunctionOnSet(f, S) \in Nat
<1> DEFINE z == [x \in S |-> 0]
<1>1. \A x \in S : z[x] = 0 /\ z[x] \in Int /\ f[x] \in Int /\ z[x] <= f[x]
  BY SMT
<1> HIDE DEF z
<1>2. SumFunctionOnSet(z, S) = 0 /\ SumFunctionOnSet(z, S) <= SumFunctionOnSet(f, S)
  BY <1>1, SumZero, SumMonotone
<1>3. SumFunctionOnSet(f, S) \in Int
  BY SumType, SMT
<1>4. QED
  BY <1>2, <1>3, SMT

\* Natural numbers over fewer elements have a smaller sum.
LEMMA SumSubset ==
    ASSUME NEW S, IsFiniteSet(S), NEW R \in SUBSET S, NEW f, \A x \in S : f[x] \in Nat
    PROVE  SumFunctionOnSet(f, R) <= SumFunctionOnSet(f, S)
<1>1. IsFiniteSet(R) /\ IsFiniteSet(S \ R) /\ R \cap (S \ R) = {} /\ R \cup (S \ R) = S
  BY FS_Subset
<1>2. SumFunctionOnSet(f, S) = SumFunctionOnSet(f, R) + SumFunctionOnSet(f, S \ R)
  BY <1>1, SumUnion, SMT
<1>3. SumFunctionOnSet(f, R) \in Nat /\ SumFunctionOnSet(f, S \ R) \in Nat
  BY <1>1, SumNat
<1>4. QED
  BY <1>2, <1>3, SMT

\* One of several natural numbers is at most their sum.
LEMMA SumElement ==
    ASSUME NEW S, IsFiniteSet(S), NEW f, \A x \in S : f[x] \in Nat, NEW x \in S
    PROVE  f[x] <= SumFunctionOnSet(f, S)
<1>1. IsFiniteSet(S \ {x})
  BY FS_Subset
<1>2. SumFunctionOnSet(f, S) = f[x] + SumFunctionOnSet(f, S \ {x})
  BY SumRemove, SMT
<1>3. SumFunctionOnSet(f, S \ {x}) \in Nat
  BY <1>1, SumNat
<1>4. QED
  BY <1>2, <1>3, SMT

\* An amount moves from one element to another.
LEMMA SumMove ==
    ASSUME NEW S, IsFiniteSet(S), NEW f, NEW g, \A z \in S : f[z] \in Int /\ g[z] \in Int,
           NEW x \in S, NEW y \in S, x # y, NEW n \in Int,
           g[x] = f[x] - n, g[y] = f[y] + n, \A z \in S : z # x /\ z # y => g[z] = f[z]
    PROVE  SumFunctionOnSet(g, S) = SumFunctionOnSet(f, S)
<1> DEFINE h == [z \in S |-> IF z = x THEN g[z] ELSE f[z]]
<1>1. \A z \in S : h[z] \in Int /\ (z # x => h[z] = f[z]) /\ (z # y => g[z] = h[z])
  OBVIOUS
<1>2. h[x] = g[x] /\ h[y] = f[y]
  OBVIOUS
<1> HIDE DEF h
<1>3. SumFunctionOnSet(h, S) = SumFunctionOnSet(f, S) - f[x] + h[x]
  BY <1>1, SumUpdate, SMT
<1>4. SumFunctionOnSet(g, S) = SumFunctionOnSet(h, S) - h[y] + g[y]
  BY <1>1, SumUpdate, SMT
<1>5. SumFunctionOnSet(f, S) \in Int
  BY SumType
<1>6. QED
  BY <1>2, <1>3, <1>4, <1>5, SMT

-----------------------------------------------------------------------------
\* A finite set of integers has a greatest and a least element, and the library's Max and
\* Min choose them.
LEMMA MaxOfFinite ==
    ASSUME NEW S \in SUBSET Int, IsFiniteSet(S), S # {}
    PROVE  Max(S) \in S /\ \A y \in S : Max(S) >= y
<1> DEFINE T == {s \in SUBSET S : s # {} => \E x \in s : \A y \in s : x >= y}
<1>1. ASSUME NEW s \in SUBSET S, \A t \in SUBSET s : t # s => t \in T
      PROVE  s \in T
  <2> SUFFICES ASSUME s # {} PROVE \E x \in s : \A y \in s : x >= y
    OBVIOUS
  <2>1. PICK z : z \in s
    OBVIOUS
  <2>2. CASE s \ {z} = {}
    BY <2>1, <2>2, SMT
  <2>3. CASE s \ {z} # {}
    <3>1. PICK x \in s \ {z} : \A y \in s \ {z} : x >= y
      <4>1. s \ {z} \in T
        BY <1>1, <2>1
      <4>2. QED
        BY <2>3, <4>1
    <3>2. x \in Int /\ z \in Int /\ s \subseteq Int
      BY <2>1
    <3>3. CASE x >= z
      BY <3>1, <3>3
    <3>4. CASE z >= x
      <4>1. \A y \in s : z >= y
        BY <3>1, <3>2, <3>4, SMT
      <4>2. QED
        BY <2>1, <4>1
    <3>5. QED
      BY <3>2, <3>3, <3>4, SMT
  <2>4. QED
    BY <2>2, <2>3
<1>2. SUBSET S \subseteq T
  <2> HIDE DEF T
  <2> QED
    BY <1>1, SubsetInduction
<1>3. \E x \in S : \A y \in S : x >= y
  BY <1>2
<1>4. QED
  BY <1>3 DEF Max

LEMMA MinOfFinite ==
    ASSUME NEW S \in SUBSET Int, IsFiniteSet(S), S # {}
    PROVE  Min(S) \in S /\ \A y \in S : Min(S) <= y
<1> DEFINE T == {s \in SUBSET S : s # {} => \E x \in s : \A y \in s : x <= y}
<1>1. ASSUME NEW s \in SUBSET S, \A t \in SUBSET s : t # s => t \in T
      PROVE  s \in T
  <2> SUFFICES ASSUME s # {} PROVE \E x \in s : \A y \in s : x <= y
    OBVIOUS
  <2>1. PICK z : z \in s
    OBVIOUS
  <2>2. CASE s \ {z} = {}
    BY <2>1, <2>2, SMT
  <2>3. CASE s \ {z} # {}
    <3>1. PICK x \in s \ {z} : \A y \in s \ {z} : x <= y
      <4>1. s \ {z} \in T
        BY <1>1, <2>1
      <4>2. QED
        BY <2>3, <4>1
    <3>2. x \in Int /\ z \in Int /\ s \subseteq Int
      BY <2>1
    <3>3. CASE x <= z
      BY <3>1, <3>3
    <3>4. CASE z <= x
      <4>1. \A y \in s : z <= y
        BY <3>1, <3>2, <3>4, SMT
      <4>2. QED
        BY <2>1, <4>1
    <3>5. QED
      BY <3>2, <3>3, <3>4, SMT
  <2>4. QED
    BY <2>2, <2>3
<1>2. SUBSET S \subseteq T
  <2> HIDE DEF T
  <2> QED
    BY <1>1, SubsetInduction
<1>3. \E x \in S : \A y \in S : x <= y
  BY <1>2
<1>4. QED
  BY <1>3 DEF Min

\* The images of a finite set are finite.
LEMMA ImageFinite ==
    ASSUME NEW S, IsFiniteSet(S), NEW f
    PROVE  IsFiniteSet({f[x] : x \in S})
<1> DEFINE T == {f[x] : x \in S}
           g == [x \in S |-> f[x]]
<1>1. g \in Surjection(S, T)
  BY DEF Surjection
<1> HIDE DEF g, T
<1>2. IsFiniteSet(T)
  BY <1>1, FS_Surjection
<1>3. QED
  BY <1>2 DEF T

-----------------------------------------------------------------------------
\* Division rounds down.
LEMMA DivBounds ==
    ASSUME NEW n \in Nat, NEW d \in Nat \ {0}
    PROVE  n \div d \in Nat /\ d * (n \div d) <= n /\ n < d * (n \div d) + d
<1>1. n \div d \in Int /\ n % d \in 0..(d - 1) /\ n = d * (n \div d) + (n % d)
  BY SMT
<1>2. n \div d \in Nat
  BY SMT
<1>3. d * (n \div d) \in Int
  BY <1>2, SMT
<1>4. QED
  BY <1>1, <1>2, <1>3, SMT

LEMMA Cancel ==
    ASSUME NEW c \in Nat \ {0}, NEW a \in Int, NEW b \in Int, c * a <= c * b
    PROVE  a <= b
  BY SMT

\* Shares that are rounded down never exceed the whole.
LEMMA SharesWithin ==
    ASSUME NEW S, IsFiniteSet(S), NEW f, NEW g, NEW c \in Nat \ {0}, NEW n \in Nat,
           \A x \in S : f[x] \in Nat /\ g[x] \in Nat /\ c * g[x] <= f[x],
           SumFunctionOnSet(f, S) <= c * n
    PROVE  SumFunctionOnSet(g, S) <= n
<1> DEFINE h == [x \in S |-> c * g[x]]
           a == SumFunctionOnSet(g, S)
           b == SumFunctionOnSet(f, S)
<1>1. \A x \in S : g[x] \in Int /\ h[x] = c * g[x] /\ h[x] \in Int /\ f[x] \in Int /\ h[x] <= f[x]
  BY SMT
<1> HIDE DEF h
<1>2. SumFunctionOnSet(h, S) = c * a
  BY <1>1, SumScale, SMT
<1>3. SumFunctionOnSet(h, S) <= b
  BY <1>1, SumMonotone
<1>4. a \in Int /\ b \in Int
  BY <1>1, SumType
<1> HIDE DEF a, b
<1>5. c * a <= c * n
  <2>1. c * a \in Int /\ c * n \in Int
    BY <1>4, SMT
  <2>2. c * a <= b /\ b <= c * n
    BY <1>2, <1>3 DEF b
  <2>3. QED
    BY <1>4, <2>1, <2>2, SMT
<1>6. a <= n
  BY <1>4, <1>5, Cancel, SMT
<1>7. QED
  BY <1>6 DEF a

-----------------------------------------------------------------------------
\* Portions in proportion to weights, in fixed-point arithmetic of some precision, are within the
\* whole although each is rounded on its own, twice.
LEMMA PortionsWithin ==
    ASSUME NEW act, IsFiniteSet(act), NEW w, \A v \in act : w[v] \in Nat, NEW coins \in Nat,
           NEW precision \in Nat \ {0},
           NEW total, total = SumFunctionOnSet(w, act), total # 0,
           NEW share, \A v \in act : share[v] = (coins * ((w[v] * precision) \div total)) \div precision
    PROVE  SumFunctionOnSet(share, act) \in Nat /\ SumFunctionOnSet(share, act) <= coins
<1> DEFINE scaled == [v \in act |-> precision * w[v]]
           part == [v \in act |-> (w[v] * precision) \div total]
           gross == [v \in act |-> coins * part[v]]
<1>1. precision \in Nat \ {0}
  OBVIOUS
<1>2. total \in Nat \ {0}
  BY SumNat
<1>3. SumFunctionOnSet(part, act) <= precision
  <2>1. \A v \in act : w[v] \in Int /\ scaled[v] = precision * w[v]
    BY SMT
  <2>2. \A v \in act : scaled[v] \in Nat /\ part[v] \in Nat /\ total * part[v] <= scaled[v]
    <3> TAKE v \in act
    <3>1. scaled[v] \in Nat /\ scaled[v] = w[v] * precision
      BY <1>1, SMT
    <3>2. part[v] = scaled[v] \div total
      BY <3>1
    <3> HIDE DEF scaled, part
    <3>3. QED
      BY <1>2, <3>1, <3>2, DivBounds
  <2> HIDE DEF scaled, part
  <2>3. SumFunctionOnSet(scaled, act) = precision * total
    <3>1. precision \in Int
      BY <1>1, SMT
    <3>2. QED
      BY <2>1, <3>1, SumScale
  <2>4. SumFunctionOnSet(scaled, act) <= total * precision
    BY <1>1, <1>2, <2>3, SMT
  <2>5. QED
    BY <1>1, <1>2, <2>2, <2>4, SharesWithin
<1>4. \A v \in act : part[v] \in Nat
  <2> TAKE v \in act
  <2>1. w[v] * precision \in Nat
    BY <1>1, SMT
  <2>2. QED
    BY <1>2, <2>1, DivBounds
<1> HIDE DEF part
<1>5. \A v \in act : gross[v] \in Nat /\ gross[v] = coins * part[v] /\ part[v] \in Int
  BY <1>4, SMT
<1>6. \A v \in act : share[v] \in Nat /\ precision * share[v] <= gross[v]
  <2> TAKE v \in act
  <2>1. share[v] = gross[v] \div precision
    BY DEF part
  <2> HIDE DEF gross
  <2>2. QED
    BY <1>1, <1>5, <2>1, DivBounds
<1> HIDE DEF gross
<1>7. SumFunctionOnSet(gross, act) <= precision * coins
  <2> DEFINE q == SumFunctionOnSet(part, act)
  <2>1. SumFunctionOnSet(gross, act) = coins * q
    <3>1. coins \in Int /\ \A v \in act : part[v] \in Int /\ gross[v] = coins * part[v]
      BY <1>5, SMT
    <3>2. QED
      BY <3>1, SumScale
  <2>2. q \in Nat
    BY <1>4, SumNat
  <2>3. q <= precision
    BY <1>3
  <2> HIDE DEF q
  <2>4. coins * q <= coins * precision
    BY <1>1, <2>2, <2>3, SMT
  <2>5. coins * precision = precision * coins
    BY <1>1, SMT
  <2>6. QED
    BY <2>1, <2>4, <2>5
<1>8. QED
  BY <1>1, <1>5, <1>6, <1>7, SharesWithin, SumNat

-----------------------------------------------------------------------------
(* Averages over time.                                                      *)

\* The end of the time for which a value of time t counts, in a window s that ends at h.
NextTime(s, h, t) == Min({u \in s \cup {h} : u > t} \cup {h})
Gaps(s, h) == [t \in s |-> NextTime(s, h, t) - t]

LEMMA NextTimeIs ==
    ASSUME NEW h \in Int, NEW s \in SUBSET Int, IsFiniteSet(s), NEW t \in Int, t <= h
    PROVE  /\ NextTime(s, h, t) \in {u \in s \cup {h} : u > t} \cup {h}
           /\ \A u \in s : u > t => NextTime(s, h, t) <= u
           /\ NextTime(s, h, t) \in Int /\ NextTime(s, h, t) >= t
           /\ NextTime(s, h, t) <= h
<1> DEFINE later == {u \in s \cup {h} : u > t} \cup {h}
<1>1. later \in SUBSET (s \cup {h}) /\ later \in SUBSET Int /\ later # {}
  OBVIOUS
<1>2. IsFiniteSet(later)
  <2> HIDE DEF later
  <2>1. IsFiniteSet(s \cup {h})
    BY FS_AddElement
  <2>2. QED
    BY <1>1, <2>1, FS_Subset
<1>3. Min(later) \in later /\ \A u \in later : Min(later) <= u
  <2> HIDE DEF later
  <2> QED BY <1>1, <1>2, MinOfFinite
<1> DEFINE m == Min(later)
<1>4. m \in later /\ \A u \in later : m <= u
  BY <1>3
<1> HIDE DEF m
<1>5. m \in later /\ (\A u \in s : u > t => m <= u) /\ m \in Int /\ m >= t /\ m <= h
  BY <1>4, SMT
<1>6. QED
  BY <1>5 DEF m, NextTime

\* Without its first time a window has the same gaps, and the first gap ends where it begins.
LEMMA FirstGap ==
    ASSUME NEW h \in Int, NEW s \in SUBSET Int, IsFiniteSet(s), s # {}, \A t \in s : t <= h
    PROVE  LET m == Min(s)
               r == s \ {m}
           IN  /\ m \in s /\ IsFiniteSet(r)
               /\ \A t \in r : NextTime(r, h, t) = NextTime(s, h, t)
               /\ NextTime(s, h, m) = IF r = {} THEN h ELSE Min(r)
<1> DEFINE m == Min(s)
           r == s \ {m}
<1>1. m \in s /\ \A t \in s : m <= t
  BY MinOfFinite
<1>2. IsFiniteSet(r)
  BY FS_Subset
<1> HIDE DEF m
<1>3. ASSUME NEW t \in r PROVE NextTime(r, h, t) = NextTime(s, h, t)
  <2>1. {u \in r \cup {h} : u > t} \cup {h} = {u \in s \cup {h} : u > t} \cup {h}
    BY <1>1, SMT
  <2>2. QED
    BY <2>1 DEF NextTime
<1>4. NextTime(s, h, m) = IF r = {} THEN h ELSE Min(r)
  <2> DEFINE n == NextTime(s, h, m)
  <2>1. /\ n \in {u \in s \cup {h} : u > m} \cup {h}
        /\ \A u \in s : u > m => n <= u
        /\ n \in Int /\ n <= h
    BY <1>1, NextTimeIs
  <2> HIDE DEF n
  <2>2. CASE r = {}
    BY <1>1, <2>1, <2>2, SMT DEF n
  <2>3. CASE r # {}
    <3>1. Min(r) \in r /\ \A u \in r : Min(r) <= u
      <4>1. r \in SUBSET Int
        OBVIOUS
      <4> HIDE DEF r
      <4>2. QED
        BY <1>2, <2>3, <4>1, MinOfFinite
    <3> DEFINE k == Min(r)
    <3>2. k \in r /\ \A u \in r : k <= u
      BY <3>1
    <3> HIDE DEF k
    <3>3. k \in Int /\ k > m /\ k <= h /\ k \in s
      BY <1>1, <3>2, SMT
    <3>4. n <= k
      BY <2>1, <3>3
    <3>5. n \in r \/ n = h
      BY <1>1, <2>1, SMT
    <3>6. k <= n
      BY <3>2, <3>3, <3>5
    <3>7. n = k
      BY <2>1, <3>3, <3>4, <3>6, SMT
    <3>8. QED
      BY <2>3, <3>7 DEF n, k
  <2>4. QED
    BY <2>2, <2>3
<1>5. QED
  BY <1>1, <1>2, <1>3, <1>4 DEF m

LEMMA GapsType ==
    ASSUME NEW h \in Int, NEW s \in SUBSET Int, IsFiniteSet(s), \A t \in s : t <= h
    PROVE  \A t \in s : Gaps(s, h)[t] = NextTime(s, h, t) - t /\ Gaps(s, h)[t] \in Nat
<1> TAKE t \in s
<1>1. NextTime(s, h, t) \in Int /\ NextTime(s, h, t) >= t
  BY NextTimeIs
<1>2. QED
  BY <1>1, SMT DEF Gaps

\* The gaps of a window cover it: nothing is counted twice or left out.
LEMMA GapsCover ==
    ASSUME NEW h \in Int, NEW S \in SUBSET Int, IsFiniteSet(S), S # {}, \A t \in S : t <= h
    PROVE  SumFunctionOnSet(Gaps(S, h), S) = h - Min(S)
<1> DEFINE T == {s \in SUBSET S : s # {} => SumFunctionOnSet(Gaps(s, h), s) = h - Min(s)}
<1>1. ASSUME NEW s \in SUBSET S, \A t \in SUBSET s : t # s => t \in T
      PROVE  s \in T
  <2> SUFFICES ASSUME s # {} PROVE SumFunctionOnSet(Gaps(s, h), s) = h - Min(s)
    OBVIOUS
  <2> DEFINE m == Min(s)
             r == s \ {m}
             rest == SumFunctionOnSet(Gaps(r, h), r)
  <2>1. s \in SUBSET Int /\ IsFiniteSet(s) /\ \A t \in s : t <= h
    BY FS_Subset
  <2>2. /\ m \in s /\ IsFiniteSet(r)
        /\ \A t \in r : NextTime(r, h, t) = NextTime(s, h, t)
        /\ NextTime(s, h, m) = IF r = {} THEN h ELSE Min(r)
    BY <2>1, FirstGap
  <2> HIDE DEF m
  <2>3. r \in SUBSET Int /\ \A t \in r : t <= h
    BY <2>1
  <2>4. /\ \A t \in s : Gaps(s, h)[t] = NextTime(s, h, t) - t /\ Gaps(s, h)[t] \in Nat
        /\ \A t \in r : Gaps(r, h)[t] = NextTime(r, h, t) - t /\ Gaps(r, h)[t] \in Nat
    BY <2>1, <2>2, <2>3, GapsType
  <2>5. SumFunctionOnSet(Gaps(s, h), s) = Gaps(s, h)[m] + SumFunctionOnSet(Gaps(s, h), r)
    <3>1. \A t \in s : Gaps(s, h)[t] \in Int
      BY <2>4, SMT
    <3>2. QED
      BY <2>1, <2>2, <3>1, SumRemove
  <2>6. SumFunctionOnSet(Gaps(s, h), r) = rest
    <3>1. \A t \in r : Gaps(s, h)[t] \in Int /\ Gaps(s, h)[t] = Gaps(r, h)[t]
      BY <2>2, <2>4, SMT
    <3>2. QED
      BY <2>2, <3>1, SumSame
  <2>7. SumFunctionOnSet(Gaps(s, h), s) = (NextTime(s, h, m) - m) + rest
    BY <2>2, <2>4, <2>5, <2>6
  <2>8. CASE r = {}
    <3>1. rest = 0
      BY <2>8, SumEmpty
    <3> HIDE DEF rest, r
    <3>2. SumFunctionOnSet(Gaps(s, h), s) = h - m
      BY <2>1, <2>2, <2>7, <2>8, <3>1, SMT
    <3>3. QED
      BY <3>2 DEF m
  <2>9. CASE r # {}
    <3>1. r \in T
      <4>1. r \in SUBSET s /\ r # s
        BY <2>2
      <4> HIDE DEF T, r
      <4>2. QED
        BY <1>1, <4>1
    <3>2. rest = h - Min(r)
      BY <2>9, <3>1
    <3>3. Min(r) \in Int
      <4> HIDE DEF r, rest
      <4> QED BY <2>2, <2>3, <2>9, MinOfFinite
    <3> HIDE DEF rest, r
    <3>4. SumFunctionOnSet(Gaps(s, h), s) = h - m
      BY <2>1, <2>2, <2>7, <2>9, <3>2, <3>3, SMT
    <3>5. QED
      BY <3>4 DEF m
  <2>10. QED
    BY <2>8, <2>9
<1> HIDE DEF T
<1>2. SUBSET S \subseteq T
  BY <1>1, SubsetInduction
<1>3. S \in T
  BY <1>2
<1>4. QED
  BY <1>3 DEF T

\* A sum weighted by the gaps lies between the extremes.
LEMMA WeightedBetween ==
    ASSUME NEW S, IsFiniteSet(S), NEW gap, NEW price, NEW sum, NEW lo \in Int, NEW hi \in Int,
           \A t \in S : /\ gap[t] \in Nat /\ price[t] \in Int /\ sum[t] = price[t] * gap[t]
                        /\ lo <= price[t] /\ price[t] <= hi
    PROVE  SumFunctionOnSet(sum, S)
             \in (lo * SumFunctionOnSet(gap, S))..(hi * SumFunctionOnSet(gap, S))
<1> DEFINE low == [t \in S |-> lo * gap[t]]
           high == [t \in S |-> hi * gap[t]]
<1>1. \A t \in S : /\ gap[t] \in Int /\ low[t] = lo * gap[t] /\ high[t] = hi * gap[t]
                   /\ low[t] \in Int /\ high[t] \in Int /\ sum[t] \in Int
  BY SMT
<1>2. \A t \in S : low[t] <= sum[t] /\ sum[t] <= high[t]
  <2> TAKE t \in S
  <2> DEFINE g == gap[t]
             p == price[t]
  <2>1. g \in Nat /\ p \in Int /\ lo <= p /\ p <= hi /\ sum[t] = p * g
    OBVIOUS
  <2> HIDE DEF g, p
  <2>2. lo * g <= p * g /\ p * g <= hi * g
    BY <2>1, SMT
  <2>3. QED
    BY <2>1, <2>2 DEF g
<1> HIDE DEF low, high
<1>3. /\ SumFunctionOnSet(low, S) = lo * SumFunctionOnSet(gap, S)
      /\ SumFunctionOnSet(high, S) = hi * SumFunctionOnSet(gap, S)
  BY <1>1, SumScale
<1>4. /\ SumFunctionOnSet(low, S) <= SumFunctionOnSet(sum, S)
      /\ SumFunctionOnSet(sum, S) <= SumFunctionOnSet(high, S)
  BY <1>1, <1>2, SumMonotone
<1>5. /\ SumFunctionOnSet(low, S) \in Int /\ SumFunctionOnSet(sum, S) \in Int
      /\ SumFunctionOnSet(high, S) \in Int
  BY <1>1, SumType
<1>6. QED
  BY <1>3, <1>4, <1>5, SMT

-----------------------------------------------------------------------------
(* Loops over a list *)

\* The last index of a set, and what is left of an initial segment without it.
LEMMA LastIndex ==
    ASSUME NEW n \in Nat, NEW s \in SUBSET (1..n), s # {}
    PROVE  Max(s) \in s /\ Max(s) \in 1..n /\ IsFiniteSet(s)
<1>1. IsFiniteSet(1..n)
  BY FS_Interval, SMT
<1>2. IsFiniteSet(s)
  BY <1>1, FS_Subset
<1>3. s \in SUBSET Int
  BY SMT
<1>4. QED
  BY <1>2, <1>3, MaxOfFinite

LEMMA LastOfSegment ==
    ASSUME NEW n \in Nat, NEW i \in 1..n
    PROVE  /\ 1..i \in SUBSET (1..n) /\ 1..i # {} /\ i \in 0..n /\ i - 1 \in 0..n
           /\ Max(1..i) = i /\ (1..i) \ {Max(1..i)} = 1..(i - 1)
<1>1. 1..i \in SUBSET (1..n) /\ 1..i # {} /\ 1..i \in SUBSET Int /\ i \in 1..i
  BY SMT
<1>2. IsFiniteSet(1..i)
  BY FS_Interval, SMT
<1>3. Max(1..i) \in 1..i /\ \A y \in 1..i : Max(1..i) >= y
  BY <1>1, <1>2, MaxOfFinite
<1>4. Max(1..i) = i
  BY <1>1, <1>3, SMT
<1>5. QED
  BY <1>1, <1>4, SMT

\* Induction along a loop, for a property given as a set.
LEMMA LoopInduction ==
    ASSUME NEW n \in Nat, NEW T, 0 \in T, \A i \in 1..n : i - 1 \in T => i \in T
    PROVE  \A i \in 0..n : i \in T
<1> DEFINE Bad == {i \in 0..n : i \notin T}
<1> SUFFICES ASSUME Bad # {} PROVE FALSE
  OBVIOUS
<1>1. IsFiniteSet(Bad) /\ Bad \in SUBSET Int
  <2>1. IsFiniteSet(0..n) /\ Bad \in SUBSET (0..n)
    BY FS_Interval, SMT
  <2>2. IsFiniteSet(Bad)
    <3> HIDE DEF Bad
    <3> QED BY <2>1, FS_Subset
  <2> QED BY <2>2, SMT
<1>2. Min(Bad) \in Bad /\ \A y \in Bad : Min(Bad) <= y
  <2> HIDE DEF Bad
  <2> QED BY <1>1, MinOfFinite
<1>3. Min(Bad) \in 1..n /\ Min(Bad) - 1 \in 0..n /\ Min(Bad) - 1 \notin Bad
  <2> DEFINE m == Min(Bad)
  <2>1. m \in 0..n /\ m \notin T /\ \A y \in Bad : m <= y
    BY <1>2
  <2> HIDE DEF m
  <2>2. m \in 1..n /\ m - 1 \in 0..n
    BY <2>1, SMT
  <2>3. m - 1 \notin Bad
    BY <2>1, <2>2, SMT
  <2>4. QED
    BY <2>2, <2>3 DEF m
<1>4. QED
  BY <1>2, <1>3

\* The functions that satisfy it on the subsets of u.
Loops(F, b, A, g, u) ==
    g \in [SUBSET u -> A] /\ \A s \in SUBSET u : g[s] = LoopRec(F, b, g, s)

\* Two of them agree where both are defined.
LEMMA LoopsAgree ==
    ASSUME NEW F, NEW b, NEW A, NEW u, IsFiniteSet(u),
           \A t \in SUBSET u : t # {} => Max(t) \in t, NEW w,
           NEW g, Loops(F, b, A, g, u), NEW h, Loops(F, b, A, h, w),
           NEW s, s \subseteq u, s \subseteq w
    PROVE  g[s] = h[s]
<1> DEFINE V == u \cap w
           E == {t \in SUBSET V : g[t] = h[t]}
<1>1. ASSUME NEW t \in SUBSET V, \A r \in SUBSET t : r # t => r \in E
      PROVE  t \in E
  <2>1. g[t] = LoopRec(F, b, g, t) /\ h[t] = LoopRec(F, b, h, t)
    BY DEF Loops
  <2>2. t # {} => Max(t) \in t
    OBVIOUS
  <2>3. t # {} => g[t \ {Max(t)}] = h[t \ {Max(t)}]
    BY <1>1, <2>2
  <2>4. QED
    BY <2>1, <2>3 DEF LoopRec
<1>2. IsFiniteSet(V)
  BY FS_Subset
<1>3. SUBSET V \subseteq E
  <2> HIDE DEF E, V
  <2> QED
    BY <1>1, <1>2, SubsetInduction
<1>4. QED
  BY <1>3

\* Then it has a solution.
LEMMA LoopExists ==
    ASSUME NEW S, IsFiniteSet(S), \A t \in SUBSET S : t # {} => Max(t) \in t,
           NEW A, NEW b \in A, NEW F, StaysIn(F, A, S)
    PROVE  \E g : Solves(F, b, A, S, g)
<1> DEFINE Sol(g, u) == Loops(F, b, A, g, u)
           T == {u \in SUBSET S : \E g : Sol(g, u)}
           G(u) == CHOOSE g : Sol(g, u)
<1>3. ASSUME NEW u \in T PROVE Sol(G(u), u)
  <2>1. \E g : Sol(g, u)
    OBVIOUS
  <2> HIDE DEF Sol, T
  <2> QED BY <2>1
<1>4. ASSUME NEW u \in SUBSET S, \A t \in SUBSET u : t # u => t \in T
      PROVE  u \in T
  <2> DEFINE v(t) == G(t)[t]
             new == IF u = {} THEN b ELSE F[Max(u)][v(u \ {Max(u)})]
             h == [t \in SUBSET u |-> IF t = u THEN new ELSE v(t)]
  <2>1. ASSUME NEW t \in SUBSET u, t # u
        PROVE  Sol(G(t), t) /\ v(t) \in A /\ v(t) = LoopRec(F, b, G(t), t)
    <3>1. Sol(G(t), t) /\ t \in SUBSET t
      <4> HIDE DEF Sol, G, T
      <4> QED BY <1>3, <1>4, <2>1
    <3> HIDE DEF G
    <3>2. QED
      BY <3>1 DEF Loops
  <2>2. ASSUME NEW t \in SUBSET u, t # u, t # {}
        PROVE  v(t) = F[Max(t)][v(t \ {Max(t)})]
    <3> DEFINE r == t \ {Max(t)}
    <3>1. t \in SUBSET S /\ Max(t) \in t
      BY <2>2
    <3>2. r \in SUBSET u /\ r # u /\ r \in SUBSET S
      BY <3>1
    <3>3. Sol(G(t), t) /\ Sol(G(r), r)
      <4> HIDE DEF Sol, G, r
      <4> QED BY <2>1, <2>2, <3>2
    <3>4. G(t)[r] = G(r)[r]
      <4>1. IsFiniteSet(t)
        BY FS_Subset
      <4>2. r \subseteq t /\ r \subseteq r /\ \A s \in SUBSET t : s # {} => Max(s) \in s
        BY <3>1
      <4> DEFINE f == G(t)
                 g == G(r)
      <4>3. Loops(F, b, A, f, t) /\ Loops(F, b, A, g, r)
        BY <3>3
      <4> HIDE DEF f, g, r
      <4>4. f[r] = g[r]
        BY <4>1, <4>2, <4>3, LoopsAgree, SMT
      <4> QED BY <4>4 DEF f, g
    <3>5. v(t) = LoopRec(F, b, G(t), t)
      BY <2>1, <2>2
    <3> HIDE DEF G, Sol
    <3>6. QED
      BY <2>2, <3>4, <3>5 DEF LoopRec
  <2> HIDE DEF G
  <2>3. new \in A
    <3>1. CASE u = {}
      BY <3>1
    <3>2. CASE u # {}
      <4>1. Max(u) \in u /\ Max(u) \in S
        BY <3>2
      <4>2. v(u \ {Max(u)}) \in A
        <5>1. u \ {Max(u)} \in SUBSET u /\ u \ {Max(u)} # u
          BY <4>1
        <5> HIDE DEF Sol, v
        <5> QED BY <2>1, <5>1
      <4>3. QED
        BY <3>2, <4>1, <4>2 DEF StaysIn
    <3>3. QED
      BY <3>1, <3>2
  <2>4. \A t \in SUBSET u : t # u => v(t) \in A
    <3> HIDE DEF Sol, v
    <3> QED BY <2>1
  <2>5. h \in [SUBSET u -> A]
    <3> HIDE DEF new, v
    <3> QED BY <2>3, <2>4
  <2>6. ASSUME NEW t \in SUBSET u PROVE h[t] = LoopRec(F, b, h, t)
    <3>1. CASE t = {}
      <4>1. CASE u = {}
        BY <3>1, <4>1 DEF LoopRec
      <4>2. CASE u # {}
        <5>1. v(t) = LoopRec(F, b, G(t), t)
          BY <2>1, <3>1, <4>2
        <5>2. h[t] = v(t)
          BY <3>1, <4>2
        <5> QED
          BY <3>1, <5>1, <5>2 DEF LoopRec
      <4>3. QED
        BY <4>1, <4>2
    <3>2. CASE t # {}
      <4>1. t \in SUBSET S /\ Max(t) \in t
        BY <3>2
      <4>2. t \ {Max(t)} \in SUBSET u /\ t \ {Max(t)} # u
        BY <4>1
      <4>3. h[t \ {Max(t)}] = v(t \ {Max(t)})
        BY <4>2
      <4>4. h[t] = F[Max(t)][v(t \ {Max(t)})]
        <5>1. CASE t = u
          BY <3>2, <5>1
        <5>2. CASE t # u
          <6>1. h[t] = v(t)
            BY <5>2
          <6> HIDE DEF v
          <6> QED BY <2>2, <3>2, <5>2, <6>1
        <5>3. QED
          BY <5>1, <5>2
      <4>5. QED
        BY <3>2, <4>3, <4>4 DEF LoopRec
    <3>3. QED
      BY <3>1, <3>2
  <2>7. Sol(h, u)
    <3> HIDE DEF h
    <3> QED BY <2>5, <2>6 DEF Loops
  <2>8. QED
    <3> HIDE DEF Sol, h
    <3> QED BY <2>7
<1>5. SUBSET S \subseteq T
  <2> HIDE DEF T
  <2> QED BY <1>4, SubsetInduction
<1>6. S \in T
  BY <1>5
<1>7. Sol(G(S), S)
  BY <1>3, <1>6
<1>8. QED
  <2> DEFINE g == G(S)
  <2>1. Sol(g, S)
    BY <1>7
  <2> HIDE DEF g
  <2>2. g = [s \in SUBSET S |-> LoopRec(F, b, g, s)]
    BY <2>1 DEF Loops
  <2>3. \A s \in SUBSET S : g[s] \in A
    BY <2>1 DEF Loops
  <2>4. Solves(F, b, A, S, g)
    BY <2>2, <2>3 DEF Solves
  <2> QED BY <2>4

LEMMA LoopSolved ==
    ASSUME NEW n \in Nat, NEW A, NEW b \in A, NEW F, StaysIn(F, A, 1..n)
    PROVE  \E g : Solves(F, b, A, 1..n, g)
<1> DEFINE S == 1..n
<1>1. IsFiniteSet(S)
  BY FS_Interval, SMT
<1>2. \A t \in SUBSET S : t # {} => Max(t) \in t
  BY LastIndex
<1>3. StaysIn(F, A, S)
  OBVIOUS
<1>4. \E g : Solves(F, b, A, S, g)
  <2> HIDE DEF S
  <2> QED BY <1>1, <1>2, <1>3, LoopExists
<1>5. QED
  BY <1>4

LEMMA LoopTrace ==
    ASSUME NEW n \in Nat, NEW A, NEW b \in A, NEW F, StaysIn(F, A, 1..n),
           NEW h, Follows(F, b, A, n, h)
    PROVE  \E tr : RunsThrough(F, b, A, n, h[1..n], tr)
<1> DEFINE tr == [i \in 0..n |-> h[1..i]]
           T == {i \in 0..n : tr[i] \in A}
<1>1. tr[0] = b /\ tr[n] = h[1..n]
  <2>1. 1..0 = {}
    BY SMT
  <2> QED BY <2>1, SMT DEF Follows
<1>2. ASSUME NEW i \in 1..n
      PROVE  /\ tr[i] = h[1..i] /\ tr[i - 1] = h[1..(i - 1)] /\ 1..i \in SUBSET (1..n)
             /\ Max(1..i) = i /\ (1..i) \ {Max(1..i)} = 1..(i - 1) /\ 1..i # {}
  BY LastOfSegment
<1>3. ASSUME NEW i \in 1..n, tr[i - 1] \in A
      PROVE  tr[i] = F[i][tr[i - 1]]
  <2> DEFINE s == 1..i
  <2>1. /\ tr[i] = h[s] /\ tr[i - 1] = h[s \ {Max(s)}] /\ s \in SUBSET (1..n)
        /\ Max(s) = i /\ s # {}
    BY <1>2
  <2> HIDE DEF s, tr
  <2>2. h[s] = F[Max(s)][h[s \ {Max(s)}]]
    BY <1>3, <2>1 DEF Follows
  <2> QED BY <2>1, <2>2
<1>4. \A i \in 0..n : i \in T
  <2>1. 0 \in T
    BY <1>1, SMT
  <2>2. ASSUME NEW i \in 1..n, i - 1 \in T PROVE i \in T
    <3>1. tr[i] = F[i][tr[i - 1]] /\ tr[i - 1] \in A
      BY <1>3, <2>2
    <3> HIDE DEF tr
    <3> QED BY <3>1, SMT DEF StaysIn
  <2> HIDE DEF T
  <2> QED BY <2>1, <2>2, LoopInduction
<1>5. tr \in [0..n -> A]
  BY <1>4
<1>6. \A i \in 1..n : tr[i] = F[i][tr[i - 1]]
  <2> SUFFICES ASSUME NEW i \in 1..n PROVE tr[i] = F[i][tr[i - 1]]
    OBVIOUS
  <2>1. i - 1 \in T
    BY <1>4, SMT
  <2> QED BY <1>3, <2>1
<1> HIDE DEF tr
<1>7. RunsThrough(F, b, A, n, h[1..n], tr)
  BY <1>1, <1>5, <1>6 DEF RunsThrough
<1>8. QED
  BY <1>7

-----------------------------------------------------------------------------
\* The laws from which the lemmas about the application are derived.
LEMMA LawsHold == Laws
<1>1. InductionLaw
  BY LoopInduction DEF InductionLaw
<1>2. LastLaw
  BY LastIndex DEF LastLaw
<1>3. SolutionLaw
  BY LoopSolved DEF SolutionLaw
<1>4. TraceLaw
  BY LoopTrace DEF TraceLaw
<1>5. SumLaw
  BY SumEmpty, SumType, SumNat DEF SumLaw
<1>6. InsertLaw
  BY SumInsert DEF InsertLaw
<1>7. UpdateLaw
  <2> SUFFICES ASSUME NEW S, NEW f, NEW g, NEW x \in S, IsFiniteSet(S),
                      OnlyAt(x, f, g, S)
               PROVE  Exchanged(x, f, g, S)
    BY ZenonT(60) DEF UpdateLaw
  <2> QED BY SumUpdate, SMT DEF OnlyAt, Exchanged
<1>8. SameLaw
  BY SumSame DEF SameLaw
<1>9. FiniteLaw
  <2>1. \A n \in Nat : IsFiniteSet(1..n)
    BY FS_Interval, SMT
  <2>2. \A S : IsFiniteSet(S) => Cardinality(S) \in Nat
    BY FS_CardinalityType
  <2>3. \A S : IsFiniteSet(S) => \A T \in SUBSET S : IsFiniteSet(T)
    BY FS_Subset
  <2>4. QED
    BY <2>1, <2>2, <2>3 DEF FiniteLaw
<1>10. CountLaw
  <2>1. IsFiniteSet({}) /\ Cardinality({}) = 0
    BY FS_EmptySet
  <2>2. \A x : IsFiniteSet({x}) /\ Cardinality({x}) = 1
    BY FS_Singleton
  <2>3. \A S, x : IsFiniteSet(S) /\ x \notin S => Cardinality(S \cup {x}) = Cardinality(S) + 1
    BY FS_AddElement
  <2>4. QED
    BY <2>1, <2>2, <2>3 DEF CountLaw
<1>11. QED
  BY <1>1, <1>2, <1>3, <1>4, <1>5, <1>6, <1>7, <1>8, <1>9, <1>10 DEF Laws
=============================================================================
