----------------------------- MODULE SumTheorems -----------------------------
(***************************************************************************)
(* Sums over finite sets, for the proofs of the components that add up     *)
(* lots or money.  SumFunctionOnSet takes the elements in an order that    *)
(* CHOOSE fixes; the lemmas say that the order does not matter and what a  *)
(* sum is after one element or one value has changed.  Then the least and  *)
(* the greatest element of a set of numbers, and induction along an        *)
(* interval.                                                               *)
(*                                                                         *)
(* Each is shown by looking at a smallest set for which it fails.          *)
(***************************************************************************)
EXTENDS Integers, Functions, FiniteSetsExt, FiniteSetTheorems, WellFoundedInduction,
        TLAPS

\* Among the subsets of a finite set that have some property, one has no proper
\* subset with it.
LEMMA MinimalSubset ==
  ASSUME NEW S, IsFiniteSet(S), NEW Bad \in SUBSET (SUBSET S), Bad # {}
  PROVE  \E T \in Bad : \A U \in Bad : U \subseteq T => U = T
<1>1. Bad \subseteq FiniteSubsetsOf(S)
  BY FS_Subset DEF FiniteSubsetsOf
<1>2. PICK T \in Bad : \A U \in Bad : ~(<<U, T>> \in StrictSubsetOrdering(S))
  BY <1>1, WFMin, FS_StrictSubsetOrderingWellFounded
<1>3. \A U \in Bad : U \subseteq T => U = T
  BY <1>2 DEF StrictSubsetOrdering
<1> QED BY <1>3

-----------------------------------------------------------------------------
(* The recursion behind SumFunctionOnSet *)

Pick(S) == CHOOSE x \in S : TRUE

LEMMA PickIsElement == ASSUME NEW S, S # {} PROVE Pick(S) \in S
BY DEF Pick

\* What the recursion gives for one set, if g is right for the smaller ones.
Unfolded(g, f, s) == IF s = {} THEN 0 ELSE f[Pick(s)] + g[s \ {Pick(s)}]
IsSum(g, f, S) == g = [s \in SUBSET S |-> Unfolded(g, f, s)]

LEMMA SumIsChosen ==
  ASSUME NEW f, NEW S
  PROVE  SumFunctionOnSet(f, S) = (CHOOSE g : IsSum(g, f, S))[S]
BY DEF SumFunctionOnSet, FoldFunctionOnSet, MapThenFoldSet, IsSum, Unfolded, Pick

\* A solution of the recursion on a set is one on its subsets.
LEMMA SumsAgree ==
  ASSUME NEW f, NEW S, IsFiniteSet(S), NEW T \in SUBSET S,
         NEW g, NEW h, IsSum(g, f, S), IsSum(h, f, T)
  PROVE  g[T] = h[T]
<1> DEFINE Bad == {s \in SUBSET T : g[s] # h[s]}
<1> SUFFICES ASSUME Bad # {} PROVE FALSE
  OBVIOUS
<1>0. IsFiniteSet(T) /\ Bad \in SUBSET (SUBSET T)
  BY FS_Subset
<1>1. PICK s \in Bad : \A u \in Bad : u \subseteq s => u = s
  <2> HIDE DEF Bad
  <2> QED BY <1>0, MinimalSubset
<1>2. g[s] = Unfolded(g, f, s) /\ h[s] = Unfolded(h, f, s)
  BY <1>1 DEF IsSum
<1>3. CASE s = {}
  BY <1>1, <1>2, <1>3 DEF Unfolded
<1>4. CASE s # {}
  <2>1. Pick(s) \in s
    BY <1>4, PickIsElement
  <2>2. s \ {Pick(s)} \notin Bad
    BY <1>1, <2>1
  <2>3. g[s \ {Pick(s)}] = h[s \ {Pick(s)}]
    BY <1>1, <2>2
  <2> QED BY <1>1, <1>2, <1>4, <2>3 DEF Unfolded
<1> QED BY <1>3, <1>4

\* On a finite set the recursion has a solution.
LEMMA SumExists ==
  ASSUME NEW f, NEW S, IsFiniteSet(S)
  PROVE  IsSum(CHOOSE g : IsSum(g, f, S), f, S)
<1> DEFINE Bad == {s \in SUBSET S : ~\E g : IsSum(g, f, s)}
<1>1. ASSUME Bad # {} PROVE FALSE
  <2>1. PICK s \in Bad : \A u \in Bad : u \subseteq s => u = s
    <3>1. Bad \in SUBSET (SUBSET S)
      OBVIOUS
    <3> HIDE DEF Bad
    <3> QED BY <1>1, <3>1, MinimalSubset
  <2> DEFINE val(u) == SumFunctionOnSet(f, u)
             k == IF s = {} THEN 0 ELSE f[Pick(s)] + val(s \ {Pick(s)})
             g == [u \in SUBSET s |-> IF u = s THEN k ELSE val(u)]
  <2>2. ASSUME NEW u \in SUBSET s, u # s
        PROVE  val(u) = IF u = {} THEN 0 ELSE f[Pick(u)] + val(u \ {Pick(u)})
    <3>0. ASSUME NEW w \in SUBSET s, w # s
          PROVE  IsFiniteSet(w) /\ \E h : IsSum(h, f, w) /\ val(w) = h[w]
      <4>1. w \notin Bad /\ w \in SUBSET S /\ IsFiniteSet(w)
        BY <2>1, <3>0, FS_Subset
      <4>2. IsSum(CHOOSE h : IsSum(h, f, w), f, w)
        BY <4>1
      <4> QED BY <4>1, <4>2, SumIsChosen
    <3>1. PICK h : IsSum(h, f, u) /\ val(u) = h[u]
      BY <2>2, <3>0
    <3>2. val(u) = Unfolded(h, f, u)
      BY <3>1 DEF IsSum
    <3>3. CASE u = {}
      BY <3>2, <3>3 DEF Unfolded
    <3>4. CASE u # {}
      <4> DEFINE w == u \ {Pick(u)}
      <4>1. Pick(u) \in u /\ w \in SUBSET s /\ w # s /\ w \subseteq u
        BY <2>2, <3>4, PickIsElement
      <4>2. PICK i : IsSum(i, f, w) /\ val(w) = i[w]
        BY <3>0, <4>1
      <4>3. i[w] = h[w]
        BY <3>0, <3>1, <4>1, <4>2, SumsAgree
      <4> QED BY <3>2, <3>4, <4>2, <4>3 DEF Unfolded
    <3> QED BY <3>3, <3>4
  <2>3. ASSUME NEW u \in SUBSET s PROVE g[u] = Unfolded(g, f, u)
    <3>1. CASE u = s
      <4>1. CASE s = {}
        BY <3>1, <4>1 DEF Unfolded
      <4>2. CASE s # {}
        <5>1. Pick(s) \in s
          BY <4>2, PickIsElement
        <5>2. g[s \ {Pick(s)}] = val(s \ {Pick(s)})
          BY <5>1
        <5> QED BY <3>1, <4>2, <5>2 DEF Unfolded
      <4> QED BY <4>1, <4>2
    <3>2. CASE u # s
      <4>1. g[u] = val(u)
        BY <3>2
      <4>2. CASE u = {}
        BY <2>2, <3>2, <4>1, <4>2 DEF Unfolded
      <4>3. CASE u # {}
        <5>1. g[u \ {Pick(u)}] = val(u \ {Pick(u)})
          BY <2>3, <3>2
        <5>2. val(u) = f[Pick(u)] + val(u \ {Pick(u)})
          BY <2>2, <3>2, <4>3
        <5> HIDE DEF g, val
        <5> QED BY <4>1, <4>3, <5>1, <5>2 DEF Unfolded
      <4> QED BY <4>2, <4>3
    <3> QED BY <3>1, <3>2
  <2>4. IsSum(g, f, s)
    <3>1. g = [u \in SUBSET s |-> g[u]]
      OBVIOUS
    <3> HIDE DEF g
    <3> QED BY <2>3, <3>1 DEF IsSum
  <2> HIDE DEF g
  <2> QED BY <2>1, <2>4
<1>2. S \notin Bad
  BY <1>1
<1> QED BY <1>2

\* The sum, one element after the other.
LEMMA SumUnfolds ==
  ASSUME NEW f, NEW S, IsFiniteSet(S)
  PROVE  SumFunctionOnSet(f, S) =
           IF S = {} THEN 0 ELSE f[Pick(S)] + SumFunctionOnSet(f, S \ {Pick(S)})
<1> DEFINE g == CHOOSE g : IsSum(g, f, S)
           T == S \ {Pick(S)}
           h == CHOOSE h : IsSum(h, f, T)
<1>1. IsFiniteSet(T) /\ IsSum(g, f, S) /\ IsSum(h, f, T)
  BY FS_Subset, SumExists
<1>2. SumFunctionOnSet(f, S) = g[S] /\ SumFunctionOnSet(f, T) = h[T]
  BY SumIsChosen
<1>3. g[S] = Unfolded(g, f, S)
  BY <1>1 DEF IsSum
<1>4. h[T] = g[T]
  BY <1>1, SumsAgree
<1> HIDE DEF g, h
<1> QED BY <1>2, <1>3, <1>4 DEF Unfolded

-----------------------------------------------------------------------------
(* What the proofs use *)

Sum(f, S) == SumFunctionOnSet(f, S)

LEMMA SumEmpty == ASSUME NEW f PROVE Sum(f, {}) = 0
BY SumUnfolds, FS_EmptySet DEF Sum

\* A sum of integers is one, and of naturals one.
LEMMA SumType ==
  ASSUME NEW f, NEW S, IsFiniteSet(S), NEW V \in {Int, Nat}, \A x \in S : f[x] \in V
  PROVE  Sum(f, S) \in V
<1> DEFINE Bad == {s \in SUBSET S : Sum(f, s) \notin V}
<1> SUFFICES ASSUME Bad # {} PROVE FALSE
  OBVIOUS
<1>0. Bad \in SUBSET (SUBSET S)
  OBVIOUS
<1>1. PICK s \in Bad : \A u \in Bad : u \subseteq s => u = s
  <2> HIDE DEF Bad
  <2> QED BY <1>0, MinimalSubset
<1>2. IsFiniteSet(s)
  BY <1>1, FS_Subset
<1>3. CASE s = {}
  BY <1>1, <1>3, SumEmpty
<1>4. CASE s # {}
  <2>1. Pick(s) \in s
    BY <1>4, PickIsElement
  <2>2. Sum(f, s \ {Pick(s)}) \in V /\ f[Pick(s)] \in V
    BY <1>1, <2>1
  <2>3. Sum(f, s) = f[Pick(s)] + Sum(f, s \ {Pick(s)})
    BY <1>2, <1>4, SumUnfolds DEF Sum
  <2> QED BY <1>1, <2>2, <2>3
<1> QED BY <1>3, <1>4

\* Any element may be taken out first.
LEMMA SumRemove ==
  ASSUME NEW f, NEW S, IsFiniteSet(S), \A y \in S : f[y] \in Int, NEW x \in S
  PROVE  Sum(f, S) = f[x] + Sum(f, S \ {x})
<1> DEFINE Bad == {s \in SUBSET S : \E y \in s : Sum(f, s) # f[y] + Sum(f, s \ {y})}
<1> SUFFICES ASSUME Bad # {} PROVE FALSE
  OBVIOUS
<1>0. Bad \in SUBSET (SUBSET S)
  OBVIOUS
<1>1. PICK s \in Bad : \A u \in Bad : u \subseteq s => u = s
  <2> HIDE DEF Bad
  <2> QED BY <1>0, MinimalSubset
<1>2. PICK y \in s : Sum(f, s) # f[y] + Sum(f, s \ {y})
  BY <1>1
<1> DEFINE z == Pick(s)
           rest == s \ {y, z}
<1>3. IsFiniteSet(s) /\ z \in s /\ s \subseteq S
  BY <1>1, <1>2, PickIsElement, FS_Subset
<1>4. Sum(f, s) = f[z] + Sum(f, s \ {z})
  BY <1>2, <1>3, SumUnfolds DEF Sum
<1>5. y # z
  BY <1>2, <1>4
<1>6. Sum(f, s \ {z}) = f[y] + Sum(f, rest)
  <2>1. s \ {z} \notin Bad /\ y \in s \ {z} /\ (s \ {z}) \ {y} = rest /\ s \ {z} \in SUBSET S
    BY <1>1, <1>2, <1>3, <1>5
  <2> QED BY <2>1
<1>7. Sum(f, s \ {y}) = f[z] + Sum(f, rest)
  <2>1. s \ {y} \notin Bad /\ z \in s \ {y} /\ (s \ {y}) \ {z} = rest /\ s \ {y} \in SUBSET S
    BY <1>1, <1>2, <1>3, <1>5
  <2> QED BY <2>1
<1>8. Sum(f, rest) \in Int /\ f[y] \in Int /\ f[z] \in Int
  <2>1. IsFiniteSet(rest) /\ \A w \in rest : f[w] \in Int
    BY <1>3, FS_Subset
  <2> HIDE DEF rest
  <2> QED BY <1>2, <1>3, <2>1, SumType
<1> HIDE DEF z, rest
<1> QED BY <1>2, <1>4, <1>6, <1>7, <1>8

LEMMA SumAdd ==
  ASSUME NEW f, NEW S, IsFiniteSet(S), NEW x, x \notin S, \A y \in S \cup {x} : f[y] \in Int
  PROVE  Sum(f, S \cup {x}) = f[x] + Sum(f, S)
<1>1. IsFiniteSet(S \cup {x}) /\ (S \cup {x}) \ {x} = S
  BY FS_AddElement
<1> DEFINE T == S \cup {x}
<1>2. x \in T /\ (\A y \in T : f[y] \in Int) /\ IsFiniteSet(T) /\ T \ {x} = S
  BY <1>1
<1> HIDE DEF T
<1>3. Sum(f, T) = f[x] + Sum(f, S)
  BY <1>2, SumRemove
<1> QED BY <1>3 DEF T

\* Only the values on the set count, and larger ones give a larger sum.
LEMMA SumMonotone ==
  ASSUME NEW f, NEW g, NEW S, IsFiniteSet(S),
         \A x \in S : f[x] \in Int /\ g[x] \in Int /\ f[x] <= g[x]
  PROVE  Sum(f, S) <= Sum(g, S)
<1> DEFINE Bad == {s \in SUBSET S : ~(Sum(f, s) <= Sum(g, s))}
<1> SUFFICES ASSUME Bad # {} PROVE FALSE
  OBVIOUS
<1>0. Bad \in SUBSET (SUBSET S)
  OBVIOUS
<1>1. PICK s \in Bad : \A u \in Bad : u \subseteq s => u = s
  <2> HIDE DEF Bad
  <2> QED BY <1>0, MinimalSubset
<1>2. IsFiniteSet(s) /\ s \subseteq S
  BY <1>1, FS_Subset
<1>3. CASE s = {}
  BY <1>1, <1>3, SumEmpty
<1>4. CASE s # {}
  <2> DEFINE x == Pick(s)
             r == s \ {x}
  <2>1. x \in s /\ IsFiniteSet(r) /\ r \in SUBSET S /\ r \notin Bad
    BY <1>1, <1>2, <1>4, PickIsElement, FS_Subset
  <2>2. Sum(f, s) = f[x] + Sum(f, r) /\ Sum(g, s) = g[x] + Sum(g, r)
    BY <1>2, <1>4, SumUnfolds DEF Sum
  <2>3. Sum(f, r) <= Sum(g, r)
    BY <2>1
  <2>4. Sum(f, r) \in Int /\ Sum(g, r) \in Int
    <3>1. \A y \in r : f[y] \in Int /\ g[y] \in Int
      BY <2>1
    <3> HIDE DEF r
    <3> QED BY <2>1, <3>1, SumType
  <2>5. f[x] \in Int /\ g[x] \in Int /\ f[x] <= g[x]
    BY <1>2, <2>1
  <2>6. ~(Sum(f, s) <= Sum(g, s))
    BY <1>1
  <2> HIDE DEF x, r
  <2> QED BY <2>2, <2>3, <2>4, <2>5, <2>6
<1> QED BY <1>3, <1>4

LEMMA SumSame ==
  ASSUME NEW f, NEW g, NEW S, IsFiniteSet(S), \A x \in S : f[x] \in Int /\ f[x] = g[x]
  PROVE  Sum(f, S) = Sum(g, S)
<1>1. Sum(f, S) <= Sum(g, S) /\ Sum(g, S) <= Sum(f, S)
  <2>1. \A x \in S : f[x] \in Int /\ g[x] \in Int /\ f[x] <= g[x] /\ g[x] <= f[x]
    OBVIOUS
  <2> QED BY <2>1, SumMonotone
<1>2. Sum(f, S) \in Int /\ Sum(g, S) \in Int
  BY SumType
<1> QED BY <1>1, <1>2

\* A sum of differences or of two parts is taken part by part.
LEMMA SumOfTwo ==
  ASSUME NEW f, NEW g, NEW h, NEW S, IsFiniteSet(S),
         \A x \in S : g[x] \in Int /\ h[x] \in Int /\ f[x] = g[x] + h[x]
  PROVE  Sum(f, S) = Sum(g, S) + Sum(h, S)
<1> DEFINE Bad == {s \in SUBSET S : Sum(f, s) # Sum(g, s) + Sum(h, s)}
<1> SUFFICES ASSUME Bad # {} PROVE FALSE
  OBVIOUS
<1>0. Bad \in SUBSET (SUBSET S)
  OBVIOUS
<1>1. PICK s \in Bad : \A u \in Bad : u \subseteq s => u = s
  <2> HIDE DEF Bad
  <2> QED BY <1>0, MinimalSubset
<1>2. IsFiniteSet(s) /\ s \subseteq S /\ Sum(f, s) # Sum(g, s) + Sum(h, s)
  BY <1>1, FS_Subset
<1>3. CASE s = {}
  BY <1>2, <1>3, SumEmpty
<1>4. CASE s # {}
  <2> DEFINE x == Pick(s)
             r == s \ {x}
  <2>1. x \in s /\ IsFiniteSet(r) /\ r \in SUBSET S /\ r \notin Bad
    BY <1>1, <1>2, <1>4, PickIsElement, FS_Subset
  <2>2. /\ Sum(f, s) = f[x] + Sum(f, r) /\ Sum(g, s) = g[x] + Sum(g, r)
        /\ Sum(h, s) = h[x] + Sum(h, r)
    BY <1>2, <1>4, SumUnfolds DEF Sum
  <2>3. Sum(f, r) = Sum(g, r) + Sum(h, r)
    BY <2>1
  <2>4. Sum(g, r) \in Int /\ Sum(h, r) \in Int
    <3>1. \A y \in r : g[y] \in Int /\ h[y] \in Int
      BY <2>1
    <3> HIDE DEF r
    <3> QED BY <2>1, <3>1, SumType
  <2>5. g[x] \in Int /\ h[x] \in Int /\ f[x] = g[x] + h[x]
    BY <1>2, <2>1
  <2> HIDE DEF x, r
  <2> QED BY <1>2, <2>2, <2>3, <2>4, <2>5
<1> QED BY <1>3, <1>4

\* One value of the set changes.
LEMMA SumUpdate ==
  ASSUME NEW f, NEW g, NEW S, IsFiniteSet(S), NEW x \in S,
         \A y \in S : f[y] \in Int /\ g[y] \in Int,
         \A y \in S \ {x} : g[y] = f[y]
  PROVE  Sum(g, S) = Sum(f, S) - f[x] + g[x]
<1> DEFINE r == S \ {x}
<1>1. IsFiniteSet(r) /\ (\A y \in r : f[y] \in Int /\ g[y] \in Int /\ f[y] = g[y])
  BY FS_Subset
<1>2. Sum(f, S) = f[x] + Sum(f, r) /\ Sum(g, S) = g[x] + Sum(g, r)
  BY SumRemove
<1>3. Sum(f, r) = Sum(g, r) /\ Sum(f, r) \in Int
  <2> HIDE DEF r
  <2> QED BY <1>1, SumSame, SumType
<1> HIDE DEF r
<1> QED BY <1>2, <1>3

\* Fewer elements, all of them natural numbers, give a smaller sum.
LEMMA SumSubset ==
  ASSUME NEW f, NEW S, IsFiniteSet(S), NEW T \in SUBSET S, \A x \in S : f[x] \in Nat
  PROVE  Sum(f, T) <= Sum(f, S)
<1> DEFINE Bad == {s \in SUBSET S : T \subseteq s /\ ~(Sum(f, T) <= Sum(f, s))}
<1> SUFFICES ASSUME Bad # {} PROVE FALSE
  OBVIOUS
<1>0. Bad \in SUBSET (SUBSET S)
  OBVIOUS
<1>1. PICK s \in Bad : \A u \in Bad : u \subseteq s => u = s
  <2> HIDE DEF Bad
  <2> QED BY <1>0, MinimalSubset
<1>2. IsFiniteSet(s) /\ s \subseteq S /\ IsFiniteSet(T) /\ T \subseteq s
      /\ ~(Sum(f, T) <= Sum(f, s))
  BY <1>1, FS_Subset
<1>3. Sum(f, T) \in Nat
  BY <1>2, SumType
<1>4. PICK x \in s : x \notin T
  BY <1>2, <1>3
<1> DEFINE r == s \ {x}
<1>5. Sum(f, s) = f[x] + Sum(f, r)
  BY <1>2, SumRemove
<1>6. r \notin Bad /\ r \in SUBSET S /\ T \subseteq r /\ IsFiniteSet(r)
  BY <1>1, <1>2, <1>4, FS_Subset
<1>7. Sum(f, T) <= Sum(f, r)
  BY <1>6
<1>8. Sum(f, r) \in Nat /\ f[x] \in Nat
  <2> HIDE DEF r
  <2> QED BY <1>2, <1>6, SumType
<1> HIDE DEF r
<1> QED BY <1>2, <1>3, <1>5, <1>7, <1>8

\* Elements that add nothing can be left out.
LEMMA SumSupport ==
  ASSUME NEW f, NEW S, IsFiniteSet(S), NEW T \in SUBSET S,
         \A x \in S : f[x] \in Int, \A x \in S \ T : f[x] = 0
  PROVE  Sum(f, T) = Sum(f, S)
<1> DEFINE Bad == {s \in SUBSET S : T \subseteq s /\ Sum(f, T) # Sum(f, s)}
<1> SUFFICES ASSUME Bad # {} PROVE FALSE
  OBVIOUS
<1>0. Bad \in SUBSET (SUBSET S)
  OBVIOUS
<1>1. PICK s \in Bad : \A u \in Bad : u \subseteq s => u = s
  <2> HIDE DEF Bad
  <2> QED BY <1>0, MinimalSubset
<1>2. IsFiniteSet(s) /\ s \subseteq S /\ T \subseteq s /\ Sum(f, T) # Sum(f, s)
  BY <1>1, FS_Subset
<1>3. PICK x \in s : x \notin T
  BY <1>2
<1> DEFINE r == s \ {x}
<1>4. Sum(f, s) = f[x] + Sum(f, r) /\ f[x] = 0
  BY <1>2, <1>3, SumRemove
<1>5. r \notin Bad /\ r \in SUBSET S /\ T \subseteq r /\ IsFiniteSet(r)
  BY <1>1, <1>2, <1>3, FS_Subset
<1>6. Sum(f, T) = Sum(f, r)
  BY <1>5
<1>7. Sum(f, r) \in Int
  <2> HIDE DEF r
  <2> QED BY <1>5, SumType
<1> HIDE DEF r
<1> QED BY <1>2, <1>4, <1>6, <1>7

\* Sums of the same total, one never above the other, have the same terms.
LEMMA SumTight ==
  ASSUME NEW f, NEW g, NEW S, IsFiniteSet(S), NEW x \in S,
         \A y \in S : f[y] \in Int /\ g[y] \in Int /\ f[y] <= g[y],
         Sum(g, S) <= Sum(f, S)
  PROVE  f[x] = g[x]
<1> DEFINE r == S \ {x}
<1>1. IsFiniteSet(r) /\ \A y \in r : f[y] \in Int /\ g[y] \in Int /\ f[y] <= g[y]
  BY FS_Subset
<1>2. Sum(f, S) = f[x] + Sum(f, r) /\ Sum(g, S) = g[x] + Sum(g, r)
  BY SumRemove
<1>3. Sum(f, r) <= Sum(g, r) /\ Sum(f, r) \in Int /\ Sum(g, r) \in Int
  <2> HIDE DEF r
  <2> QED BY <1>1, SumMonotone, SumType
<1> HIDE DEF r
<1> QED BY <1>2, <1>3

-----------------------------------------------------------------------------
(* Least and greatest elements *)

\* Every non-empty set of natural numbers up to a bound has a least and a greatest element.
LEMMA LeastElement ==
  ASSUME NEW S \in SUBSET Nat, S # {}
  PROVE  Min(S) \in S /\ \A y \in S : Min(S) <= y
<1>1. PICK x \in S : \A y \in S : ~(<<y, x>> \in OpToRel(<, Nat))
  BY WFMin, NatLessThanWellFounded
<1>2. ASSUME NEW y \in S PROVE x <= y
  <2>1. y < x => <<y, x>> \in OpToRel(<, Nat)
    BY DEF OpToRel
  <2>2. ~(y < x)
    BY <1>1, <2>1, Zenon
  <2> QED BY <2>2
<1> QED BY <1>2 DEF Min

LEMMA GreatestUpTo ==
  ASSUME NEW n \in Nat, NEW S \in SUBSET (0 .. n), S # {}
  PROVE  Max(S) \in S /\ \A y \in S : Max(S) >= y
<1> DEFINE T == {n - x : x \in S}
<1>1. T \in SUBSET Nat /\ T # {}
  <2>1. \A x \in S : n - x \in Nat
    OBVIOUS
  <2> QED BY <2>1
<1>2. Min(T) \in T /\ \A y \in T : Min(T) <= y
  <2> HIDE DEF T
  <2> QED BY <1>1, LeastElement
<1>3. PICK x \in S : Min(T) = n - x
  BY <1>2
<1>4. \A y \in S : n - x <= n - y
  BY <1>2, <1>3
<1>5. \A y \in S : x >= y
  BY <1>4
<1> QED BY <1>5 DEF Max

LEMMA GreatestElement ==
  ASSUME NEW n \in Nat, NEW S \in SUBSET (1 .. n), S # {}
  PROVE  Max(S) \in S /\ \A y \in S : Max(S) >= y
<1>1. S \in SUBSET (0 .. n)
  OBVIOUS
<1> QED BY <1>1, GreatestUpTo
-----------------------------------------------------------------------------
(* Counting up *)

\* What holds at zero and is passed on from each number to the next holds up to n.
LEMMA CountingUp ==
  ASSUME NEW n \in Nat, NEW Good, 0 \in Good, \A i \in 1..n : i - 1 \in Good => i \in Good
  PROVE  \A i \in 0..n : i \in Good
<1> DEFINE Bad == {i \in 0..n : i \notin Good}
<1> SUFFICES ASSUME Bad # {} PROVE FALSE
  OBVIOUS
<1>1. Min(Bad) \in Bad /\ \A k \in Bad : Min(Bad) <= k
  <2>1. Bad \in SUBSET Nat
    OBVIOUS
  <2> HIDE DEF Bad
  <2> QED BY <2>1, LeastElement
<1> DEFINE m == Min(Bad)
<1> HIDE DEF m
<1>2. m \in 0..n /\ m \notin Good /\ m # 0 /\ m \in 1..n /\ m - 1 \in 0..n
  BY <1>1 DEF m
<1>3. m - 1 \notin Bad
  BY <1>1, <1>2 DEF m
<1> QED BY <1>2, <1>3

\* A sequence of summands grows by one.
LEMMA SumAppend ==
  ASSUME NEW n \in Nat, NEW f, NEW g, \A i \in 1..n : f[i] \in Int /\ g[i] = f[i],
         g[n + 1] \in Int
  PROVE  Sum(g, 1..(n + 1)) = Sum(f, 1..n) + g[n + 1]
<1> DEFINE S == 1..n
<1>1. IsFiniteSet(S)
  BY FS_Interval
<1>2. n + 1 \notin S /\ 1..(n + 1) = S \cup {n + 1}
  OBVIOUS
<1>3. \A i \in S : f[i] \in Int /\ g[i] = f[i]
  OBVIOUS
<1> HIDE DEF S
<1>4. \A i \in S \cup {n + 1} : g[i] \in Int
  BY <1>3
<1>5. Sum(g, S \cup {n + 1}) = g[n + 1] + Sum(g, S)
  BY <1>1, <1>2, <1>4, SumAdd
<1>6. Sum(f, S) = Sum(g, S) /\ Sum(f, S) \in Int
  BY <1>1, <1>3, SumSame, SumType
<1>7. Sum(g, S \cup {n + 1}) = Sum(f, S) + g[n + 1]
  BY <1>5, <1>6
<1> QED BY <1>2, <1>7 DEF S
=============================================================================
