---------------------------- MODULE SharedLemmas ----------------------------
(***************************************************************************)
(* Lemmas that several of the proofs rest on: what a push and a pop        *)
(* attempt do to a ring whose ends are in step (RingEnds), and what is     *)
(* true of sums over finite sets, SumFunctionOnSet of the community module *)
(* Functions, for the components whose correctness is a matter of adding   *)
(* up.                                                                     *)
(***************************************************************************)
EXTENDS RingEnds, Integers, Functions, FiniteSetTheorems, WellFoundedInduction, TLAPS

Ring == [pushed : Nat, popped : Nat, p_view : Nat, c_view : Nat]

\* Neither end has seen more than the other has done, and nothing is popped
\* unseen.
InStep(r) ==
    /\ r \in Ring
    /\ r.p_view <= r.popped /\ r.popped <= r.c_view /\ r.c_view <= r.pushed

\* A push attempt changes the producer's end only.
LEMMA PushFacts ==
    ASSUME NEW r, InStep(r), NEW k \in PushViews(r), NEW c
    PROVE  LET s == try_push(r, k, c)
           IN  /\ InStep(s) /\ s.popped = r.popped /\ s.c_view = r.c_view
               /\ s.pushed = IF SeesFull(r, k, c) THEN r.pushed ELSE r.pushed + 1
<1>1. r \in Ring /\ r.p_view <= r.popped /\ r.popped <= r.c_view /\ r.c_view <= r.pushed
  BY DEF InStep
<1>2. k \in Nat /\ k <= r.popped
  BY <1>1 DEF PushViews, Ring
<1> DEFINE a == PushLoad(r, k)
           b == [a EXCEPT !.pushed = @ + 1]
<1>3. /\ a \in Ring /\ a.p_view = k /\ a.popped = r.popped
      /\ a.c_view = r.c_view /\ a.pushed = r.pushed
  BY <1>1, <1>2 DEF PushLoad, Ring
<1> HIDE DEF a
<1>4. /\ b \in Ring /\ b.p_view = k /\ b.popped = r.popped
      /\ b.c_view = r.c_view /\ b.pushed = r.pushed + 1
  BY <1>3 DEF Ring
<1> HIDE DEF b
<1>5. r.pushed \in Nat /\ r.popped \in Nat /\ r.c_view \in Nat
  BY <1>1 DEF Ring
<1>6. InStep(a) /\ InStep(b)
  BY <1>1, <1>2, <1>3, <1>4, <1>5 DEF InStep
<1>7. try_push(r, k, c) = IF SeesFull(r, k, c) THEN a ELSE b
  BY DEF try_push, a, b
<1> QED
  BY <1>3, <1>4, <1>6, <1>7

\* A load at the consuming end, and a pop attempt after it.
LEMMA PopFacts ==
    ASSUME NEW r, InStep(r), NEW k \in PopViews(r)
    PROVE  LET a == PopLoad(r, k)
               s == try_pop(r, k)
           IN  /\ InStep(a) /\ a.pushed = r.pushed /\ a.popped = r.popped /\ a.c_view = k
               /\ InStep(s) /\ s.pushed = r.pushed
               /\ s.popped = IF SeesEmpty(r, k) THEN r.popped ELSE r.popped + 1
<1>1. r \in Ring /\ r.p_view <= r.popped /\ r.popped <= r.c_view /\ r.c_view <= r.pushed
  BY DEF InStep
<1>2. k \in Nat /\ r.c_view <= k /\ k <= r.pushed
  BY <1>1 DEF PopViews, Ring
<1> DEFINE a == PopLoad(r, k)
           b == [a EXCEPT !.popped = @ + 1]
<1>3. /\ a \in Ring /\ a.p_view = r.p_view /\ a.popped = r.popped
      /\ a.c_view = k /\ a.pushed = r.pushed
  BY <1>1, <1>2 DEF PopLoad, Ring
<1> HIDE DEF a
<1>4. /\ b \in Ring /\ b.p_view = r.p_view /\ b.popped = r.popped + 1
      /\ b.c_view = k /\ b.pushed = r.pushed
  BY <1>3 DEF Ring
<1> HIDE DEF b
<1>5. r.pushed \in Nat /\ r.popped \in Nat /\ r.c_view \in Nat /\ r.p_view \in Nat
  BY <1>1 DEF Ring
<1>6. InStep(a)
  BY <1>1, <1>2, <1>3, <1>5 DEF InStep
<1>7. ~SeesEmpty(r, k) => InStep(b)
  BY <1>1, <1>2, <1>4, <1>5 DEF InStep, SeesEmpty
<1>8. try_pop(r, k) = IF SeesEmpty(r, k) THEN a ELSE b
  BY DEF try_pop, a, b
<1> QED
  BY <1>3, <1>4, <1>6, <1>7, <1>8 DEF a

\* A ring starts out in step, and a load of everything there is keeps it so.
LEMMA FreshLoad ==
    /\ InStep(NewRing)
    /\ \A r : InStep(r) => r.pushed \in PopViews(r)
  BY DEF NewRing, InStep, Ring, PopViews

-----------------------------------------------------------------------------
\* Every set of naturals that is not empty has a least element.
LEMMA NatMin ==
    ASSUME NEW T \in SUBSET Nat, T # {}
    PROVE  \E m \in T : \A n \in T : m <= n
<1>1. PICK m \in T : \A n \in T : ~(<<n, m>> \in OpToRel(<, Nat))
  BY Zenon, NatLessThanWellFounded, WFMin
<1>2. \A n, k \in Nat : n < k => <<n, k>> \in OpToRel(<, Nat)
  BY Zenon DEF OpToRel
<1>3. \A n \in T : ~(n < m)
  BY <1>1, <1>2, Zenon
<1> QED BY <1>3

\* Induction, with the property given as the set of numbers that have it.
LEMMA NatInductionOnSet ==
    ASSUME NEW T \in SUBSET Nat, 0 \in T, \A n \in T : n + 1 \in T
    PROVE  T = Nat
<1> SUFFICES ASSUME T # Nat PROVE FALSE
  OBVIOUS
<1>1. PICK m \in Nat \ T : \A n \in Nat \ T : m <= n
  BY Zenon, NatMin
<1>2. m - 1 \in Nat /\ m - 1 \notin Nat \ T
  BY <1>1
<1> QED BY <1>1, <1>2

\* Induction over finite sets: S is in every family that has the empty set,
\* and has a subset of S as soon as it has that set without any one element.
LEMMA FiniteInductionOnSet ==
    ASSUME NEW S, IsFiniteSet(S), NEW F, {} \in F,
           \A s \in SUBSET S : s # {} /\ (\A x \in s : s \ {x} \in F) => s \in F
    PROVE  S \in F
<1> DEFINE T == {n \in Nat : \A s \in SUBSET S : Cardinality(s) = n => s \in F}
<1>1. \A s \in SUBSET S : IsFiniteSet(s) /\ Cardinality(s) \in Nat
  BY FS_Subset, FS_CardinalityType
<1>2. 0 \in T
  BY Zenon, <1>1, FS_EmptySet
<1>3. ASSUME NEW n \in T PROVE n + 1 \in T
  <2> SUFFICES ASSUME NEW s \in SUBSET S, Cardinality(s) = n + 1 PROVE s \in F
    BY <1>3
  <2>0. n \in Nat /\ \A r \in SUBSET S : Cardinality(r) = n => r \in F
    BY <1>3
  <2> HIDE DEF T
  <2>1. s # {}
    <3>1. Cardinality({}) = 0 /\ n + 1 # 0
      BY <2>0, FS_EmptySet
    <3> QED BY Zenon, <3>1
  <2>2. ASSUME NEW x \in s PROVE Cardinality(s \ {x}) = n
    BY <1>1, <2>0, FS_RemoveElement
  <2>3. \A x \in s : s \ {x} \in F
    BY <2>0, <2>2
  <2> QED BY <2>1, <2>3
<1>4. T = Nat
  <2> HIDE DEF T
  <2>1. T \in SUBSET Nat
    BY DEF T
  <2> QED BY <1>2, <1>3, <2>1, NatInductionOnSet
<1> QED BY <1>1, <1>4

-----------------------------------------------------------------------------
Pick(s) == CHOOSE x \in s : TRUE

\* One unfolding of the recursion that defines a sum, of a table g of the
\* sums of f over the subsets of S.
Unfold(g, f, S) ==
    [s \in SUBSET S |-> IF s = {} THEN 0 ELSE f[Pick(s)] + g[s \ {Pick(s)}]]

Adds(g, f, S) == g = Unfold(g, f, S)
AddsUpTo(g, f, S, n) ==
    \A s \in SUBSET S : Cardinality(s) <= n => g[s] = Unfold(g, f, S)[s]

IntOn(f, S) == \A x \in S : f[x] \in Int

\* The sum is the value of the recursive function that MapThenFoldSet chooses.
LEMMA SumDef ==
    ASSUME NEW f, NEW S
    PROVE  SumFunctionOnSet(f, S) = (CHOOSE g : Adds(g, f, S))[S]
  BY DEF SumFunctionOnSet, FoldFunctionOnSet, MapThenFoldSet, Adds, Unfold, Pick

\* The finite subsets of a finite set, for the recursion.
LEMMA SubsetFacts ==
    ASSUME NEW S, IsFiniteSet(S)
    PROVE  \A s \in SUBSET S :
             /\ IsFiniteSet(s) /\ Cardinality(s) \in Nat
             /\ Cardinality(s) <= Cardinality(S)
             /\ Cardinality(s) <= 0 => s = {}
             /\ s # {} => /\ Pick(s) \in s
                          /\ s \ {Pick(s)} \in SUBSET S
                          /\ Cardinality(s \ {Pick(s)}) = Cardinality(s) - 1
<1>1. \A s \in SUBSET S : /\ IsFiniteSet(s) /\ Cardinality(s) \in Nat
                          /\ Cardinality(s) <= Cardinality(S)
  BY FS_Subset, FS_CardinalityType
<1>2. \A s \in SUBSET S : s # {} =>
        /\ Pick(s) \in s
        /\ s \ {Pick(s)} \in SUBSET S
        /\ Cardinality(s \ {Pick(s)}) = Cardinality(s) - 1
  BY Zenon, <1>1, FS_RemoveElement DEF Pick
<1>3. \A s \in SUBSET S : Cardinality(s) <= 0 => s = {}
  BY <1>1, FS_EmptySet
<1> QED BY <1>1, <1>2, <1>3

\* The recursion has a solution: each unfolding makes a table right for
\* sets one element larger.
LEMMA AddsExists ==
    ASSUME NEW f, NEW S, IsFiniteSet(S), IntOn(f, S)
    PROVE  \E g \in [SUBSET S -> Int] : Adds(g, f, S)
<1> DEFINE T == {n \in Nat : \E g \in [SUBSET S -> Int] : AddsUpTo(g, f, S, n)}
<1>1. 0 \in T
  <2> DEFINE z == [s \in SUBSET S |-> 0]
  <2>1. AddsUpTo(z, f, S, 0)
    BY SubsetFacts DEF AddsUpTo, Unfold
  <2>2. z \in [SUBSET S -> Int]
    OBVIOUS
  <2> HIDE DEF z
  <2> QED BY <2>1, <2>2
<1>2. ASSUME NEW n \in T PROVE n + 1 \in T
  <2>1. PICK g \in [SUBSET S -> Int] : AddsUpTo(g, f, S, n)
    BY Zenon, <1>2
  <2> DEFINE h == Unfold(g, f, S)
  <2>2. n \in Nat
    BY <1>2
  <2>3. h \in [SUBSET S -> Int]
    <3>1. ASSUME NEW s \in SUBSET S, s # {}
          PROVE  f[Pick(s)] \in Int /\ g[s \ {Pick(s)}] \in Int
      BY <3>1, SubsetFacts DEF IntOn
    <3> QED BY <3>1 DEF Unfold
  <2>4. ASSUME NEW s \in SUBSET S, Cardinality(s) <= n + 1
        PROVE  h[s] = Unfold(h, f, S)[s]
    <3>1. CASE s = {}
      BY <3>1 DEF Unfold
    <3>2. CASE s # {}
      <4>1. s \ {Pick(s)} \in SUBSET S /\ Cardinality(s \ {Pick(s)}) <= n
        BY SubsetFacts, <2>2, <2>4, <3>2
      <4>2. g[s \ {Pick(s)}] = h[s \ {Pick(s)}]
        BY <2>1, <4>1 DEF AddsUpTo
      <4>3. h[s] = f[Pick(s)] + g[s \ {Pick(s)}]
        BY <3>2 DEF Unfold
      <4>4. Unfold(h, f, S)[s] = f[Pick(s)] + h[s \ {Pick(s)}]
        BY <3>2 DEF Unfold
      <4> QED BY <4>2, <4>3, <4>4
    <3> QED BY <3>1, <3>2
  <2>5. AddsUpTo(h, f, S, n + 1)
    BY <2>4 DEF AddsUpTo
  <2>6. n + 1 \in Nat
    BY <2>2
  <2> HIDE DEF h
  <2> QED BY <2>3, <2>5, <2>6, Zenon
<1>3. T = Nat
  <2> HIDE DEF T
  <2>1. T \in SUBSET Nat
    BY DEF T
  <2> QED BY <1>1, <1>2, <2>1, NatInductionOnSet
<1>4. PICK g \in [SUBSET S -> Int] : AddsUpTo(g, f, S, Cardinality(S))
  BY Zenon, <1>3, FS_CardinalityType
<1>5. \A s \in SUBSET S : g[s] = Unfold(g, f, S)[s]
  BY Zenon, <1>4, SubsetFacts DEF AddsUpTo
<1>6. g = Unfold(g, f, S)
  BY Zenon, <1>5 DEF Unfold
<1> QED BY <1>6 DEF Adds

\* ... and only one, whatever larger set the table is for.
LEMMA AddsUnique ==
    ASSUME NEW f, NEW S, IsFiniteSet(S), NEW g, Adds(g, f, S),
           NEW R \in SUBSET S, NEW h, Adds(h, f, R)
    PROVE  g[R] = h[R]
<1> DEFINE F == {s \in SUBSET R : g[s] = h[s]}
<1>1. IsFiniteSet(R)
  BY FS_Subset
<1>2. \A s \in SUBSET R :
        /\ g[s] = IF s = {} THEN 0 ELSE f[Pick(s)] + g[s \ {Pick(s)}]
        /\ h[s] = IF s = {} THEN 0 ELSE f[Pick(s)] + h[s \ {Pick(s)}]
  BY Zenon DEF Adds, Unfold
<1>3. {} \in F
  BY <1>2
<1>4. ASSUME NEW s \in SUBSET R, s # {}, \A x \in s : s \ {x} \in F
      PROVE  s \in F
  <2>1. Pick(s) \in s
    BY <1>4 DEF Pick
  <2>2. s \ {Pick(s)} \in F
    BY <1>4, <2>1
  <2> QED BY <1>2, <1>4, <2>2
<1>5. R \in F
  <2> HIDE DEF F
  <2> QED BY Zenon, <1>1, <1>3, <1>4, FiniteInductionOnSet
<1> QED BY <1>5

\* A sum is an integer; nothing adds up to zero; and a sum is its picked
\* element plus the sum of the others.
LEMMA SumUnfold ==
    ASSUME NEW f, NEW S, IsFiniteSet(S), IntOn(f, S)
    PROVE  /\ SumFunctionOnSet(f, S) \in Int
           /\ S = {} => SumFunctionOnSet(f, S) = 0
           /\ S # {} => SumFunctionOnSet(f, S) =
                          f[Pick(S)] + SumFunctionOnSet(f, S \ {Pick(S)})
<1> DEFINE G(R) == CHOOSE g : Adds(g, f, R)
<1>1. ASSUME NEW R \in SUBSET S
      PROVE  \E g \in [SUBSET R -> Int] : Adds(g, f, R)
  <2>1. IsFiniteSet(R) /\ IntOn(f, R)
    BY FS_Subset DEF IntOn
  <2> QED BY Zenon, <2>1, AddsExists
<1>2. ASSUME NEW R \in SUBSET S
      PROVE  Adds(G(R), f, R) /\ SumFunctionOnSet(f, R) = G(R)[R]
  BY Zenon, <1>1, SumDef
<1>3. PICK g \in [SUBSET S -> Int] : Adds(g, f, S)
  BY Zenon, <1>1
<1> HIDE DEF G
<1>4. ASSUME NEW R \in SUBSET S PROVE SumFunctionOnSet(f, R) = g[R]
  BY <1>2, <1>3, AddsUnique
<1>5. g[S] = IF S = {} THEN 0 ELSE f[Pick(S)] + g[S \ {Pick(S)}]
  BY Zenon, <1>3 DEF Adds, Unfold
<1> QED BY <1>3, <1>4, <1>5

\* A sum depends on the values added and nothing else.
LEMMA SumSame ==
    ASSUME NEW S, IsFiniteSet(S), NEW f, IntOn(f, S), NEW g, \A x \in S : g[x] = f[x]
    PROVE  SumFunctionOnSet(g, S) = SumFunctionOnSet(f, S)
<1> DEFINE F == {s \in SUBSET S : SumFunctionOnSet(g, s) = SumFunctionOnSet(f, s)}
<1>1. ASSUME NEW s \in SUBSET S
      PROVE  IsFiniteSet(s) /\ IntOn(f, s) /\ IntOn(g, s) /\ (s # {} => Pick(s) \in s)
  BY FS_Subset DEF IntOn, Pick
<1>2. {} \in F
  BY Zenon, <1>1, SumUnfold
<1>3. ASSUME NEW s \in SUBSET S, s # {}, \A x \in s : s \ {x} \in F
      PROVE  s \in F
  <2>1. /\ Pick(s) \in s /\ g[Pick(s)] = f[Pick(s)]
        /\ s \ {Pick(s)} \in F
    BY <1>1, <1>3
  <2>2. /\ SumFunctionOnSet(f, s) = f[Pick(s)] + SumFunctionOnSet(f, s \ {Pick(s)})
        /\ SumFunctionOnSet(g, s) = g[Pick(s)] + SumFunctionOnSet(g, s \ {Pick(s)})
    BY <1>1, <1>3, SumUnfold
  <2> QED BY <2>1, <2>2
<1>4. S \in F
  <2> HIDE DEF F
  <2> QED BY Zenon, <1>2, <1>3, FiniteInductionOnSet
<1> QED BY <1>4

\* Any element may be added first.
LEMMA SumRemove ==
    ASSUME NEW f, NEW S, IsFiniteSet(S), IntOn(f, S), NEW x \in S
    PROVE  SumFunctionOnSet(f, S) = f[x] + SumFunctionOnSet(f, S \ {x})
<1> DEFINE Sum(s) == SumFunctionOnSet(f, s)
           F == {s \in SUBSET S : \A y \in s : Sum(s) = f[y] + Sum(s \ {y})}
<1>1. ASSUME NEW s \in SUBSET S
      PROVE  /\ Sum(s) \in Int
             /\ s # {} => Pick(s) \in s /\ Sum(s) = f[Pick(s)] + Sum(s \ {Pick(s)})
             /\ \A y \in s : f[y] \in Int
  <2>1. IsFiniteSet(s) /\ IntOn(f, s) /\ (s # {} => Pick(s) \in s)
    BY FS_Subset DEF IntOn, Pick
  <2> QED BY <2>1, SumUnfold DEF IntOn
<1>2. {} \in F
  OBVIOUS
<1>3. ASSUME NEW s \in SUBSET S, s # {}, \A y \in s : s \ {y} \in F
      PROVE  s \in F
  <2> SUFFICES ASSUME NEW y \in s PROVE Sum(s) = f[y] + Sum(s \ {y})
    OBVIOUS
  <2> DEFINE z == Pick(s)
  <2>1. z \in s /\ Sum(s) = f[z] + Sum(s \ {z})
    BY Zenon, <1>1, <1>3
  <2> HIDE DEF z
  <2>2. CASE y = z
    BY <2>1, <2>2
  <2>3. CASE y # z
    <3>1. (s \ {y}) \ {z} = (s \ {z}) \ {y}
      OBVIOUS
    <3>2. Sum(s \ {z}) = f[y] + Sum((s \ {z}) \ {y})
      BY <1>3, <2>1, <2>3
    <3>3. Sum(s \ {y}) = f[z] + Sum((s \ {y}) \ {z})
      BY <1>3, <2>1, <2>3
    <3>4. /\ f[y] \in Int /\ f[z] \in Int
          /\ Sum((s \ {y}) \ {z}) \in Int
      BY Zenon, <1>1, <2>1
    <3>5. Sum((s \ {y}) \ {z}) = Sum((s \ {z}) \ {y})
      BY <3>1
    <3> HIDE DEF Sum
    <3> QED BY <2>1, <3>2, <3>3, <3>4, <3>5
  <2> QED BY <2>2, <2>3
<1>4. S \in F
  <2> HIDE DEF F
  <2> QED BY Zenon, <1>2, <1>3, FiniteInductionOnSet
<1> QED BY <1>4

\* Changing one of the values changes the sum by as much.
LEMMA SumChange ==
    ASSUME NEW S, IsFiniteSet(S), NEW f, IntOn(f, S), NEW g, NEW x \in S,
           g[x] \in Int, \A y \in S \ {x} : g[y] = f[y]
    PROVE  /\ IntOn(g, S)
           /\ SumFunctionOnSet(g, S) = SumFunctionOnSet(f, S) + (g[x] - f[x])
<1>1. IntOn(g, S)
  BY DEF IntOn
<1>2. IsFiniteSet(S \ {x}) /\ IntOn(f, S \ {x})
  BY FS_RemoveElement DEF IntOn
<1>3. /\ SumFunctionOnSet(g, S) = g[x] + SumFunctionOnSet(g, S \ {x})
      /\ SumFunctionOnSet(f, S) = f[x] + SumFunctionOnSet(f, S \ {x})
  BY <1>1, SumRemove
<1>4. SumFunctionOnSet(g, S \ {x}) = SumFunctionOnSet(f, S \ {x})
  BY <1>2, SumSame
<1>5. SumFunctionOnSet(f, S \ {x}) \in Int /\ f[x] \in Int
  BY Zenon, <1>2, SumUnfold DEF IntOn
<1> QED BY <1>1, <1>3, <1>4, <1>5

\* Adding the elements of another set, or renaming them.
LEMMA SumReindex ==
    ASSUME NEW S, IsFiniteSet(S), NEW f, NEW g, NEW h, NEW T, IsFiniteSet(T), IntOn(g, T),
           T = {h[x] : x \in S},
           \A x, y \in S : h[x] = h[y] => x = y,
           \A x \in S : f[x] = g[h[x]]
    PROVE  IntOn(f, S) /\ SumFunctionOnSet(f, S) = SumFunctionOnSet(g, T)
<1> DEFINE Im(s) == {h[x] : x \in s}
           F == {s \in SUBSET S : SumFunctionOnSet(f, s) = SumFunctionOnSet(g, Im(s))}
<1>1. ASSUME NEW s \in SUBSET S
      PROVE  IsFiniteSet(s) /\ IntOn(f, s) /\ IsFiniteSet(Im(s)) /\ IntOn(g, Im(s))
  <2>1. Im(s) \in SUBSET T
    OBVIOUS
  <2> QED BY <2>1, FS_Subset DEF IntOn
<1>2. {} \in F
  <2>1. Im({}) = {}
    OBVIOUS
  <2>2. SumFunctionOnSet(f, {}) = 0 /\ SumFunctionOnSet(g, {}) = 0
    BY Zenon, <1>1, <2>1, SumUnfold
  <2> QED BY <2>1, <2>2
<1>3. ASSUME NEW s \in SUBSET S, s # {}, \A x \in s : s \ {x} \in F
      PROVE  s \in F
  <2>1. PICK x \in s : s \ {x} \in F
    BY <1>3
  <2>2. Im(s \ {x}) = Im(s) \ {h[x]} /\ h[x] \in Im(s) /\ f[x] = g[h[x]]
    OBVIOUS
  <2>3. SumFunctionOnSet(f, s) = f[x] + SumFunctionOnSet(f, s \ {x})
    <3> HIDE DEF Im, F
    <3> QED BY <1>1, SumRemove
  <2>4. SumFunctionOnSet(g, Im(s)) = g[h[x]] + SumFunctionOnSet(g, Im(s) \ {h[x]})
    <3> HIDE DEF Im
    <3> QED BY <1>1, <2>2, SumRemove
  <2>5. SumFunctionOnSet(f, s \ {x}) = SumFunctionOnSet(g, Im(s \ {x}))
    BY <2>1
  <2>6. SumFunctionOnSet(f, s) = SumFunctionOnSet(g, Im(s))
    <3> HIDE DEF Im
    <3> QED BY <2>2, <2>3, <2>4, <2>5
  <2> QED BY <2>6
<1>4. S \in F
  <2> HIDE DEF F
  <2> QED BY Zenon, <1>2, <1>3, FiniteInductionOnSet
<1>5. T = Im(S)
  OBVIOUS
<1> QED BY <1>1, <1>4, <1>5

\* Larger values make a larger sum.
LEMMA SumMonotone ==
    ASSUME NEW S, IsFiniteSet(S), NEW f, IntOn(f, S), NEW g, IntOn(g, S),
           \A x \in S : f[x] <= g[x]
    PROVE  SumFunctionOnSet(f, S) <= SumFunctionOnSet(g, S)
<1> DEFINE F == {s \in SUBSET S : SumFunctionOnSet(f, s) <= SumFunctionOnSet(g, s)}
<1>1. ASSUME NEW s \in SUBSET S
      PROVE  IsFiniteSet(s) /\ IntOn(f, s) /\ IntOn(g, s)
  BY FS_Subset DEF IntOn
<1>2. {} \in F
  <2>1. SumFunctionOnSet(f, {}) = 0 /\ SumFunctionOnSet(g, {}) = 0
    BY Zenon, <1>1, SumUnfold
  <2> QED BY <2>1
<1>3. ASSUME NEW s \in SUBSET S, s # {}, \A x \in s : s \ {x} \in F
      PROVE  s \in F
  <2>1. PICK x \in s : s \ {x} \in F
    BY <1>3
  <2>2. /\ SumFunctionOnSet(f, s) = f[x] + SumFunctionOnSet(f, s \ {x})
        /\ SumFunctionOnSet(g, s) = g[x] + SumFunctionOnSet(g, s \ {x})
    BY <1>1, SumRemove
  <2>3. /\ SumFunctionOnSet(f, s \ {x}) \in Int /\ SumFunctionOnSet(g, s \ {x}) \in Int
        /\ f[x] \in Int /\ g[x] \in Int /\ f[x] <= g[x]
    BY Zenon, <1>1, SumUnfold DEF IntOn
  <2> QED BY <2>1, <2>2, <2>3
<1>4. S \in F
  <2> HIDE DEF F
  <2> QED BY <1>2, <1>3, FiniteInductionOnSet
<1> QED BY <1>4

\* A sum of sums.
LEMMA SumPlus ==
    ASSUME NEW S, IsFiniteSet(S), NEW f, NEW g, IntOn(g, S), NEW h, IntOn(h, S),
           \A x \in S : f[x] = g[x] + h[x]
    PROVE  SumFunctionOnSet(f, S) = SumFunctionOnSet(g, S) + SumFunctionOnSet(h, S)
<1> DEFINE F == {s \in SUBSET S : SumFunctionOnSet(f, s) =
                   SumFunctionOnSet(g, s) + SumFunctionOnSet(h, s)}
<1>1. ASSUME NEW s \in SUBSET S
      PROVE  IsFiniteSet(s) /\ IntOn(f, s) /\ IntOn(g, s) /\ IntOn(h, s)
  BY FS_Subset DEF IntOn
<1>2. {} \in F
  <2>1. /\ SumFunctionOnSet(f, {}) = 0 /\ SumFunctionOnSet(g, {}) = 0
        /\ SumFunctionOnSet(h, {}) = 0
    BY Zenon, <1>1, SumUnfold
  <2> QED BY <2>1
<1>3. ASSUME NEW s \in SUBSET S, s # {}, \A x \in s : s \ {x} \in F
      PROVE  s \in F
  <2>1. PICK x \in s : s \ {x} \in F
    BY <1>3
  <2> DEFINE r == s \ {x}
  <2>2. /\ SumFunctionOnSet(f, s) = f[x] + SumFunctionOnSet(f, r)
        /\ SumFunctionOnSet(g, s) = g[x] + SumFunctionOnSet(g, r)
        /\ SumFunctionOnSet(h, s) = h[x] + SumFunctionOnSet(h, r)
    BY <1>1, SumRemove
  <2>3. /\ SumFunctionOnSet(g, r) \in Int /\ SumFunctionOnSet(h, r) \in Int
        /\ g[x] \in Int /\ h[x] \in Int /\ f[x] = g[x] + h[x]
    BY Zenon, <1>1, SumUnfold DEF IntOn
  <2>4. SumFunctionOnSet(f, r) = SumFunctionOnSet(g, r) + SumFunctionOnSet(h, r)
    BY <2>1
  <2>5. SumFunctionOnSet(f, s) = SumFunctionOnSet(g, s) + SumFunctionOnSet(h, s)
    <3> HIDE DEF r
    <3> QED BY <2>2, <2>3, <2>4
  <2> QED BY <2>5
<1>4. S \in F
  <2> HIDE DEF F
  <2> QED BY <1>2, <1>3, FiniteInductionOnSet
<1> QED BY <1>4

\* The same value n times.
LEMMA SumConstant ==
    ASSUME NEW S, IsFiniteSet(S), NEW f, NEW c \in Int, \A x \in S : f[x] = c
    PROVE  SumFunctionOnSet(f, S) = c * Cardinality(S)
<1> DEFINE F == {s \in SUBSET S : SumFunctionOnSet(f, s) = c * Cardinality(s)}
<1>1. ASSUME NEW s \in SUBSET S
      PROVE  IsFiniteSet(s) /\ IntOn(f, s) /\ Cardinality(s) \in Nat
  BY FS_Subset, FS_CardinalityType DEF IntOn
<1>2. {} \in F
  <2>1. SumFunctionOnSet(f, {}) = 0 /\ Cardinality({}) = 0
    BY Zenon, <1>1, SumUnfold, FS_EmptySet
  <2> QED BY <2>1
<1>3. ASSUME NEW s \in SUBSET S, s # {}, \A x \in s : s \ {x} \in F
      PROVE  s \in F
  <2>1. PICK x \in s : s \ {x} \in F
    BY <1>3
  <2>2. SumFunctionOnSet(f, s) = c + SumFunctionOnSet(f, s \ {x})
    BY <1>1, SumRemove
  <2>3. Cardinality(s \ {x}) = Cardinality(s) - 1
    BY <1>1, FS_RemoveElement
  <2>4. SumFunctionOnSet(f, s \ {x}) = c * (Cardinality(s) - 1)
    BY <2>1, <2>3
  <2>5. \A n \in Nat : c + c * (n - 1) = c * n
    OBVIOUS
  <2> QED BY <1>1, <2>2, <2>4, <2>5
<1>4. S \in F
  <2> HIDE DEF F
  <2> QED BY Zenon, <1>2, <1>3, FiniteInductionOnSet
<1> QED BY <1>4
=============================================================================
