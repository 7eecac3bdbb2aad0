---------------------------- MODULE SumTheorems ----------------------------
(***************************************************************************)
(* What SumFunctionOnSet of the community modules computes on a finite     *)
(* set: the facts that the conservation and exposure proofs need of the    *)
(* sums of quantities over orders and fills.  The sum is a fold that takes *)
(* the set apart at elements chosen by CHOOSE; the lemmas below free it of *)
(* that choice.  Each is proved by induction over the subsets of the set,  *)
(* which is well-founded induction on the strict subset ordering.          *)
(***************************************************************************)
EXTENDS Functions, FiniteSetTheorems, WellFoundedInduction, TLAPS

\* Induction over the subsets of a finite set: what a set inherits from its
\* strict subsets holds of every one.  G is the set of those it holds of.
LEMMA SubsetInduction ==
  ASSUME NEW S, IsFiniteSet(S), NEW G,
         \A s \in SUBSET S : (\A t \in SUBSET s : t # s => t \in G) => s \in G
  PROVE  \A s \in SUBSET S : s \in G
<1> SUFFICES ASSUME \E s \in SUBSET S : s \notin G
             PROVE  FALSE
  OBVIOUS
<1>1. PICK bad : bad = {s \in SUBSET S : s \notin G}
  OBVIOUS
<1>2. FiniteSubsetsOf(S) = SUBSET S
  BY FS_FiniteSubsetsOfFinite
<1>3. PICK R : R = StrictSubsetOrdering(S) /\ IsWellFoundedOn(R, SUBSET S)
  <2>1. IsWellFoundedOn(StrictSubsetOrdering(S), FiniteSubsetsOf(S))
    BY FS_StrictSubsetOrderingWellFounded
  <2>2. PICK R, F : R = StrictSubsetOrdering(S) /\ F = FiniteSubsetsOf(S)
    OBVIOUS
  <2>3. IsWellFoundedOn(R, F)
    BY <2>1, <2>2
  <2> QED BY <1>2, <2>2, <2>3
<1>4. PICK s \in bad : \A t \in bad : ~(<<t, s>> \in R)
  BY <1>1, <1>3, WFMin
<1>5. \A t \in SUBSET s : t # s => t \in G
  BY <1>1, <1>3, <1>4 DEF StrictSubsetOrdering
<1> QED
  BY <1>1, <1>4, <1>5

\* g is the recursive function that the fold over S is defined by.
IterOver(f, S, g) ==
  g = [s \in SUBSET S |->
         IF s = {} THEN 0
         ELSE LET x == CHOOSE x \in s : TRUE
              IN f[x] + g[s \ {x}]]

\* The fold's own function.
Iter(f, S) == CHOOSE g : IterOver(f, S, g)

\* The element at which the fold takes a set apart.
Chosen(s) == CHOOSE x \in s : TRUE

\* The sum is the value of that function at the whole set.
LEMMA SumIsIter ==
  ASSUME NEW f, NEW S
  PROVE  SumFunctionOnSet(f, S) = Iter(f, S)[S]
BY DEF SumFunctionOnSet, FoldFunctionOnSet, MapThenFoldSet, Iter, IterOver

\* The chosen element is one of the set.
LEMMA ChosenInSet ==
  ASSUME NEW s, s # {}
  PROVE  Chosen(s) \in s
BY DEF Chosen

\* One step of the recursion.
LEMMA IterStep ==
  ASSUME NEW f, NEW S, NEW g, IterOver(f, S, g), NEW s \in SUBSET S
  PROVE  g[s] = IF s = {} THEN 0 ELSE f[Chosen(s)] + g[s \ {Chosen(s)}]
BY DEF IterOver, Chosen

\* The recursion determines its function, on every subset of either domain.
LEMMA IterUnique ==
  ASSUME NEW f, NEW S, IsFiniteSet(S), NEW T, NEW g, NEW h,
         IterOver(f, S, g), IterOver(f, T, h), S \subseteq T
  PROVE  \A s \in SUBSET S : g[s] = h[s]
<1>1. PICK G : G = {s \in SUBSET S : g[s] = h[s]}
  OBVIOUS
<1>2. ASSUME NEW s \in SUBSET S, \A t \in SUBSET s : t # s => t \in G
      PROVE  s \in G
  <2>1. CASE s = {}
    BY <1>1, <2>1, IterStep
  <2>2. CASE s # {}
    <3>1. PICK x : x = Chosen(s)
      OBVIOUS
    <3>2. x \in s
      BY <2>2, <3>1, ChosenInSet
    <3>3. g[s \ {x}] = h[s \ {x}]
      BY <1>1, <1>2, <3>2
    <3>4. g[s] = f[x] + g[s \ {x}]
      BY <2>2, <3>1, IterStep
    <3>5. h[s] = f[x] + h[s \ {x}]
      <4>1. s \in SUBSET T
        OBVIOUS
      <4> QED BY <2>2, <3>1, <4>1, IterStep
    <3> QED
      BY <1>1, <3>3, <3>4, <3>5
  <2> QED
    BY <2>1, <2>2
<1>3. \A s \in SUBSET S : s \in G
  BY <1>2, SubsetInduction
<1> QED
  BY <1>1, <1>3

\* The recursion has a solution, so CHOOSE finds it.
LEMMA IterExists ==
  ASSUME NEW f, NEW S, IsFiniteSet(S)
  PROVE  \A s \in SUBSET S : IterOver(f, s, Iter(f, s))
<1>1. PICK G : G = {s \in SUBSET S : IterOver(f, s, Iter(f, s))}
  OBVIOUS
<1>2. ASSUME NEW s \in SUBSET S, \A t \in SUBSET s : t # s => t \in G
      PROVE  s \in G
  <2> DEFINE smaller(t) == Iter(f, t)[t]
             all == IF s = {} THEN 0 ELSE f[Chosen(s)] + smaller(s \ {Chosen(s)})
             g == [t \in SUBSET s |-> IF t = s THEN all ELSE smaller(t)]
  <2>1. ASSUME NEW t \in SUBSET s, t # s, t # {}
        PROVE  smaller(t) = f[Chosen(t)] + smaller(t \ {Chosen(t)})
    <3>1. PICK u : u = t \ {Chosen(t)}
      OBVIOUS
    <3>2. u \in SUBSET t /\ u # t /\ u \in SUBSET s /\ u # s
      BY <2>1, <3>1, ChosenInSet
    <3>3. IterOver(f, t, Iter(f, t)) /\ IterOver(f, u, Iter(f, u)) /\ IsFiniteSet(u)
      BY <1>1, <1>2, <2>1, <3>2, FS_Subset
    <3>4. Iter(f, u)[u] = Iter(f, t)[u]
      BY <3>2, <3>3, IterUnique
    <3>5. Iter(f, t)[t] = f[Chosen(t)] + Iter(f, t)[u]
      BY <2>1, <3>1, <3>3, IterStep
    <3> QED
      BY <3>1, <3>4, <3>5
  <2>2. ASSUME s # {}
        PROVE  smaller({}) = 0
    <3>1. IterOver(f, {}, Iter(f, {}))
      BY <1>1, <1>2, <2>2
    <3> QED BY <3>1, IterStep
  <2>3. ASSUME NEW t \in SUBSET s
        PROVE  g[t] = IF t = {} THEN 0 ELSE f[Chosen(t)] + g[t \ {Chosen(t)}]
    <3>1. CASE t = {}
      BY <3>1, <2>2
    <3>2. CASE t # {}
      <4>1. PICK u : u = t \ {Chosen(t)}
        OBVIOUS
      <4>2. u \in SUBSET s /\ u # s
        BY <3>2, <4>1, ChosenInSet
      <4>3. g[u] = smaller(u)
        BY <4>2
      <4>4. CASE t = s
        BY <3>2, <4>1, <4>3, <4>4
      <4>5. CASE t # s
        BY <3>2, <4>1, <4>3, <4>5, <2>1
      <4> QED BY <4>4, <4>5
    <3> QED BY <3>1, <3>2
  <2>4. IterOver(f, s, g)
    <3>1. g = [t \in SUBSET s |-> g[t]]
      OBVIOUS
    <3> HIDE DEF g
    <3> QED BY <2>3, <3>1, Zenon DEF IterOver, Chosen
  <2>5. IterOver(f, s, Iter(f, s))
    <3> HIDE DEF g
    <3> QED BY <2>4 DEF Iter
  <2> QED
    BY <1>1, <2>5
<1>3. \A s \in SUBSET S : s \in G
  BY <1>2, SubsetInduction
<1> QED
  BY <1>1, <1>3

\* The sum over no element.
LEMMA SumEmpty ==
  ASSUME NEW f
  PROVE  SumFunctionOnSet(f, {}) = 0
<1>1. IterOver(f, {}, Iter(f, {}))
  BY IterExists, FS_EmptySet
<1> QED
  BY <1>1, IterStep, SumIsIter

\* The sum is the chosen term and the sum over the others.
LEMMA SumChosen ==
  ASSUME NEW f, NEW S, IsFiniteSet(S), S # {}
  PROVE  SumFunctionOnSet(f, S) = f[Chosen(S)] + SumFunctionOnSet(f, S \ {Chosen(S)})
<1>1. PICK u : u = S \ {Chosen(S)}
  OBVIOUS
<1>2. u \in SUBSET S /\ IsFiniteSet(u)
  BY <1>1, FS_Subset
<1>3. IterOver(f, S, Iter(f, S)) /\ IterOver(f, u, Iter(f, u))
  BY <1>2, IterExists
<1>4. Iter(f, u)[u] = Iter(f, S)[u]
  BY <1>2, <1>3, IterUnique
<1>5. Iter(f, S)[S] = f[Chosen(S)] + Iter(f, S)[u]
  BY <1>1, <1>3, IterStep
<1> QED
  BY <1>1, <1>4, <1>5, SumIsIter

\* A sum of integers is an integer.
LEMMA SumInt ==
  ASSUME NEW f, NEW S, IsFiniteSet(S), \A x \in S : f[x] \in Int
  PROVE  SumFunctionOnSet(f, S) \in Int
<1>1. PICK G : G = {s \in SUBSET S : SumFunctionOnSet(f, s) \in Int}
  OBVIOUS
<1>2. ASSUME NEW s \in SUBSET S, \A t \in SUBSET s : t # s => t \in G
      PROVE  s \in G
  <2>1. CASE s = {}
    BY <1>1, <2>1, SumEmpty
  <2>2. CASE s # {}
    <3>1. PICK x : x = Chosen(s)
      OBVIOUS
    <3>2. x \in s /\ IsFiniteSet(s)
      BY <2>2, <3>1, ChosenInSet, FS_Subset
    <3>3. SumFunctionOnSet(f, s \ {x}) \in Int /\ f[x] \in Int
      BY <1>1, <1>2, <3>2
    <3>4. SumFunctionOnSet(f, s) = f[x] + SumFunctionOnSet(f, s \ {x})
      BY <2>2, <3>1, <3>2, SumChosen
    <3> QED
      BY <1>1, <3>3, <3>4
  <2> QED
    BY <2>1, <2>2
<1>3. \A s \in SUBSET S : s \in G
  BY <1>2, SubsetInduction
<1> QED
  BY <1>1, <1>3

\* The sum may be taken apart at any element, not only at the chosen one.
LEMMA SumRemove ==
  ASSUME NEW f, NEW S, IsFiniteSet(S), \A x \in S : f[x] \in Int, NEW y \in S
  PROVE  SumFunctionOnSet(f, S) = f[y] + SumFunctionOnSet(f, S \ {y})
<1> DEFINE Splits(s, z) == SumFunctionOnSet(f, s) = f[z] + SumFunctionOnSet(f, s \ {z})
<1>1. PICK G : G = {s \in SUBSET S : \A z \in s : Splits(s, z)}
  OBVIOUS
<1>2. ASSUME NEW s \in SUBSET S, \A t \in SUBSET s : t # s => t \in G, NEW z \in s
      PROVE  Splits(s, z)
  <2>1. PICK x : x = Chosen(s)
    OBVIOUS
  <2>2. x \in s /\ IsFiniteSet(s)
    BY <2>1, ChosenInSet, FS_Subset
  <2>3. SumFunctionOnSet(f, s) = f[x] + SumFunctionOnSet(f, s \ {x})
    BY <2>1, <2>2, SumChosen
  <2>4. CASE z = x
    BY <2>3, <2>4
  <2>5. CASE z # x
    <3>1. PICK rest : rest = (s \ {x}) \ {z}
      OBVIOUS
    <3>2. rest = (s \ {z}) \ {x}
      BY <3>1
    <3>3. s \ {x} \in G /\ z \in s \ {x}
      BY <1>2, <2>2, <2>5
    <3>4. SumFunctionOnSet(f, s \ {x}) = f[z] + SumFunctionOnSet(f, rest)
      BY <1>1, <3>1, <3>3
    <3>5. s \ {z} \in G /\ x \in s \ {z}
      BY <1>2, <2>2, <2>5
    <3>6. SumFunctionOnSet(f, s \ {z}) = f[x] + SumFunctionOnSet(f, rest)
      BY <1>1, <3>2, <3>5
    <3>7. IsFiniteSet(rest) /\ \A v \in rest : f[v] \in Int
      BY <3>1, FS_Subset
    <3>8. SumFunctionOnSet(f, rest) \in Int
      BY <3>7, SumInt
    <3>9. f[x] \in Int /\ f[z] \in Int
      BY <2>2
    <3> QED
      BY <2>3, <3>4, <3>6, <3>8, <3>9
  <2> QED
    BY <2>4, <2>5
<1>3. ASSUME NEW s \in SUBSET S, \A t \in SUBSET s : t # s => t \in G
      PROVE  s \in G
  BY <1>1, <1>2, <1>3
<1>4. \A s \in SUBSET S : s \in G
  BY <1>3, SubsetInduction
<1> QED
  BY <1>1, <1>4

\* The sum over a set with one more element.
LEMMA SumAdd ==
  ASSUME NEW f, NEW S, IsFiniteSet(S), NEW y, y \notin S,
         \A x \in S \cup {y} : f[x] \in Int
  PROVE  SumFunctionOnSet(f, S \cup {y}) = f[y] + SumFunctionOnSet(f, S)
<1>1. IsFiniteSet(S \cup {y})
  BY FS_AddElement
<1>2. (S \cup {y}) \ {y} = S
  OBVIOUS
<1>3. SumFunctionOnSet(f, S \cup {y}) = f[y] + SumFunctionOnSet(f, (S \cup {y}) \ {y})
  BY <1>1, SumRemove
<1> QED
  BY <1>2, <1>3

\* Term by term: the sum of two functions.
LEMMA SumOfSums ==
  ASSUME NEW f, NEW g, NEW h, NEW S, IsFiniteSet(S),
         \A x \in S : f[x] \in Int /\ g[x] \in Int /\ h[x] = f[x] + g[x]
  PROVE  SumFunctionOnSet(h, S) = SumFunctionOnSet(f, S) + SumFunctionOnSet(g, S)
<1> DEFINE Adds(s) == SumFunctionOnSet(h, s)
                        = SumFunctionOnSet(f, s) + SumFunctionOnSet(g, s)
<1>1. PICK G : G = {s \in SUBSET S : Adds(s)}
  OBVIOUS
<1>2. ASSUME NEW s \in SUBSET S, \A t \in SUBSET s : t # s => t \in G
      PROVE  s \in G
  <2>1. CASE s = {}
    BY <1>1, <2>1, SumEmpty
  <2>2. CASE s # {}
    <3>1. PICK x \in s : TRUE
      BY <2>2
    <3>2. IsFiniteSet(s) /\ IsFiniteSet(s \ {x})
      BY FS_Subset
    <3>3. Adds(s \ {x})
      BY <1>1, <1>2
    <3>4. \A v \in s : f[v] \in Int /\ g[v] \in Int /\ h[v] \in Int /\ h[v] = f[v] + g[v]
      OBVIOUS
    <3>5. /\ SumFunctionOnSet(f, s) = f[x] + SumFunctionOnSet(f, s \ {x})
          /\ SumFunctionOnSet(g, s) = g[x] + SumFunctionOnSet(g, s \ {x})
          /\ SumFunctionOnSet(h, s) = h[x] + SumFunctionOnSet(h, s \ {x})
      BY <3>2, <3>4, SumRemove
    <3>6. /\ SumFunctionOnSet(f, s \ {x}) \in Int
          /\ SumFunctionOnSet(g, s \ {x}) \in Int
      BY <3>2, <3>4, SumInt
    <3> QED
      BY <1>1, <3>3, <3>4, <3>5, <3>6
  <2> QED
    BY <2>1, <2>2
<1>3. \A s \in SUBSET S : s \in G
  BY <1>2, SubsetInduction
<1> QED
  BY <1>1, <1>3

\* A sum of natural numbers is a natural number.
LEMMA SumNat ==
  ASSUME NEW f, NEW S, IsFiniteSet(S), \A x \in S : f[x] \in Nat
  PROVE  SumFunctionOnSet(f, S) \in Nat
<1>1. PICK G : G = {s \in SUBSET S : SumFunctionOnSet(f, s) \in Nat}
  OBVIOUS
<1>2. ASSUME NEW s \in SUBSET S, \A t \in SUBSET s : t # s => t \in G
      PROVE  s \in G
  <2>1. CASE s = {}
    BY <1>1, <2>1, SumEmpty
  <2>2. CASE s # {}
    <3>1. PICK x : x = Chosen(s)
      OBVIOUS
    <3>2. x \in s /\ IsFiniteSet(s)
      BY <2>2, <3>1, ChosenInSet, FS_Subset
    <3>3. SumFunctionOnSet(f, s \ {x}) \in Nat /\ f[x] \in Nat
      BY <1>1, <1>2, <3>2
    <3>4. SumFunctionOnSet(f, s) = f[x] + SumFunctionOnSet(f, s \ {x})
      BY <2>2, <3>1, <3>2, SumChosen
    <3> QED
      BY <1>1, <3>3, <3>4
  <2> QED
    BY <2>1, <2>2
<1>3. \A s \in SUBSET S : s \in G
  BY <1>2, SubsetInduction
<1> QED
  BY <1>1, <1>3

\* Equal terms have equal sums.
LEMMA SumEqual ==
  ASSUME NEW f, NEW g, NEW S, IsFiniteSet(S),
         \A x \in S : f[x] \in Int /\ g[x] = f[x]
  PROVE  SumFunctionOnSet(g, S) = SumFunctionOnSet(f, S)
<1>1. PICK zero : zero = [x \in S |-> 0]
  OBVIOUS
<1>2. SumFunctionOnSet(g, S) = SumFunctionOnSet(f, S) + SumFunctionOnSet(zero, S)
  BY <1>1, SumOfSums
<1>3. SumFunctionOnSet(f, S) = SumFunctionOnSet(f, S) + SumFunctionOnSet(zero, S)
  BY <1>1, SumOfSums
<1> QED
  BY <1>2, <1>3

\* A sum grows with its terms.
LEMMA SumAtMost ==
  ASSUME NEW f, NEW g, NEW S, IsFiniteSet(S),
         \A x \in S : f[x] \in Int /\ g[x] \in Int /\ f[x] <= g[x]
  PROVE  SumFunctionOnSet(f, S) <= SumFunctionOnSet(g, S)
<1>1. PICK more : more = [x \in S |-> g[x] - f[x]]
  OBVIOUS
<1>2. \A x \in S : more[x] \in Nat /\ g[x] = f[x] + more[x]
  BY <1>1
<1>3. SumFunctionOnSet(g, S) = SumFunctionOnSet(f, S) + SumFunctionOnSet(more, S)
  BY <1>2, SumOfSums
<1>4. SumFunctionOnSet(more, S) \in Nat /\ SumFunctionOnSet(f, S) \in Int
  BY <1>2, SumNat, SumInt
<1> QED
  BY <1>3, <1>4

\* A change of one term changes the sum by as much.
LEMMA SumChange ==
  ASSUME NEW f, NEW g, NEW S, IsFiniteSet(S), NEW y \in S,
         \A x \in S : f[x] \in Int /\ g[x] \in Int,
         \A x \in S \ {y} : g[x] = f[x]
  PROVE  SumFunctionOnSet(g, S) = SumFunctionOnSet(f, S) + (g[y] - f[y])
<1>1. PICK T : T = S \ {y}
  OBVIOUS
<1>2. IsFiniteSet(T) /\ \A x \in T : f[x] \in Int /\ g[x] = f[x]
  BY <1>1, FS_Subset
<1>3. SumFunctionOnSet(g, T) = SumFunctionOnSet(f, T) /\ SumFunctionOnSet(f, T) \in Int
  BY <1>2, SumEqual, SumInt
<1>4. /\ SumFunctionOnSet(f, S) = f[y] + SumFunctionOnSet(f, T)
      /\ SumFunctionOnSet(g, S) = g[y] + SumFunctionOnSet(g, T)
  BY <1>1, SumRemove
<1> QED
  BY <1>3, <1>4

\* Terms within c of zero add up to at most c for each.
LEMMA SumWithin ==
  ASSUME NEW f, NEW S, IsFiniteSet(S), NEW c \in Nat, \A x \in S : f[x] \in (-c)..c
  PROVE  SumFunctionOnSet(f, S) \in (-(c * Cardinality(S)))..(c * Cardinality(S))
<1> DEFINE Within(s) ==
             SumFunctionOnSet(f, s) \in (-(c * Cardinality(s)))..(c * Cardinality(s))
<1>1. PICK G : G = {s \in SUBSET S : Within(s)}
  OBVIOUS
<1>2. ASSUME NEW s \in SUBSET S, \A t \in SUBSET s : t # s => t \in G
      PROVE  s \in G
  <2>1. CASE s = {}
    BY <1>1, <2>1, SumEmpty, FS_EmptySet
  <2>2. CASE s # {}
    <3>1. PICK x \in s : TRUE
      BY <2>2
    <3>2. IsFiniteSet(s) /\ IsFiniteSet(s \ {x})
      BY FS_Subset
    <3>3. Within(s \ {x})
      BY <1>1, <1>2
    <3>4. SumFunctionOnSet(f, s) = f[x] + SumFunctionOnSet(f, s \ {x})
      BY <3>2, SumRemove
    <3>5. PICK n \in Nat : Cardinality(s) = n + 1 /\ Cardinality(s \ {x}) = n
      BY <3>2, FS_RemoveElement, FS_CardinalityType
    <3>6. PICK m \in Nat : c * n = m /\ c * (n + 1) = m + c
      OBVIOUS
    <3>7. SumFunctionOnSet(f, s \ {x}) \in (-m)..m /\ f[x] \in (-c)..c
      BY <3>3, <3>5, <3>6
    <3>8. SumFunctionOnSet(f, s) \in (-(m + c))..(m + c)
      BY <3>4, <3>7
    <3>9. Within(s)
      BY <3>5, <3>6, <3>8
    <3> QED
      BY <1>1, <3>9
  <2> QED
    BY <2>1, <2>2
<1>3. \A s \in SUBSET S : s \in G
  BY <1>2, SubsetInduction
<1> QED
  BY <1>1, <1>3

\* Terms that are zero outside a subset leave the sum over the subset.
LEMMA SumRestrict ==
  ASSUME NEW f, NEW g, NEW S, IsFiniteSet(S), NEW T \in SUBSET S,
         \A x \in T : f[x] \in Int /\ g[x] = f[x],
         \A x \in S \ T : g[x] = 0
  PROVE  SumFunctionOnSet(g, S) = SumFunctionOnSet(f, T)
<1> DEFINE Same(s) == SumFunctionOnSet(g, s) = SumFunctionOnSet(f, s \cap T)
<1>1. PICK G : G = {s \in SUBSET S : Same(s)}
  OBVIOUS
<1>2. ASSUME NEW s \in SUBSET S, \A t \in SUBSET s : t # s => t \in G
      PROVE  s \in G
  <2>1. CASE s = {}
    <3>1. {} \cap T = {}
      OBVIOUS
    <3> QED
      BY <1>1, <2>1, <3>1, SumEmpty
  <2>2. CASE s # {}
    <3>1. PICK x \in s : TRUE
      BY <2>2
    <3>2. PICK rest : rest = s \ {x}
      OBVIOUS
    <3>3. IsFiniteSet(s) /\ IsFiniteSet(rest) /\ IsFiniteSet(s \cap T) /\ IsFiniteSet(rest \cap T)
      BY <3>2, FS_Subset
    <3>4. Same(rest)
      BY <1>1, <1>2, <3>2
    <3>5. SumFunctionOnSet(g, s) = g[x] + SumFunctionOnSet(g, rest)
      BY <3>2, <3>3, SumRemove
    <3>6. SumFunctionOnSet(g, rest) \in Int
      BY <3>2, <3>3, SumInt
    <3>7. CASE x \in T
      <4>1. rest \cap T = (s \cap T) \ {x}
        BY <3>2
      <4>2. SumFunctionOnSet(f, s \cap T) = f[x] + SumFunctionOnSet(f, (s \cap T) \ {x})
        BY <3>3, <3>7, SumRemove
      <4> QED
        BY <1>1, <3>4, <3>5, <3>7, <4>1, <4>2
    <3>8. CASE x \notin T
      <4>1. rest \cap T = s \cap T /\ g[x] = 0
        BY <3>2, <3>8
      <4>2. SumFunctionOnSet(g, s) = SumFunctionOnSet(g, rest)
        BY <3>5, <3>6, <4>1
      <4>3. Same(s)
        BY <3>4, <4>1, <4>2
      <4> QED
        BY <1>1, <4>3
    <3> QED
      BY <3>7, <3>8
  <2> QED
    BY <2>1, <2>2
<1>3. S \cap T = T /\ S \in SUBSET S
  OBVIOUS
<1>4. \A s \in SUBSET S : s \in G
  BY <1>2, SubsetInduction
<1> QED
  BY <1>1, <1>3, <1>4

=============================================================================
