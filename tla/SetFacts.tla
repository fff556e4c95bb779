------------------------------- MODULE SetFacts -------------------------------
(***************************************************************************)
(* Facts about sets that the proofs share: the least element of a set of   *)
(* numbers, and sums over finite sets.  MapThenSumSet is a recursive       *)
(* function on the subsets of its set, so that its equation, and whatever  *)
(* is wanted of a sum, takes an induction over finite sets.  Induction is  *)
(* stated with a set of the good subsets instead of a predicate.           *)
(***************************************************************************)
EXTENDS FiniteSetsExt, FiniteSetTheorems, TLAPS

\* A set of natural numbers has a least element.
LEMMA MinFacts ==
  ASSUME NEW S \in SUBSET Nat, S # {}
  PROVE  Min(S) \in S /\ \A y \in S : Min(S) <= y
<1> DEFINE Less == {ss \in Nat \X Nat : ss[1] < ss[2]}
<1>0. IsWellFoundedOn(Less, Nat)
  BY NatLessThanWellFounded DEF OpToRel
<1>1. PICK x \in S : \A y \in S : <<y, x>> \notin Less
  <2> HIDE DEF Less
  <2> QED
    BY <1>0, WFMin
<1>2. \A y \in S : x <= y
  <2> SUFFICES ASSUME NEW y \in S PROVE x <= y
    OBVIOUS
  <2>1. x \in Nat /\ y \in Nat
    OBVIOUS
  <2>2. ~(y < x)
    BY <1>1, <2>1
  <2> QED
    BY <2>1, <2>2
<1> QED
  BY <1>2 DEF Min

\* A set of natural numbers with a bound has a greatest element.
LEMMA MaxFacts ==
  ASSUME NEW S \in SUBSET Nat, S # {}, NEW n \in Nat, \A y \in S : y <= n
  PROVE  Max(S) \in S /\ \A y \in S : y <= Max(S)
<1> DEFINE T == {n - y : y \in S}
<1>1. T \in SUBSET Nat /\ T # {}
  <2>1. \A y \in S : y \in Nat /\ n - y \in Nat
    OBVIOUS
  <2> QED
    BY <2>1
<1>2. PICK t \in T : \A u \in T : t <= u
  <2> HIDE DEF T
  <2> QED
    BY <1>1, MinFacts
<1>3. PICK x \in S : t = n - x
  BY <1>2
<1>4. \A y \in S : y <= x
  <2> SUFFICES ASSUME NEW y \in S PROVE y <= x
    OBVIOUS
  <2>1. t <= n - y
    BY <1>2
  <2>2. x \in Nat /\ y \in Nat
    OBVIOUS
  <2> QED
    BY <1>3, <2>1, <2>2
<1> QED
  BY <1>4 DEF Max

\* A set of subsets that holds every subset whose proper subsets it holds
\* holds the whole set.
LEMMA SubsetInduction ==
  ASSUME NEW S, IsFiniteSet(S), NEW Good,
         \A T \in SUBSET S : (\A U \in SUBSET T : U # T => U \in Good) => T \in Good
  PROVE  \A T \in SUBSET S : T \in Good
<1> DEFINE Bad == {T \in SUBSET S : T \notin Good}
<1> SUFFICES ASSUME Bad # {} PROVE FALSE
  OBVIOUS
<1>1. IsWellFoundedOn(StrictSubsetOrdering(S), SUBSET S)
  <2>1. FiniteSubsetsOf(S) = SUBSET S
    BY FS_FiniteSubsetsOfFinite
  <2>2. IsWellFoundedOn(StrictSubsetOrdering(S), FiniteSubsetsOf(S))
    BY FS_StrictSubsetOrderingWellFounded
  <2> QED
    BY <2>1, <2>2
<1>2. Bad \subseteq SUBSET S
  OBVIOUS
<1> HIDE DEF Bad
<1>3. PICK T \in Bad : \A U \in Bad : <<U, T>> \notin StrictSubsetOrdering(S)
  BY <1>1, <1>2, WFMin
<1>4. \A U \in SUBSET T : U # T => U \in Good
  <2> SUFFICES ASSUME NEW U \in SUBSET T, U # T, U \notin Good PROVE FALSE
    OBVIOUS
  <2>1. T \in SUBSET S /\ U \in SUBSET S
    BY <1>3 DEF Bad
  <2>2. U \in Bad
    BY <2>1 DEF Bad
  <2>3. <<U, T>> \in StrictSubsetOrdering(S)
    BY <2>1 DEF StrictSubsetOrdering
  <2> QED
    BY <1>3, <2>2, <2>3
<1> QED
  BY <1>3, <1>4 DEF Bad

-----------------------------------------------------------------------------
(* The recursive function behind a sum *)

\* The element that is added first.
First(s) == CHOOSE x \in s : TRUE

LEMMA FirstIn == \A s : s # {} => First(s) \in s
  BY DEF First

\* g gives the sum of f over each subset of S.
Summing(g, f, S) ==
  g = [s \in SUBSET S |->
         IF s = {} THEN 0 ELSE f[First(s)] + g[s \ {First(s)}]]

\* The sum of the values of f over S.
SumOf(f, S) == (CHOOSE g : Summing(g, f, S))[S]

LEMMA SumIsMapThenSum ==
  ASSUME NEW f, NEW S
  PROVE  MapThenSumSet(LAMBDA x : f[x], S) = SumOf(f, S)
  BY DEF MapThenSumSet, MapThenFoldSet, SumOf, Summing, First

\* Restricted to the subsets of a smaller set it is the function of that set.
LEMMA SummingPart ==
  ASSUME NEW f, NEW S, NEW T \in SUBSET S, NEW g, Summing(g, f, S)
  PROVE  Summing([s \in SUBSET T |-> g[s]], f, T)
<1> DEFINE h == [s \in SUBSET T |-> g[s]]
           Step(k, s) == IF s = {} THEN 0 ELSE f[First(s)] + k[s \ {First(s)}]
<1>1. \A s \in SUBSET T : h[s] = Step(h, s)
  <2> SUFFICES ASSUME NEW s \in SUBSET T PROVE h[s] = Step(h, s)
    OBVIOUS
  <2>1. s \in SUBSET S /\ s \ {First(s)} \in SUBSET T
    OBVIOUS
  <2>2. g[s] = Step(g, s)
    BY <2>1 DEF Summing
  <2>3. h[s \ {First(s)}] = g[s \ {First(s)}]
    BY <2>1
  <2> QED
    BY <2>2, <2>3
<1> QED
  BY <1>1 DEF Summing

\* There is only one such function.
LEMMA SummingUnique ==
  ASSUME NEW f, NEW S, IsFiniteSet(S),
         NEW g, Summing(g, f, S), NEW h, Summing(h, f, S)
  PROVE  g = h
<1> DEFINE Good == {s \in SUBSET S : g[s] = h[s]}
<1>1. ASSUME NEW T \in SUBSET S, \A U \in SUBSET T : U # T => U \in Good
      PROVE  T \in Good
  <2>1. CASE T = {}
    BY <2>1 DEF Summing
  <2>2. CASE T # {}
    <3>1. First(T) \in T
      BY <2>2, FirstIn
    <3>2. g[T \ {First(T)}] = h[T \ {First(T)}]
      BY <1>1, <3>1
    <3> QED
      BY <2>2, <3>2 DEF Summing
  <2> QED
    BY <2>1, <2>2
<1> HIDE DEF Good
<1>2. \A T \in SUBSET S : T \in Good
  BY <1>1, SubsetInduction
<1>3. \A s \in SUBSET S : g[s] = h[s]
  BY <1>2 DEF Good
<1> QED
  BY <1>3 DEF Summing

\* And there is one.
LEMMA SummingExists ==
  ASSUME NEW f, NEW S, IsFiniteSet(S)
  PROVE  \E g : Summing(g, f, S)
<1> DEFINE Good == {s \in SUBSET S : \E g : Summing(g, f, s)}
<1>1. ASSUME NEW T \in SUBSET S, \A U \in SUBSET T : U # T => U \in Good
      PROVE  T \in Good
  <2> DEFINE of(U) == (CHOOSE g : Summing(g, f, U))
             low   == [U \in SUBSET T |-> of(U)[U]]
             h     == [U \in SUBSET T |->
                         IF U = {} THEN 0 ELSE f[First(U)] + low[U \ {First(U)}]]
             rest(U) == U \ {First(U)}
  <2>1. \A U \in SUBSET T : U # T => Summing(of(U), f, U)
    BY <1>1
  <2>2. \A U \in SUBSET T : U # {} => rest(U) \in SUBSET T /\ rest(U) # U /\ rest(U) # T
    BY FirstIn
  <2>3. ASSUME NEW U \in SUBSET T, U # T PROVE low[U] = h[U]
    <3>1. CASE U = {}
      <4>1. Summing(of(U), f, U)
        BY <2>1, <2>3
      <4> HIDE DEF of
      <4>2. of(U)[U] = 0
        BY <3>1, <4>1 DEF Summing
      <4> QED
        BY <3>1, <4>2
    <3>2. CASE U # {}
      <4> DEFINE V == rest(U)
      <4>1. V \in SUBSET U /\ V \in SUBSET T /\ V # T
        BY <2>2, <3>2
      <4>2. Summing(of(U), f, U) /\ Summing(of(V), f, V)
        BY <2>1, <2>3, <4>1
      <4>3. IsFiniteSet(V)
        BY <4>1, FS_Subset
      <4> HIDE DEF V, of
      <4>4. [s \in SUBSET V |-> of(U)[s]] = of(V)
        <5>1. Summing([s \in SUBSET V |-> of(U)[s]], f, V)
          BY <4>1, <4>2, SummingPart
        <5> QED
          BY <4>2, <4>3, <5>1, SummingUnique
      <4>5. of(U)[V] = of(V)[V]
        BY <4>4
      <4>6. of(U)[U] = f[First(U)] + of(U)[V]
        BY <3>2, <4>2 DEF Summing, V
      <4> QED
        BY <3>2, <4>1, <4>5, <4>6 DEF V
    <3> QED
      BY <3>1, <3>2
  <2> HIDE DEF low
  <2>4. \A U \in SUBSET T : U # {} => low[rest(U)] = h[rest(U)]
    BY <2>2, <2>3
  <2>5. Summing(h, f, T)
    BY <2>4 DEF Summing
  <2> QED
    BY <2>5
<1> HIDE DEF Good
<1>2. S \in Good
  BY <1>1, SubsetInduction
<1> QED
  BY <1>2 DEF Good

-----------------------------------------------------------------------------
(* What a sum is *)

LEMMA SumEmpty == ASSUME NEW f PROVE SumOf(f, {}) = 0
<1> DEFINE g == (CHOOSE h : Summing(h, f, {}))
<1>1. Summing(g, f, {})
  BY SummingExists, FS_EmptySet
<1> HIDE DEF g
<1>2. g[{}] = 0
  BY <1>1 DEF Summing
<1> QED
  BY <1>2 DEF SumOf, g

LEMMA SumFirst ==
  ASSUME NEW f, NEW S, IsFiniteSet(S), S # {}
  PROVE  SumOf(f, S) = f[First(S)] + SumOf(f, S \ {First(S)})
<1> DEFINE of(U) == (CHOOSE g : Summing(g, f, U))
           T == S \ {First(S)}
<1>1. IsFiniteSet(T) /\ T \in SUBSET S
  BY FS_Subset
<1>2. Summing(of(S), f, S) /\ Summing(of(T), f, T)
  BY <1>1, SummingExists
<1> HIDE DEF of
<1>3. [s \in SUBSET T |-> of(S)[s]] = of(T)
  <2>1. Summing([s \in SUBSET T |-> of(S)[s]], f, T)
    BY <1>1, <1>2, SummingPart
  <2> QED
    BY <1>1, <1>2, <2>1, SummingUnique
<1>4. of(S)[T] = of(T)[T]
  BY <1>3
<1>5. of(S)[S] = f[First(S)] + of(S)[T]
  BY <1>2 DEF Summing
<1> QED
  BY <1>4, <1>5 DEF SumOf, of

\* A sum of natural numbers is one.
LEMMA SumNat ==
  ASSUME NEW S, IsFiniteSet(S), NEW f, \A x \in S : f[x] \in Nat
  PROVE  SumOf(f, S) \in Nat
<1> DEFINE Good == {T \in SUBSET S : SumOf(f, T) \in Nat}
<1>1. ASSUME NEW T \in SUBSET S, \A U \in SUBSET T : U # T => U \in Good
      PROVE  T \in Good
  <2>1. CASE T = {}
    BY <2>1, SumEmpty
  <2>2. CASE T # {}
    <3>1. First(T) \in T /\ IsFiniteSet(T)
      BY <2>2, FirstIn, FS_Subset
    <3>2. SumOf(f, T \ {First(T)}) \in Nat
      BY <1>1, <3>1
    <3>3. SumOf(f, T) = f[First(T)] + SumOf(f, T \ {First(T)})
      BY <2>2, <3>1, SumFirst
    <3>4. f[First(T)] \in Nat
      BY <3>1
    <3>5. SumOf(f, T) \in Nat
      BY <3>2, <3>3, <3>4
    <3> QED
      BY <3>5
  <2> QED
    BY <2>1, <2>2
<1> HIDE DEF Good
<1>2. S \in Good
  BY <1>1, SubsetInduction
<1> QED
  BY <1>2 DEF Good

\* Any element may be taken out of a sum.
LEMMA SumWithout ==
  ASSUME NEW S, IsFiniteSet(S), NEW f, \A x \in S : f[x] \in Nat, NEW e \in S
  PROVE  SumOf(f, S) = f[e] + SumOf(f, S \ {e})
<1> DEFINE Good == {T \in SUBSET S : \A x \in T : SumOf(f, T) = f[x] + SumOf(f, T \ {x})}
<1>1. ASSUME NEW T \in SUBSET S, \A U \in SUBSET T : U # T => U \in Good
      PROVE  T \in Good
  <2> SUFFICES ASSUME NEW x \in T PROVE SumOf(f, T) = f[x] + SumOf(f, T \ {x})
    OBVIOUS
  <2> DEFINE y == First(T)
             U == T \ {x}
             V == T \ {y}
             W == T \ {x, y}
  <2>1. y \in T /\ IsFiniteSet(T)
    BY FirstIn, FS_Subset
  <2>2. SumOf(f, T) = f[y] + SumOf(f, V)
    BY <2>1, SumFirst
  <2> HIDE DEF y
  <2>3. CASE x = y
    BY <2>2, <2>3
  <2>4. CASE x # y
    <3>1. SumOf(f, V) = f[x] + SumOf(f, W)
      <4>1. V \in SUBSET T /\ V # T /\ x \in V /\ V \ {x} = W
        BY <2>1, <2>4
      <4> QED
        BY <1>1, <4>1
    <3>2. SumOf(f, U) = f[y] + SumOf(f, W)
      <4>1. U \in SUBSET T /\ U # T /\ y \in U /\ U \ {y} = W
        BY <2>1, <2>4
      <4> QED
        BY <1>1, <4>1
    <3>3. SumOf(f, W) \in Nat /\ f[x] \in Nat /\ f[y] \in Nat
      <4>1. IsFiniteSet(W) /\ W \in SUBSET S
        BY <2>1, FS_Subset
      <4> QED
        BY <2>1, <4>1, SumNat
    <3> QED
      BY <2>2, <3>1, <3>2, <3>3
  <2> QED
    BY <2>3, <2>4
<1> HIDE DEF Good
<1>2. S \in Good
  BY <1>1, SubsetInduction
<1> QED
  BY <1>2 DEF Good

\* A sum depends on the values over its set only.
LEMMA SumSame ==
  ASSUME NEW S, IsFiniteSet(S), NEW f, NEW g, \A x \in S : f[x] = g[x]
  PROVE  SumOf(f, S) = SumOf(g, S)
<1> DEFINE Good == {T \in SUBSET S : SumOf(f, T) = SumOf(g, T)}
<1>1. ASSUME NEW T \in SUBSET S, \A U \in SUBSET T : U # T => U \in Good
      PROVE  T \in Good
  <2>1. CASE T = {}
    BY <2>1, SumEmpty
  <2>2. CASE T # {}
    <3>1. First(T) \in T /\ IsFiniteSet(T)
      BY <2>2, FirstIn, FS_Subset
    <3>2. SumOf(f, T \ {First(T)}) = SumOf(g, T \ {First(T)})
      BY <1>1, <3>1
    <3>3. /\ SumOf(f, T) = f[First(T)] + SumOf(f, T \ {First(T)})
          /\ SumOf(g, T) = g[First(T)] + SumOf(g, T \ {First(T)})
      BY <2>2, <3>1, SumFirst
    <3>4. f[First(T)] = g[First(T)]
      BY <3>1
    <3>5. SumOf(f, T) = SumOf(g, T)
      BY <3>2, <3>3, <3>4
    <3> QED
      BY <3>5
  <2> QED
    BY <2>1, <2>2
<1> HIDE DEF Good
<1>2. S \in Good
  BY <1>1, SubsetInduction
<1> QED
  BY <1>2 DEF Good

\* What a change of one value does to the sum.
LEMMA SumUpdate ==
  ASSUME NEW S, IsFiniteSet(S), NEW f, \A x \in S : f[x] \in Nat,
         NEW e \in S, NEW g, g[e] \in Nat, \A x \in S \ {e} : g[x] = f[x]
  PROVE  SumOf(g, S) = SumOf(f, S) - f[e] + g[e]
<1>1. SumOf(f, S) = f[e] + SumOf(f, S \ {e})
  BY SumWithout
<1>2. SumOf(g, S) = g[e] + SumOf(g, S \ {e})
  <2>1. \A x \in S : g[x] \in Nat
    OBVIOUS
  <2> QED
    BY <2>1, SumWithout
<1>3. IsFiniteSet(S \ {e})
  BY FS_Subset
<1>4. SumOf(f, S \ {e}) = SumOf(g, S \ {e})
  BY <1>3, SumSame
<1>5. SumOf(f, S \ {e}) \in Nat
  BY <1>3, SumNat
<1> QED
  BY <1>1, <1>2, <1>4, <1>5

\* A sum of zeros.
LEMMA SumZero ==
  ASSUME NEW S, IsFiniteSet(S), NEW f, \A x \in S : f[x] = 0
  PROVE  SumOf(f, S) = 0
<1> DEFINE Good == {T \in SUBSET S : SumOf(f, T) = 0}
<1>1. ASSUME NEW T \in SUBSET S, \A U \in SUBSET T : U # T => U \in Good
      PROVE  T \in Good
  <2>1. CASE T = {}
    BY <2>1, SumEmpty
  <2>2. CASE T # {}
    <3>1. First(T) \in T /\ IsFiniteSet(T)
      BY <2>2, FirstIn, FS_Subset
    <3>2. SumOf(f, T \ {First(T)}) = 0 /\ f[First(T)] = 0
      BY <1>1, <3>1
    <3>3. SumOf(f, T) = f[First(T)] + SumOf(f, T \ {First(T)})
      BY <2>2, <3>1, SumFirst
    <3>4. SumOf(f, T) = 0
      BY <3>2, <3>3
    <3> QED
      BY <3>4
  <2> QED
    BY <2>1, <2>2
<1> HIDE DEF Good
<1>2. S \in Good
  BY <1>1, SubsetInduction
<1> QED
  BY <1>2 DEF Good

\* Counting once more in one place of a counter.
LEMMA CountedIn ==
  ASSUME NEW S, IsFiniteSet(S), NEW f \in [S -> Nat], NEW g \in [S -> Nat],
         NEW e \in S, g[e] = f[e] + 1, \A x \in S \ {e} : g[x] = f[x]
  PROVE  SumOf(g, S) = SumOf(f, S) + 1 /\ SumOf(f, S) \in Nat
<1>1. (\A x \in S : f[x] \in Nat) /\ g[e] \in Nat /\ f[e] \in Nat
  OBVIOUS
<1>2. SumOf(f, S) \in Nat
  BY <1>1, SumNat
<1>3. SumOf(g, S) = SumOf(f, S) - f[e] + g[e]
  BY <1>1, SumUpdate
<1> QED
  BY <1>1, <1>2, <1>3

\* What is zero outside T adds nothing.
LEMMA SumPart ==
  ASSUME NEW S, IsFiniteSet(S), NEW T \in SUBSET S, NEW f, NEW g,
         \A x \in T : f[x] = g[x] /\ g[x] \in Nat, \A x \in S \ T : f[x] = 0
  PROVE  SumOf(f, S) = SumOf(g, T)
<1> DEFINE Good == {U \in SUBSET S : SumOf(f, U) = SumOf(g, U \intersect T)}
<1>1. ASSUME NEW U \in SUBSET S, \A V \in SUBSET U : V # U => V \in Good
      PROVE  U \in Good
  <2>1. CASE U = {}
    BY <2>1, SumEmpty
  <2>2. CASE U # {}
    <3> DEFINE x == First(U)
               V == U \ {x}
    <3>1. x \in U /\ IsFiniteSet(U) /\ V \in SUBSET U /\ V # U
      BY <2>2, FirstIn, FS_Subset
    <3>2. SumOf(f, U) = f[x] + SumOf(f, V)
      BY <3>1, <2>2, SumFirst
    <3> HIDE DEF x
    <3>3. SumOf(f, V) = SumOf(g, V \intersect T)
      BY <1>1, <3>1
    <3>4. IsFiniteSet(U \intersect T) /\ IsFiniteSet(V \intersect T)
      BY <3>1, FS_Subset
    <3>5. SumOf(g, V \intersect T) \in Nat
      BY <3>4, SumNat
    <3>6. CASE x \in T
      <4>1. SumOf(g, U \intersect T) = g[x] + SumOf(g, (U \intersect T) \ {x})
        <5>1. x \in U \intersect T /\ \A y \in U \intersect T : g[y] \in Nat
          BY <3>1, <3>6
        <5> QED
          BY <3>4, <5>1, SumWithout
      <4>2. (U \intersect T) \ {x} = V \intersect T
        OBVIOUS
      <4> QED
        <5>1. f[x] = g[x]
          BY <3>6
        <5> QED
          BY <3>2, <3>3, <4>1, <4>2, <5>1
    <3>7. CASE x \notin T
      <4>1. U \intersect T = V \intersect T
        BY <3>7
      <4>2. f[x] = 0
        BY <3>1, <3>7
      <4> QED
        <5>1. SumOf(f, V) \in Nat /\ SumOf(f, V) = SumOf(g, U \intersect T)
          BY <3>3, <3>5, <4>1
        <5>2. SumOf(f, U) = 0 + SumOf(f, V)
          BY <3>2, <4>2
        <5>3. SumOf(f, U) = SumOf(f, V)
          BY <5>1, <5>2
        <5> QED
          BY <5>1, <5>3
    <3> QED
      BY <3>6, <3>7
  <2> QED
    BY <2>1, <2>2
<1> HIDE DEF Good
<1>2. S \in Good
  BY <1>1, SubsetInduction
<1>3. S \intersect T = T
  OBVIOUS
<1> QED
  BY <1>2, <1>3 DEF Good

\* The least of two numbers, and the greatest of a set that includes zero.
LEMMA MinOfTwo ==
  ASSUME NEW a \in Nat, NEW b \in Nat
  PROVE  Min({a, b}) = IF a <= b THEN a ELSE b
<1>1. Min({a, b}) \in {a, b} /\ \A y \in {a, b} : Min({a, b}) <= y
  BY MinFacts
<1> QED
  BY <1>1
\* A larger set of naturals has a larger sum.
LEMMA SumMonotone ==
  ASSUME NEW S, IsFiniteSet(S), NEW f, \A x \in S : f[x] \in Nat, NEW T \in SUBSET S
  PROVE  SumOf(f, T) <= SumOf(f, S)
<1> DEFINE Good == {U \in SUBSET S : SumOf(f, U \intersect T) <= SumOf(f, U)}
<1>1. ASSUME NEW U \in SUBSET S, \A V \in SUBSET U : V # U => V \in Good
      PROVE  U \in Good
  <2>1. CASE U = {}
    <3>1. U \intersect T = {}
      BY <2>1
    <3>2. SumOf(f, {}) <= SumOf(f, {})
      BY SumEmpty
    <3> QED
      BY <2>1, <3>1, <3>2
  <2>2. CASE U # {}
    <3>1. PICK e : e \in U
      BY <2>2
    <3> DEFINE V == U \ {e}
    <3>2. V \in SUBSET U /\ V # U /\ V \in SUBSET S /\ e \in S /\ f[e] \in Nat
      BY <3>1
    <3>3. SumOf(f, V \intersect T) <= SumOf(f, V)
      BY <1>1, <3>2
    <3>4. IsFiniteSet(U) /\ IsFiniteSet(V) /\ IsFiniteSet(U \intersect T) /\ IsFiniteSet(V \intersect T)
      BY <3>2, FS_Subset
    <3>5. SumOf(f, U) = f[e] + SumOf(f, V)
      BY <3>1, <3>4, SumWithout
    <3>6. SumOf(f, V) \in Nat /\ SumOf(f, V \intersect T) \in Nat
      BY <3>4, SumNat
    <3>7. CASE e \in T
      <4>1. (U \intersect T) \ {e} = V \intersect T /\ e \in U \intersect T
        BY <3>1, <3>7
      <4>2. SumOf(f, U \intersect T) = f[e] + SumOf(f, (U \intersect T) \ {e})
        BY <3>4, <4>1, SumWithout
      <4>3. SumOf(f, U \intersect T) <= SumOf(f, U)
        BY <3>2, <3>3, <3>5, <3>6, <4>1, <4>2
      <4> QED
        BY <4>3
    <3>8. CASE e \notin T
      <4>1. U \intersect T = V \intersect T
        BY <3>8
      <4>2. \A u, v, w, d \in Nat : u <= v /\ w = d + v => u <= w
        OBVIOUS
      <4>3. SumOf(f, V) <= f[e] + SumOf(f, V) /\ f[e] + SumOf(f, V) \in Nat
        BY <3>2, <3>6
      <4>4. SumOf(f, V \intersect T) <= SumOf(f, U)
        BY <3>2, <3>3, <3>5, <3>6, <4>2, <4>3
      <4>5. SumOf(f, U \intersect T) <= SumOf(f, U)
        BY <4>1, <4>4
      <4> QED
        BY <4>5
    <3> QED
      BY <3>7, <3>8
  <2> QED
    BY <2>1, <2>2
<1>2. S \in Good
  <2> HIDE DEF Good
  <2> QED
    BY <1>1, SubsetInduction
<1>3. S \intersect T = T
  OBVIOUS
<1> QED
  BY <1>2, <1>3

\* Finitely many naturals have an upper bound.
LEMMA FiniteBound ==
  ASSUME NEW S, IsFiniteSet(S), NEW f, \A x \in S : f[x] \in Nat
  PROVE  \E n \in Nat : \A x \in S : f[x] <= n
<1>1. \A x \in S : SumOf(f, S) = f[x] + SumOf(f, S \ {x}) /\ SumOf(f, S \ {x}) \in Nat
  <2> SUFFICES ASSUME NEW x \in S
               PROVE  SumOf(f, S) = f[x] + SumOf(f, S \ {x}) /\ SumOf(f, S \ {x}) \in Nat
    OBVIOUS
  <2>1. IsFiniteSet(S \ {x})
    BY FS_Subset
  <2> QED
    BY <2>1, SumWithout, SumNat
<1>2. SumOf(f, S) \in Nat
  BY SumNat
<1>3. \A x \in S : f[x] <= SumOf(f, S)
  <2> SUFFICES ASSUME NEW x \in S PROVE f[x] <= SumOf(f, S)
    OBVIOUS
  <2>1. PICK m \in Nat : SumOf(f, S) = f[x] + m
    BY <1>1
  <2>2. f[x] \in Nat
    OBVIOUS
  <2> QED
    BY <2>1, <2>2
<1> QED
  BY <1>2, <1>3

\* A finite nonempty set of naturals has a largest element.
LEMMA FiniteMax ==
  ASSUME NEW S \in SUBSET Nat, IsFiniteSet(S), S # {}
  PROVE  Max(S) \in S /\ \A y \in S : y <= Max(S)
<1> DEFINE id == [x \in S |-> x]
<1>1. PICK n \in Nat : \A x \in S : id[x] <= n
  BY FiniteBound
<1>2. \A x \in S : x <= n
  BY <1>1
<1> QED
  BY <1>2, MaxFacts

\* One member less.
LEMMA OneLess ==
  ASSUME NEW S, IsFiniteSet(S), NEW e \in S, NEW T, T = S \ {e}
  PROVE  /\ Cardinality(S) \in Nat /\ Cardinality(T) \in Nat
         /\ Cardinality(T) = Cardinality(S) - 1
<1>1. IsFiniteSet(T)
  BY FS_Subset
<1>2. Cardinality(S) \in Nat /\ Cardinality(T) \in Nat
  BY <1>1, FS_CardinalityType
<1>3. Cardinality(T) = Cardinality(S) - 1
  BY FS_RemoveElement
<1> QED
  BY <1>2, <1>3

\* The greatest of two numbers.
LEMMA MaxOfTwo ==
  ASSUME NEW a \in Nat, NEW b \in Nat
  PROVE  Max({a, b}) = IF a <= b THEN b ELSE a
<1> DEFINE S == {a, b}
<1>1. S \in SUBSET Nat /\ S # {} /\ a + b \in Nat /\ \A y \in S : y <= a + b
  OBVIOUS
<1>2. Max(S) \in S /\ \A y \in S : y <= Max(S)
  BY <1>1, MaxFacts
<1> QED
  BY <1>2

\* A sum does not change when its terms are numbered differently.
LEMMA SumImage ==
  ASSUME NEW S, IsFiniteSet(S), NEW T, IsFiniteSet(T), NEW f, NEW g, NEW h,
         \A x \in S : h[x] \in T,
         \A x \in S : f[x] = g[h[x]] /\ f[x] \in Nat,
         \A x, y \in S : h[x] = h[y] => x = y
  PROVE  SumOf(f, S) = SumOf(g, {h[x] : x \in S})
<1> DEFINE Image(U) == {h[x] : x \in U}
           Good == {U \in SUBSET S : SumOf(f, U) = SumOf(g, Image(U))}
<1>1. ASSUME NEW U \in SUBSET S, \A V \in SUBSET U : V # U => V \in Good
      PROVE  U \in Good
  <2>1. CASE U = {}
    <3>1. Image(U) = {}
      BY <2>1
    <3> HIDE DEF Image
    <3> QED
      BY <2>1, <3>1, SumEmpty
  <2>2. CASE U # {}
    <3> DEFINE e == First(U)
               V == U \ {e}
    <3>1. e \in U
      BY <2>2, FirstIn
    <3> HIDE DEF e
    <3>2. V \in SUBSET U /\ V # U /\ IsFiniteSet(U)
      BY <3>1, FS_Subset
    <3>3. SumOf(f, V) = SumOf(g, Image(V))
      BY <1>1, <3>2
    <3>4. SumOf(f, U) = f[e] + SumOf(f, V)
      BY <2>2, <3>2, SumFirst DEF e
    <3>5. /\ Image(V) = Image(U) \ {h[e]} /\ h[e] \in Image(U)
          /\ \A y \in Image(U) : g[y] \in Nat
      BY <3>1
    <3>6. IsFiniteSet(Image(U))
      <4>1. Image(U) \in SUBSET T
        OBVIOUS
      <4> HIDE DEF Image
      <4> QED
        BY <4>1, FS_Subset
    <3> HIDE DEF Image, V
    <3>7. SumOf(g, Image(U)) = g[h[e]] + SumOf(g, Image(V))
      BY <3>5, <3>6, SumWithout
    <3> QED
      BY <3>1, <3>3, <3>4, <3>7
  <2> QED
    BY <2>1, <2>2
<1>2. \A U \in SUBSET S : U \in Good
  <2> HIDE DEF Good
  <2> QED
    BY <1>1, SubsetInduction
<1> QED
  BY <1>2
=============================================================================
