------------------------------ MODULE SumsProofs ------------------------------
(***************************************************************************)
(* Sums over finite domains.  The library states induction and recursion   *)
(* for operators, which the provers cannot instantiate; here both are      *)
(* derived for sets and functions from the well-founded orders of the      *)
(* natural numbers and of the finite sets.                                 *)
(***************************************************************************)
EXTENDS Integers, Functions, FiniteSetTheorems, WellFoundedInduction, TLAPS

\* A set of numbers with 0 and the successor of each of its members.
LEMMA NumberInduction ==
  ASSUME NEW G \in SUBSET Nat, 0 \in G, \A n \in G : n + 1 \in G
  PROVE  G = Nat
<1> SUFFICES ASSUME Nat \ G # {} PROVE FALSE
  OBVIOUS
<1>1. PICK n \in Nat \ G : \A m \in Nat \ G : <<m, n>> \notin OpToRel(<, Nat)
  BY NatLessThanWellFounded, WFMin
<1>2. \A m \in Nat \ G : ~ (m < n)
  BY <1>1 DEF OpToRel
<1>3. n - 1 \in Nat /\ n - 1 < n
  OBVIOUS
<1>4. n - 1 \in G
  BY <1>2, <1>3
<1>5. n = (n - 1) + 1
  OBVIOUS
<1>6. QED
  BY <1>4, <1>5

\* A set of subsets of S that grows with S by the element that is chosen.
Any(T) == CHOOSE x \in T : TRUE

LEMMA AnyIn == ASSUME NEW T, T # {} PROVE Any(T) \in T
BY DEF Any

LEMMA SubsetInduction ==
  ASSUME NEW S, IsFiniteSet(S), NEW G \in SUBSET SUBSET S, {} \in G,
         \A T \in SUBSET S : T # {} /\ T \ {Any(T)} \in G => T \in G
  PROVE  G = SUBSET S
<1> SUFFICES ASSUME (SUBSET S) \ G # {} PROVE FALSE
  OBVIOUS
<1> DEFINE Rest == (SUBSET S) \ G
<1>1. FiniteSubsetsOf(S) = SUBSET S
  BY FS_FiniteSubsetsOfFinite
<1>2. IsWellFoundedOn(StrictSubsetOrdering(S), FiniteSubsetsOf(S))
  BY FS_StrictSubsetOrderingWellFounded
<1>3. IsWellFoundedOn(StrictSubsetOrdering(S), SUBSET S)
  BY <1>1, <1>2, Zenon
<1>4. Rest \subseteq SUBSET S /\ Rest # {}
  OBVIOUS
<1> HIDE DEF Rest
<1>5. PICK T \in Rest : \A U \in Rest : ~ (<<U, T>> \in StrictSubsetOrdering(S))
  BY <1>3, <1>4, WFMin
<1>6. T \in SUBSET S /\ T \notin G
  BY <1>5 DEF Rest
<1>7. T # {}
  BY <1>6
<1>8. Any(T) \in T
  BY <1>7, AnyIn
<1>9. <<T \ {Any(T)}, T>> \in StrictSubsetOrdering(S)
  BY <1>6, <1>8 DEF StrictSubsetOrdering
<1>10. T \ {Any(T)} \notin Rest
  BY <1>5, <1>9
<1>11. T \ {Any(T)} \in G
  BY <1>6, <1>10 DEF Rest
<1>12. QED
  BY <1>6, <1>7, <1>11

-----------------------------------------------------------------------------
(***************************************************************************)
(* SumFunction adds the values of a function one by one: the sum over a    *)
(* set is that over the set without one element, and the value there.      *)
(* Such partial sums exist over a finite domain: those over the sets of    *)
(* up to n elements determine those over the sets of up to n + 1.          *)
(***************************************************************************)
PartialSum(f, g, T) == IF T = {} THEN 0 ELSE f[Any(T)] + g[T \ {Any(T)}]
PartialSums(f, g) == g = [T \in SUBSET DOMAIN f |-> PartialSum(f, g, T)]

LEMMA SumIsPartial ==
  ASSUME NEW f
  PROVE  SumFunction(f) = (CHOOSE g : PartialSums(f, g))[DOMAIN f]
BY DEF SumFunction, SumFunctionOnSet, FoldFunctionOnSet, MapThenFoldSet,
       PartialSums, PartialSum, Any

UpTo(S, n) == {T \in SUBSET S : Cardinality(T) <= n}
SumsUpTo(f, n, g) == g = [T \in UpTo(DOMAIN f, n) |-> PartialSum(f, g, T)]

LEMMA SmallerByOne ==
  ASSUME NEW S, IsFiniteSet(S), NEW n \in Nat, NEW T \in UpTo(S, n + 1), T # {}
  PROVE  T \ {Any(T)} \in UpTo(S, n)
<1>1. T \in SUBSET S /\ Cardinality(T) <= n + 1
  BY DEF UpTo
<1>2. IsFiniteSet(T)
  BY <1>1, FS_Subset
<1>3. Any(T) \in T
  BY AnyIn
<1>4. Cardinality(T \ {Any(T)}) = Cardinality(T) - 1
  BY <1>2, <1>3, FS_RemoveElement
<1>5. Cardinality(T) \in Nat
  BY <1>2, FS_CardinalityType
<1>6. QED
  BY <1>1, <1>4, <1>5 DEF UpTo

LEMMA SumsGrow ==
  ASSUME NEW f, IsFiniteSet(DOMAIN f), NEW n \in Nat, NEW g, SumsUpTo(f, n, g)
  PROVE  \E h : SumsUpTo(f, n + 1, h)
<1> DEFINE h == [T \in UpTo(DOMAIN f, n + 1) |-> PartialSum(f, g, T)]
<1>1. ASSUME NEW T \in UpTo(DOMAIN f, n + 1)
      PROVE  PartialSum(f, g, T) = PartialSum(f, h, T)
  <2>1. CASE T = {}
    BY <2>1 DEF PartialSum
  <2>2. CASE T # {}
    <3> DEFINE U == T \ {Any(T)}
    <3>1. U \in UpTo(DOMAIN f, n)
      BY <1>1, <2>2, SmallerByOne
    <3> HIDE DEF U
    <3>2. U \in UpTo(DOMAIN f, n + 1)
      <4>1. IsFiniteSet(U)
        BY <3>1, FS_Subset DEF UpTo
      <4>2. Cardinality(U) \in Nat
        BY <4>1, FS_CardinalityType
      <4>3. QED
        BY <3>1, <4>2 DEF UpTo
    <3>3. g[U] = PartialSum(f, g, U)
      BY <3>1 DEF SumsUpTo
    <3>4. h[U] = PartialSum(f, g, U)
      BY <3>2
    <3>5. g[U] = h[U]
      BY <3>3, <3>4
    <3> HIDE DEF h
    <3>6. QED
      BY <3>5, <2>2 DEF PartialSum, U
  <2>3. QED
    BY <2>1, <2>2
<1>2. h = [T \in UpTo(DOMAIN f, n + 1) |-> PartialSum(f, h, T)]
  <2> DEFINE k == [T \in UpTo(DOMAIN f, n + 1) |-> PartialSum(f, h, T)]
  <2>1. DOMAIN h = DOMAIN k /\ \A T \in DOMAIN h : h[T] = k[T]
    BY <1>1
  <2>2. QED
    BY <1>1
<1>3. QED
  BY <1>2 DEF SumsUpTo

LEMMA PartialSumsExist ==
  ASSUME NEW f, IsFiniteSet(DOMAIN f)
  PROVE  \E g : PartialSums(f, g)
<1> DEFINE G == {n \in Nat : \E g : SumsUpTo(f, n, g)}
<1>1. 0 \in G
  <2>1. UpTo(DOMAIN f, 0) \subseteq {{}}
    <3> SUFFICES ASSUME NEW T \in UpTo(DOMAIN f, 0) PROVE T = {}
      OBVIOUS
    <3>1. IsFiniteSet(T)
      BY FS_Subset DEF UpTo
    <3>2. Cardinality(T) \in Nat /\ Cardinality(T) <= 0
      BY <3>1, FS_CardinalityType DEF UpTo
    <3>3. Cardinality(T) = 0
      BY <3>2
    <3>4. QED
      BY <3>1, <3>3, FS_EmptySet
  <2> DEFINE g == [T \in UpTo(DOMAIN f, 0) |-> 0]
  <2>2. g = [T \in UpTo(DOMAIN f, 0) |-> PartialSum(f, g, T)]
    BY <2>1 DEF PartialSum
  <2>3. SumsUpTo(f, 0, g)
    BY <2>2 DEF SumsUpTo
  <2>4. QED
    BY <2>3
<1>2. \A n \in G : n + 1 \in G
  BY SumsGrow
<1>3. G = Nat
  <2>1. G \in SUBSET Nat
    OBVIOUS
  <2> HIDE DEF G
  <2>2. QED
    BY <1>1, <1>2, <2>1, NumberInduction
<1>4. Cardinality(DOMAIN f) \in Nat
  BY FS_CardinalityType
<1>5. PICK g : SumsUpTo(f, Cardinality(DOMAIN f), g)
  BY <1>3, <1>4
<1>6. UpTo(DOMAIN f, Cardinality(DOMAIN f)) = SUBSET DOMAIN f
  BY FS_Subset DEF UpTo
<1>7. PartialSums(f, g)
  BY <1>5, <1>6 DEF SumsUpTo, PartialSums
<1>8. QED
  BY <1>7

\* The partial sums that SumFunction refers to.
Sums(f) == CHOOSE g : PartialSums(f, g)

LEMMA SumsOf ==
  ASSUME NEW S, IsFiniteSet(S), NEW f, DOMAIN f = S
  PROVE  /\ SumFunction(f) = Sums(f)[S]
         /\ Sums(f)[{}] = 0
         /\ \A T \in SUBSET S : T # {} =>
              Sums(f)[T] = f[Any(T)] + Sums(f)[T \ {Any(T)}]
<1>1. \E g : PartialSums(f, g)
  BY PartialSumsExist
<1>2. PartialSums(f, Sums(f))
  BY <1>1 DEF Sums
<1>3. SumFunction(f) = Sums(f)[S]
  BY SumIsPartial DEF Sums
<1>4. \A T \in SUBSET S : Sums(f)[T] = PartialSum(f, Sums(f), T)
  BY <1>2 DEF PartialSums
<1>5. QED
  BY <1>3, <1>4 DEF PartialSum

-----------------------------------------------------------------------------
(***************************************************************************)
(* What is used of sums elsewhere.                                         *)
(***************************************************************************)
LEMMA SumType ==
  ASSUME NEW S, IsFiniteSet(S), NEW f \in [S -> Int]
  PROVE  SumFunction(f) \in Int
<1> DEFINE G == {T \in SUBSET S : Sums(f)[T] \in Int}
<1>1. {} \in G
  BY SumsOf
<1>2. ASSUME NEW T \in SUBSET S, T # {}, T \ {Any(T)} \in G
      PROVE  T \in G
  <2>1. Sums(f)[T] = f[Any(T)] + Sums(f)[T \ {Any(T)}]
    BY <1>2, SumsOf
  <2>2. Any(T) \in S
    BY <1>2, AnyIn
  <2>3. QED
    BY <1>2, <2>1, <2>2
<1>3. G \in SUBSET SUBSET S
  OBVIOUS
<1> HIDE DEF G
<1>4. G = SUBSET S
  BY <1>1, <1>2, <1>3, SubsetInduction
<1>5. Sums(f)[S] \in Int
  BY <1>4 DEF G
<1>6. QED
  BY <1>5, SumsOf

\* A sum of zeros.
LEMMA SumOfZeros ==
  ASSUME NEW S, IsFiniteSet(S)
  PROVE  SumFunction([s \in S |-> 0]) = 0
<1> DEFINE f == [s \in S |-> 0]
           G == {T \in SUBSET S : Sums(f)[T] = 0}
<1>1. f \in [S -> Int] /\ DOMAIN f = S /\ \A s \in S : f[s] = 0
  OBVIOUS
<1> HIDE DEF f
<1>2. {} \in G
  BY <1>1, SumsOf
<1>3. ASSUME NEW T \in SUBSET S, T # {}, T \ {Any(T)} \in G
      PROVE  T \in G
  <2>1. Sums(f)[T] = f[Any(T)] + Sums(f)[T \ {Any(T)}]
    BY <1>1, <1>3, SumsOf
  <2>2. Any(T) \in S
    BY <1>3, AnyIn
  <2>3. QED
    BY <1>1, <1>3, <2>1, <2>2
<1>4. G \in SUBSET SUBSET S
  OBVIOUS
<1> HIDE DEF G
<1>5. G = SUBSET S
  BY <1>2, <1>3, <1>4, SubsetInduction
<1>6. Sums(f)[S] = 0
  BY <1>5 DEF G
<1>7. QED
  BY <1>1, <1>6, SumsOf DEF f

\* What is added to one of the values is added to the sum.
LEMMA SumAdds ==
  ASSUME NEW S, IsFiniteSet(S), NEW f \in [S -> Int], NEW h \in [S -> Int],
         NEW x \in S, NEW d \in Int, h[x] = f[x] + d,
         \A s \in S : s # x => h[s] = f[s]
  PROVE  SumFunction(h) = SumFunction(f) + d
<1> DEFINE Part(T) == IF x \in T THEN d ELSE 0
           G == {T \in SUBSET S : /\ Sums(f)[T] \in Int
                                  /\ Sums(h)[T] = Sums(f)[T] + Part(T)}
<1>1. {} \in G
  BY SumsOf
<1>2. ASSUME NEW T \in SUBSET S, T # {}, T \ {Any(T)} \in G
      PROVE  T \in G
  <2> DEFINE a == Any(T)
             U == T \ {a}
  <2>1. Sums(f)[T] = f[a] + Sums(f)[U]
    BY <1>2, SumsOf
  <2>2. Sums(h)[T] = h[a] + Sums(h)[U]
    BY <1>2, SumsOf
  <2>3. a \in T
    BY <1>2, AnyIn
  <2>4. Sums(f)[U] \in Int /\ Sums(h)[U] = Sums(f)[U] + Part(U)
    BY <1>2
  <2> HIDE DEF a, U
  <2>5. CASE a = x
    <3>1. Part(U) = 0 /\ Part(T) = d
      BY <2>3, <2>5 DEF U
    <3>2. QED
      BY <2>1, <2>2, <2>4, <2>5, <3>1
  <2>6. CASE a # x
    <3>1. Part(U) = Part(T) /\ Part(T) \in Int
      BY <2>6 DEF U
    <3>2. f[a] \in Int /\ h[a] = f[a]
      BY <2>3, <2>6
    <3> HIDE DEF Part
    <3>3. QED
      BY <2>1, <2>2, <2>4, <3>1, <3>2
  <2>7. QED
    BY <2>5, <2>6
<1>3. G \in SUBSET SUBSET S
  OBVIOUS
<1> HIDE DEF G
<1>4. G = SUBSET S
  BY <1>1, <1>2, <1>3, SubsetInduction
<1>5. Sums(h)[S] = Sums(f)[S] + d
  BY <1>4 DEF G
<1>6. QED
  BY <1>5, SumsOf
===============================================================================
