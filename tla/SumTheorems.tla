----------------------------- MODULE SumTheorems -----------------------------
(***************************************************************************)
(* Sums over the domain of a function, as the modules here form them with  *)
(* MapThenSumSet: shares sold, cash, values of packages.                   *)
(*                                                                         *)
(* MapThenSumSet is a recursive function, a CHOOSE of one that satisfies   *)
(* its equation.  That there is one, and what it computes, is shown by     *)
(* induction, with a set in the place of the predicate: one that holds 0   *)
(* and the successor of each member holds all natural numbers.             *)
(***************************************************************************)
EXTENDS Integers, FiniteSetsExt, FiniteSetTheorems, WellFoundedInduction, TLAPS

SumOf(f) == MapThenSumSet(LAMBDA i : f[i], DOMAIN f)

LEMMA NatSetInduction ==
  ASSUME NEW T, 0 \in T, \A n \in Nat : n \in T => n + 1 \in T
  PROVE  Nat \subseteq T
<1> DEFINE R == OpToRel(<, Nat)
<1>1. IsWellFoundedOn(R, Nat)
  BY NatLessThanWellFounded
<1>2. \A m, n \in Nat : m < n => << m, n >> \in R
  BY DEF OpToRel
<1> HIDE DEF R
<1>3. SUFFICES ASSUME Nat \ T # {} PROVE FALSE
  OBVIOUS
<1>4. PICK n \in Nat \ T : \A m \in Nat \ T : << m, n >> \notin R
  BY <1>1, <1>3, WFMin
<1>5. n \in Nat /\ n # 0 /\ n \notin T
  BY <1>4
<1>6. n - 1 \in Nat /\ n - 1 < n /\ n = (n - 1) + 1
  BY <1>5
<1>7. n - 1 \in T
  BY <1>2, <1>4, <1>5, <1>6
<1> QED
  BY <1>5, <1>6, <1>7

\* The element the fold takes first.
Pick(T) == CHOOSE x \in T : TRUE

LEMMA PickIn == ASSUME NEW T, T # {} PROVE Pick(T) \in T
  BY DEF Pick

LEMMA SmallerWithout ==
  ASSUME NEW S, IsFiniteSet(S), NEW T \in SUBSET S, T # {}
  PROVE  /\ IsFiniteSet(T) /\ Cardinality(T) \in Nat
         /\ T \ {Pick(T)} \in SUBSET S
         /\ Cardinality(T \ {Pick(T)}) = Cardinality(T) - 1
         /\ Cardinality(T) > 0
<1>1. IsFiniteSet(T) /\ Cardinality(T) \in Nat
  BY FS_Subset, FS_CardinalityType
<1>2. Cardinality(T \ {Pick(T)}) = Cardinality(T) - 1 /\ IsFiniteSet(T \ {Pick(T)})
  BY <1>1, PickIn, FS_RemoveElement
<1>3. Cardinality(T \ {Pick(T)}) \in Nat
  BY <1>2, FS_CardinalityType
<1> QED
  BY <1>1, <1>2, <1>3

LEMMA SubsetInduction ==
  ASSUME NEW S, IsFiniteSet(S), NEW G, {} \in G,
         \A T \in SUBSET S : T # {} /\ T \ {Pick(T)} \in G => T \in G
  PROVE  SUBSET S \subseteq G
<1> DEFINE H == {n \in Nat : \A T \in SUBSET S : Cardinality(T) = n => T \in G}
<1>1. \A T \in SUBSET S : IsFiniteSet(T) /\ Cardinality(T) \in Nat
  BY FS_Subset, FS_CardinalityType
<1>2. 0 \in H
  BY <1>1, FS_EmptySet
<1>3. \A n \in Nat : n \in H => n + 1 \in H
  <2> SUFFICES ASSUME NEW n \in Nat, n \in H, NEW T \in SUBSET S, Cardinality(T) = n + 1
               PROVE  T \in G
      OBVIOUS
  <2>1. T # {}
    BY FS_EmptySet
  <2>2. T \ {Pick(T)} \in SUBSET S /\ Cardinality(T \ {Pick(T)}) = Cardinality(T) - 1
    BY <2>1, SmallerWithout
  <2>3. Cardinality(T \ {Pick(T)}) = n
    BY <2>2
  <2> QED
    BY <2>1, <2>2, <2>3
<1> HIDE DEF H
<1>4. Nat \subseteq H
  BY <1>2, <1>3, NatSetInduction
<1> QED
  BY <1>1, <1>4 DEF H

----------------------------------------------------------------------------
(* The recursion                                                           *)

Step(f, g, T) == IF T = {} THEN 0 ELSE f[Pick(T)] + g[T \ {Pick(T)}]

Sums(f, g) == g = [T \in SUBSET DOMAIN f |-> Step(f, g, T)]

\* The sums over the subsets of the domain.
Partial(f) == CHOOSE g : Sums(f, g)

LEMMA SumIsPartial ==
  ASSUME NEW f
  PROVE  SumOf(f) = Partial(f)[DOMAIN f]
  BY DEF SumOf, MapThenSumSet, MapThenFoldSet, Partial, Sums, Step, Pick

\* A function that satisfies the equation up to a size makes one that does up
\* to the next.
LEMMA SumsExist ==
  ASSUME NEW S, IsFiniteSet(S), NEW f \in [S -> Int]
  PROVE  \E g : Sums(f, g)
<1> DEFINE UpTo(n, g) == \A T \in SUBSET S : Cardinality(T) <= n => g[T] = Step(f, g, T)
           Sizes == {n \in Nat : \E g \in [SUBSET S -> Int] : UpTo(n, g)}
           Next(g) == [T \in SUBSET S |-> Step(f, g, T)]
<1>1. \A T \in SUBSET S : IsFiniteSet(T) /\ Cardinality(T) \in Nat
  BY FS_Subset, FS_CardinalityType
<1>2. \A g \in [SUBSET S -> Int] : Next(g) \in [SUBSET S -> Int]
  <2> SUFFICES ASSUME NEW g \in [SUBSET S -> Int], NEW T \in SUBSET S, T # {}
               PROVE  f[Pick(T)] + g[T \ {Pick(T)}] \in Int
      BY DEF Step
  <2>1. Pick(T) \in S /\ T \ {Pick(T)} \in SUBSET S
    BY PickIn
  <2> QED
    BY <2>1
<1>3. 0 \in Sizes
  <2>1. [T \in SUBSET S |-> 0] \in [SUBSET S -> Int]
    OBVIOUS
  <2>2. \A T \in SUBSET S : Cardinality(T) <= 0 => T = {}
    BY <1>1, FS_EmptySet
  <2>3. UpTo(0, [T \in SUBSET S |-> 0])
    BY <2>2 DEF Step
  <2> QED
    BY <2>1, <2>3
<1>4. \A n \in Nat : n \in Sizes => n + 1 \in Sizes
  <2> SUFFICES ASSUME NEW n \in Nat, n \in Sizes PROVE n + 1 \in Sizes
      OBVIOUS
  <2> PICK g \in [SUBSET S -> Int] : UpTo(n, g)
      OBVIOUS
  <2>1. UpTo(n + 1, Next(g))
    <3> SUFFICES ASSUME NEW T \in SUBSET S, Cardinality(T) <= n + 1
                 PROVE  Next(g)[T] = Step(f, Next(g), T)
        OBVIOUS
    <3>1. CASE T = {}
      BY <3>1 DEF Step
    <3>2. CASE T # {}
      <4> DEFINE R == T \ {Pick(T)}
      <4>1. R \in SUBSET S /\ Cardinality(R) <= n
        BY <1>1, <3>2, SmallerWithout
      <4>2. Next(g)[R] = g[R]
        BY <4>1
      <4> QED
        BY <3>2, <4>2 DEF Step
    <3> QED
      BY <3>1, <3>2
  <2>2. Next(g) \in [SUBSET S -> Int]
    BY <1>2
  <2> HIDE DEF Next, UpTo
  <2> QED
    BY <2>1, <2>2
<1>5. Cardinality(S) \in Sizes
  <2> HIDE DEF Sizes
  <2>1. Nat \subseteq Sizes
    BY <1>3, <1>4, NatSetInduction
  <2> QED
    BY <1>1, <2>1
<1>6. PICK g \in [SUBSET S -> Int] : UpTo(Cardinality(S), g)
  BY <1>5
<1>7. \A T \in SUBSET S : Cardinality(T) <= Cardinality(S)
  BY FS_Subset
<1>8. Sums(f, g)
  BY <1>6, <1>7 DEF Sums
<1> QED
  BY <1>8

LEMMA PartialSteps ==
  ASSUME NEW S, IsFiniteSet(S), NEW f \in [S -> Int]
  PROVE  \A T \in SUBSET S : Partial(f)[T] = Step(f, Partial(f), T)
<1>1. Sums(f, Partial(f))
  BY SumsExist DEF Partial
<1> QED
  BY <1>1 DEF Sums

LEMMA PartialOfNone ==
  ASSUME NEW S, IsFiniteSet(S), NEW f \in [S -> Int]
  PROVE  {} \in SUBSET S /\ Partial(f)[{}] = 0
<1>1. {} \in SUBSET S
  OBVIOUS
<1>2. Partial(f)[{}] = Step(f, Partial(f), {})
  BY <1>1, PartialSteps
<1> QED
  BY <1>1, <1>2 DEF Step

LEMMA PartialType ==
  ASSUME NEW S, IsFiniteSet(S), NEW f \in [S -> Int]
  PROVE  \A T \in SUBSET S : Partial(f)[T] \in Int
<1> DEFINE G == {T \in SUBSET S : Partial(f)[T] \in Int}
<1>1. {} \in G
  BY PartialOfNone
<1>2. \A T \in SUBSET S : T # {} /\ T \ {Pick(T)} \in G => T \in G
  BY PartialSteps, PickIn DEF Step
<1> HIDE DEF G
<1>3. SUBSET S \subseteq G
  BY <1>1, <1>2, SubsetInduction
<1> QED
  BY <1>3 DEF G

----------------------------------------------------------------------------
(* The sums                                                                *)

\* A sum of integers is one.
THEOREM SumType ==
  ASSUME NEW S, IsFiniteSet(S), NEW f \in [S -> Int]
  PROVE  SumOf(f) \in Int
  BY PartialType, SumIsPartial

\* A sum of which one term changes changes by as much.
THEOREM SumChanges ==
  ASSUME NEW S, IsFiniteSet(S), NEW f \in [S -> Int], NEW h \in [S -> Int],
         NEW i \in S, \A j \in S \ {i} : h[j] = f[j]
  PROVE  SumOf(h) = SumOf(f) + h[i] - f[i]
<1> DEFINE Diff(T) == IF i \in T THEN h[i] - f[i] ELSE 0
           G == {T \in SUBSET S : Partial(h)[T] = Partial(f)[T] + Diff(T)}
<1>1. {} \in G
  BY PartialOfNone
<1>2. \A T \in SUBSET S : T # {} /\ T \ {Pick(T)} \in G => T \in G
  <2> SUFFICES ASSUME NEW T \in SUBSET S, T # {}, T \ {Pick(T)} \in G
               PROVE  Partial(h)[T] = Partial(f)[T] + Diff(T)
      OBVIOUS
  <2> DEFINE x == Pick(T)
             R == T \ {x}
  <2>1. x \in T /\ x \in S /\ R \in SUBSET S
    BY PickIn
  <2>2. Partial(h)[T] = h[x] + Partial(h)[R] /\ Partial(f)[T] = f[x] + Partial(f)[R]
    BY PartialSteps DEF Step
  <2>3. Partial(h)[R] = Partial(f)[R] + Diff(R)
    OBVIOUS
  <2>4. Partial(f)[R] \in Int /\ h[x] \in Int /\ f[x] \in Int /\ h[i] \in Int /\ f[i] \in Int
    BY <2>1, PartialType
  <2>5. CASE x = i
    BY <2>1, <2>2, <2>3, <2>4, <2>5
  <2>6. CASE x # i
    <3>1. h[x] = f[x] /\ (i \in T <=> i \in R)
      BY <2>1, <2>6
    <3> QED
      BY <2>2, <2>3, <2>4, <3>1
  <2> QED
    BY <2>5, <2>6
<1>3. S \in G
  <2> HIDE DEF G
  <2>1. SUBSET S \subseteq G
    BY <1>1, <1>2, SubsetInduction
  <2> QED
    BY <2>1
<1>4. Partial(f)[S] \in Int /\ h[i] \in Int /\ f[i] \in Int
  BY PartialType
<1> QED
  BY <1>3, <1>4, SumIsPartial

\* A sum of nothing but zeros is zero.
THEOREM SumOfZeros ==
  ASSUME NEW S, IsFiniteSet(S), NEW f, DOMAIN f = S, f = [i \in S |-> 0]
  PROVE  SumOf(f) = 0
<1> DEFINE G == {T \in SUBSET S : Partial(f)[T] = 0}
<1>1. f \in [S -> Int]
  OBVIOUS
<1>2. {} \in G
  BY <1>1, PartialSteps DEF Step
<1>3. \A T \in SUBSET S : T # {} /\ T \ {Pick(T)} \in G => T \in G
  BY <1>1, PartialSteps, PickIn DEF Step
<1> HIDE DEF G
<1>4. SUBSET S \subseteq G
  BY <1>2, <1>3, SubsetInduction
<1> QED
  BY <1>4, SumIsPartial DEF G

\* Terms that are no greater make a sum that is no greater.
THEOREM SumMonotone ==
  ASSUME NEW S, IsFiniteSet(S), NEW f \in [S -> Int], NEW h \in [S -> Int],
         \A i \in S : f[i] <= h[i]
  PROVE  SumOf(f) <= SumOf(h)
<1> DEFINE G == {T \in SUBSET S : Partial(f)[T] <= Partial(h)[T]}
<1>1. {} \in G
  BY PartialOfNone
<1>2. \A T \in SUBSET S : T # {} /\ T \ {Pick(T)} \in G => T \in G
  <2> SUFFICES ASSUME NEW T \in SUBSET S, T # {}, T \ {Pick(T)} \in G
               PROVE  Partial(f)[T] <= Partial(h)[T]
      OBVIOUS
  <2> DEFINE x == Pick(T)
             R == T \ {x}
  <2>1. x \in S /\ R \in SUBSET S
    BY PickIn
  <2>2. Partial(h)[T] = h[x] + Partial(h)[R] /\ Partial(f)[T] = f[x] + Partial(f)[R]
    BY PartialSteps DEF Step
  <2>3. /\ Partial(f)[R] \in Int /\ Partial(h)[R] \in Int /\ h[x] \in Int /\ f[x] \in Int
        /\ f[x] <= h[x] /\ Partial(f)[R] <= Partial(h)[R]
    BY <2>1, PartialType
  <2> QED
    BY <2>2, <2>3
<1> HIDE DEF G
<1>3. SUBSET S \subseteq G
  BY <1>1, <1>2, SubsetInduction
<1> QED
  BY <1>3, SumIsPartial DEF G

\* A sum of which all terms but one are zero is that one.
THEOREM SumOfOne ==
  ASSUME NEW S, IsFiniteSet(S), NEW f \in [S -> Int], NEW i \in S,
         \A j \in S \ {i} : f[j] = 0
  PROVE  SumOf(f) = f[i]
<1> DEFINE z == [j \in S |-> 0]
<1>1. z \in [S -> Int] /\ DOMAIN z = S /\ z[i] = 0 /\ \A j \in S \ {i} : f[j] = z[j]
  OBVIOUS
<1>2. SumOf(z) = 0
  BY <1>1, SumOfZeros
<1> HIDE DEF z
<1>3. SumOf(f) = SumOf(z) + f[i] - z[i]
  BY <1>1, SumChanges
<1>4. f[i] \in Int
  OBVIOUS
<1> QED
  BY <1>1, <1>2, <1>3, <1>4

\* A sum of terms none of which is negative is no less than any of them.
THEOREM SumAtLeast ==
  ASSUME NEW S, IsFiniteSet(S), NEW f \in [S -> Int], NEW i \in S, \A j \in S : f[j] >= 0
  PROVE  SumOf(f) >= f[i]
<1> DEFINE g == [j \in S |-> IF j = i THEN f[i] ELSE 0]
<1>1. g \in [S -> Int] /\ g[i] = f[i] /\ \A j \in S : g[j] <= f[j]
  OBVIOUS
<1>2. \A j \in S \ {i} : g[j] = 0
  OBVIOUS
<1> HIDE DEF g
<1>3. SumOf(g) = g[i] /\ SumOf(g) <= SumOf(f)
  BY <1>1, <1>2, SumOfOne, SumMonotone
<1>4. SumOf(f) \in Int /\ f[i] \in Int
  BY SumType
<1> QED
  BY <1>1, <1>3, <1>4

LEMMA Distributes == \A k, a, b \in Int : k * a + k * b = k * (a + b)
  OBVIOUS

\* A factor can be taken out of a sum.
THEOREM SumScaled ==
  ASSUME NEW S, IsFiniteSet(S), NEW f \in [S -> Int], NEW k \in Int
  PROVE  SumOf([i \in S |-> k * f[i]]) = k * SumOf(f)
<1> DEFINE h == [i \in S |-> k * f[i]]
           G == {T \in SUBSET S : Partial(h)[T] = k * Partial(f)[T]}
<1>1. h \in [S -> Int]
  OBVIOUS
<1>2. {} \in G
  BY <1>1, PartialOfNone
<1>3. \A T \in SUBSET S : T # {} /\ T \ {Pick(T)} \in G => T \in G
  <2> SUFFICES ASSUME NEW T \in SUBSET S, T # {}, T \ {Pick(T)} \in G
               PROVE  Partial(h)[T] = k * Partial(f)[T]
      OBVIOUS
  <2> DEFINE x == Pick(T)
             R == T \ {x}
  <2>1. x \in S /\ R \in SUBSET S /\ h[x] = k * f[x] /\ f[x] \in Int
    BY PickIn
  <2>2. Partial(f)[R] \in Int /\ Partial(h)[R] = k * Partial(f)[R]
    BY <2>1, PartialType
  <2> HIDE DEF h
  <2>3. Partial(f)[T] = f[x] + Partial(f)[R] /\ Partial(h)[T] = h[x] + Partial(h)[R]
    <3>1. Partial(f)[T] = Step(f, Partial(f), T)
      BY PartialSteps
    <3>2. Partial(h)[T] = Step(h, Partial(h), T)
      BY <1>1, PartialSteps
    <3> QED
      BY <3>1, <3>2 DEF Step
  <2> HIDE DEF x, R
  <2>4. \A a, b \in Int : k * a + k * b = k * (a + b)
    BY Distributes, Zenon
  <2>5. k * f[x] + k * Partial(f)[R] = k * (f[x] + Partial(f)[R])
    BY <2>1, <2>2, <2>4, Zenon
  <2> QED
    BY <2>1, <2>2, <2>3, <2>5, Zenon
<1> HIDE DEF G, h
<1>4. SUBSET S \subseteq G
  BY <1>2, <1>3, SubsetInduction
<1>5. S \in SUBSET S /\ DOMAIN h = S /\ DOMAIN f = S
  BY <1>1
<1>6. Partial(h)[S] = k * Partial(f)[S]
  BY <1>4, <1>5 DEF G
<1> QED
  BY <1>5, <1>6, SumIsPartial DEF h

\* Where a function is zero its sum need not look.
THEOREM SumOnPart ==
  ASSUME NEW T, IsFiniteSet(T), NEW S \in SUBSET T, NEW f \in [T -> Int],
         \A i \in T \ S : f[i] = 0
  PROVE  SumOf(f) = SumOf([i \in S |-> f[i]])
<1> DEFINE All(X) == [i \in T |-> IF i \in X THEN f[i] ELSE 0]
           Part(X) == [i \in S |-> IF i \in X THEN f[i] ELSE 0]
           G == {X \in SUBSET S : SumOf(All(X)) = SumOf(Part(X))}
<1>1. IsFiniteSet(S)
  BY FS_Subset
<1>2. \A X \in SUBSET S : All(X) \in [T -> Int] /\ Part(X) \in [S -> Int]
  OBVIOUS
<1>3. {} \in G
  <2>1. All({}) = [i \in T |-> 0] /\ Part({}) = [i \in S |-> 0]
    OBVIOUS
  <2>2. SumOf(All({})) = 0
    BY <2>1, SumOfZeros
  <2>3. SumOf(Part({})) = 0
    BY <1>1, <2>1, SumOfZeros
  <2> QED
    BY <2>2, <2>3
<1>4. \A X \in SUBSET S : X # {} /\ X \ {Pick(X)} \in G => X \in G
  <2> SUFFICES ASSUME NEW X \in SUBSET S, X # {}, X \ {Pick(X)} \in G
               PROVE  SumOf(All(X)) = SumOf(Part(X))
      OBVIOUS
  <2> DEFINE x == Pick(X)
             R == X \ {x}
  <2>1. x \in S /\ x \in T /\ x \in X /\ R \in SUBSET S
    BY PickIn
  <2>2. /\ \A j \in T \ {x} : All(X)[j] = All(R)[j]
        /\ All(X)[x] = f[x] /\ All(R)[x] = 0
        /\ \A j \in S \ {x} : Part(X)[j] = Part(R)[j]
        /\ Part(X)[x] = f[x] /\ Part(R)[x] = 0
    BY <2>1
  <2>3. /\ All(X) \in [T -> Int] /\ All(R) \in [T -> Int]
        /\ Part(X) \in [S -> Int] /\ Part(R) \in [S -> Int]
    BY <1>2, <2>1
  <2>4. SumOf(All(R)) = SumOf(Part(R))
    OBVIOUS
  <2> HIDE DEF x, R, All, Part, G
  <2>5. SumOf(All(X)) = SumOf(All(R)) + All(X)[x] - All(R)[x]
    BY <2>1, <2>2, <2>3, SumChanges
  <2>6. SumOf(Part(X)) = SumOf(Part(R)) + Part(X)[x] - Part(R)[x]
    BY <1>1, <2>1, <2>2, <2>3, SumChanges
  <2> QED
    BY <2>2, <2>4, <2>5, <2>6
<1> HIDE DEF G
<1>5. SUBSET S \subseteq G
  BY <1>1, <1>3, <1>4, SubsetInduction
<1>6. SumOf(All(S)) = SumOf(Part(S))
  BY <1>5 DEF G
<1>7. All(S) = f /\ Part(S) = [i \in S |-> f[i]]
  OBVIOUS
<1> QED
  BY <1>6, <1>7

\* Terms no larger, and one smaller, make a smaller sum.
THEOREM SumStrict ==
  ASSUME NEW S, IsFiniteSet(S), NEW f \in [S -> Int], NEW g \in [S -> Int],
         \A j \in S : f[j] <= g[j], NEW i \in S, f[i] < g[i]
  PROVE  SumOf(f) < SumOf(g)
<1> DEFINE h == [j \in S |-> IF j = i THEN g[i] ELSE f[j]]
<1>1. h \in [S -> Int] /\ h[i] = g[i] /\ (\A j \in S \ {i} : h[j] = f[j]) /\ \A j \in S : h[j] <= g[j]
  OBVIOUS
<1> HIDE DEF h
<1>2. SumOf(h) = SumOf(f) + h[i] - f[i]
  BY <1>1, SumChanges
<1>3. SumOf(h) <= SumOf(g)
  BY <1>1, SumMonotone
<1>4. SumOf(f) \in Int /\ SumOf(g) \in Int /\ SumOf(h) \in Int /\ f[i] \in Int /\ g[i] \in Int
  BY <1>1, SumType
<1> QED
  BY <1>1, <1>2, <1>3, <1>4

\* A sum of sums is the sum of the sums.
THEOREM SumAdded ==
  ASSUME NEW S, IsFiniteSet(S), NEW f \in [S -> Int], NEW g \in [S -> Int],
         NEW h \in [S -> Int], \A i \in S : h[i] = f[i] + g[i]
  PROVE  SumOf(h) = SumOf(f) + SumOf(g)
<1> DEFINE G == {T \in SUBSET S : Partial(h)[T] = Partial(f)[T] + Partial(g)[T]}
<1>1. {} \in G
  BY PartialOfNone
<1>2. \A T \in SUBSET S : T # {} /\ T \ {Pick(T)} \in G => T \in G
  <2> SUFFICES ASSUME NEW T \in SUBSET S, T # {}, T \ {Pick(T)} \in G
               PROVE  Partial(h)[T] = Partial(f)[T] + Partial(g)[T]
      OBVIOUS
  <2> DEFINE x == Pick(T)
             R == T \ {x}
  <2>1. x \in S /\ R \in SUBSET S
    BY PickIn
  <2>2. /\ Partial(h)[T] = Step(h, Partial(h), T) /\ Partial(f)[T] = Step(f, Partial(f), T)
        /\ Partial(g)[T] = Step(g, Partial(g), T)
    BY PartialSteps
  <2>3. /\ Partial(h)[T] = h[x] + Partial(h)[R] /\ Partial(f)[T] = f[x] + Partial(f)[R]
        /\ Partial(g)[T] = g[x] + Partial(g)[R]
    BY <2>2 DEF Step
  <2>4. /\ Partial(f)[R] \in Int /\ Partial(g)[R] \in Int /\ f[x] \in Int /\ g[x] \in Int
        /\ h[x] = f[x] + g[x] /\ Partial(h)[R] = Partial(f)[R] + Partial(g)[R]
    BY <2>1, PartialType
  <2> QED
    BY <2>3, <2>4
<1> HIDE DEF G
<1>3. SUBSET S \subseteq G
  BY <1>1, <1>2, SubsetInduction
<1> QED
  BY <1>3, SumIsPartial DEF G

\* One term can be taken out of a sum.
THEOREM SumWithout ==
  ASSUME NEW S, IsFiniteSet(S), NEW f \in [S -> Int], NEW x \in S
  PROVE  SumOf(f) = f[x] + SumOf([i \in S \ {x} |-> f[i]])
<1> DEFINE h == [i \in S |-> IF i = x THEN 0 ELSE f[i]]
           R == S \ {x}
<1>1. h \in [S -> Int] /\ h[x] = 0 /\ (\A j \in R : h[j] = f[j]) /\ R \in SUBSET S
  OBVIOUS
<1>2. \A j \in S \ R : h[j] = 0
  OBVIOUS
<1>3. [i \in R |-> h[i]] = [i \in R |-> f[i]]
  BY <1>1
<1> HIDE DEF h
<1>4. SumOf(h) = SumOf([i \in R |-> h[i]])
  BY <1>1, <1>2, SumOnPart
<1>5. SumOf(f) = SumOf(h) + f[x] - h[x]
  BY <1>1, SumChanges
<1>6. SumOf(h) \in Int /\ f[x] \in Int
  BY <1>1, SumType
<1> QED
  BY <1>1, <1>3, <1>4, <1>5, <1>6

LEMMA SumOfTwo ==
  ASSUME NEW S, IsFiniteSet(S), NEW f \in [S -> Int], NEW a \in S, NEW b \in S, a # b,
         \A x \in S : x = a \/ x = b
  PROVE  SumOf(f) = f[a] + f[b]
<1> DEFINE R == S \ {b}
           g == [i \in R |-> f[i]]
<1>1. IsFiniteSet(R) /\ a \in R /\ R \ {a} = {}
  BY FS_Subset
<1>2. g \in [R -> Int] /\ g[a] = f[a]
  BY <1>1
<1>3. SumOf(f) = f[b] + SumOf(g)
  BY SumWithout
<1> HIDE DEF g, R
<1>4. SumOf(g) = g[a]
  BY <1>1, <1>2, SumOfOne
<1>5. f[a] \in Int /\ f[b] \in Int
  OBVIOUS
<1> QED
  BY <1>2, <1>3, <1>4, <1>5

LEMMA SumOfThree ==
  ASSUME NEW S, IsFiniteSet(S), NEW f \in [S -> Int], NEW a \in S, NEW b \in S, NEW c \in S,
         a # b, a # c, b # c, \A x \in S : x = a \/ x = b \/ x = c
  PROVE  SumOf(f) = f[a] + f[b] + f[c]
<1> DEFINE R == S \ {c}
           g == [i \in R |-> f[i]]
<1>1. IsFiniteSet(R) /\ a \in R /\ b \in R /\ \A x \in R : x = a \/ x = b
  BY FS_Subset
<1>2. g \in [R -> Int] /\ g[a] = f[a] /\ g[b] = f[b]
  BY <1>1
<1>3. SumOf(f) = f[c] + SumOf(g)
  BY SumWithout
<1> HIDE DEF g, R
<1>4. SumOf(g) = g[a] + g[b]
  BY <1>1, <1>2, SumOfTwo
<1>5. f[a] \in Int /\ f[b] \in Int /\ f[c] \in Int
  OBVIOUS
<1> QED
  BY <1>2, <1>3, <1>4, <1>5

LEMMA SumOfFour ==
  ASSUME NEW S, IsFiniteSet(S), NEW f \in [S -> Int], NEW a \in S, NEW b \in S, NEW c \in S,
         NEW d \in S, a # b, a # c, a # d, b # c, b # d, c # d,
         \A x \in S : x = a \/ x = b \/ x = c \/ x = d
  PROVE  SumOf(f) = f[a] + f[b] + f[c] + f[d]
<1> DEFINE R == S \ {d}
           g == [i \in R |-> f[i]]
<1>1. IsFiniteSet(R) /\ a \in R /\ b \in R /\ c \in R /\ \A x \in R : x = a \/ x = b \/ x = c
  BY FS_Subset
<1>2. g \in [R -> Int] /\ g[a] = f[a] /\ g[b] = f[b] /\ g[c] = f[c]
  BY <1>1
<1>3. SumOf(f) = f[d] + SumOf(g)
  BY SumWithout
<1> HIDE DEF g, R
<1>4. SumOf(g) = g[a] + g[b] + g[c]
  BY <1>1, <1>2, SumOfThree
<1>5. f[a] \in Int /\ f[b] \in Int /\ f[c] \in Int /\ f[d] \in Int
  OBVIOUS
<1> QED
  BY <1>2, <1>3, <1>4, <1>5
=============================================================================
