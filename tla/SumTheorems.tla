---------------------------- MODULE SumTheorems ----------------------------
(***************************************************************************)
(* What SumFunctionOnSet of the community modules computes: the ledgers of *)
(* the grid engine, of the simulated exchange and of the exchange adapters *)
(* are sums over finite sets of orders and levels.                         *)
(*                                                                         *)
(* The operator is a recursive function on the subsets of the index set.   *)
(* That it exists and what it returns is shown by smallest counterexample: *)
(* a nonempty family of subsets of a finite set has a member from which no *)
(* element can be taken away without leaving the family.                   *)
(***************************************************************************)
EXTENDS Integers, FiniteSets, Functions, FiniteSetTheorems, WellFoundedInduction, TLAPS

\* The smallest counterexample.
LEMMA SmallestMember ==
  ASSUME NEW S, IsFiniteSet(S), NEW B, B \subseteq SUBSET S, B # {}
  PROVE  \E T \in B : \A U \in B : U \subseteq T => U = T
<1>1. IsWellFoundedOn(StrictSubsetOrdering(S), SUBSET S)
  BY FS_StrictSubsetOrderingWellFounded, FS_FiniteSubsetsOfFinite
<1>2. PICK T \in B : \A U \in B : <<U, T>> \notin StrictSubsetOrdering(S)
  <2> DEFINE R == StrictSubsetOrdering(S)
  <2>1. IsWellFoundedOn(R, SUBSET S) BY <1>1
  <2> HIDE DEF R
  <2>2. \E T \in B : \A U \in B : ~(<<U, T>> \in R)
    BY <2>1, WFMin
  <2> QED BY <2>2 DEF R
<1>3. ASSUME NEW U \in B, U \subseteq T, U # T PROVE FALSE
  <2>1. <<U, T>> \in (SUBSET S) \X (SUBSET S) OBVIOUS
  <2>2. <<U, T>> \in StrictSubsetOrdering(S) BY <2>1, <1>3 DEF StrictSubsetOrdering
  <2> QED BY <2>2, <1>2
<1> QED BY <1>3

-----------------------------------------------------------------------------
(* The recursive function behind the operator                              *)

Some(s) == CHOOSE x \in s : TRUE

\* One step of the recursion, with g for the sums of the smaller sets.
SumStep(f, g, s) == IF s = {} THEN 0 ELSE f[Some(s)] + g[s \ {Some(s)}]

\* g sums f over every subset of S.
SumsUp(f, g, S) == g = [s \in SUBSET S |-> SumStep(f, g, s)]

\* The operator applies such a function to its index set, if there is one.
LEMMA SumUnfold ==
  ASSUME NEW f, NEW S
  PROVE  SumFunctionOnSet(f, S) = (CHOOSE g : SumsUp(f, g, S))[S]
BY DEF SumFunctionOnSet, FoldFunctionOnSet, MapThenFoldSet, SumsUp, SumStep, Some

LEMMA SumsUpExists ==
  ASSUME NEW f, NEW S, IsFiniteSet(S)
  PROVE  \E g : SumsUp(f, g, S)
<1> DEFINE UpTo(g, t) == \A s \in SUBSET S :
                           Cardinality(s) <= Cardinality(t) => g[s] = SumStep(f, g, s)
           Bad == {t \in SUBSET S : ~ \E g : UpTo(g, t)}
<1>a. \A s \in SUBSET S : IsFiniteSet(s) /\ Cardinality(s) \in Nat
  BY FS_Subset, FS_CardinalityType
<1>1. Bad = {}
  <2>1. SUFFICES ASSUME Bad # {} PROVE FALSE OBVIOUS
  <2>2. PICK t \in Bad : \A u \in Bad : u \subseteq t => u = t
    <3> HIDE DEF Bad
    <3>1. Bad \subseteq SUBSET S BY DEF Bad
    <3> QED BY <2>1, <3>1, SmallestMember
  <2>3. CASE t = {}
    <3> DEFINE g0 == [s \in SUBSET S |-> 0]
    <3>1. ASSUME NEW s \in SUBSET S, Cardinality(s) <= Cardinality(t) PROVE s = {}
      BY <1>a, <2>3, <3>1, FS_EmptySet
    <3>2. UpTo(g0, t) BY <3>1 DEF SumStep
    <3> QED BY <3>2
  <2>4. CASE t # {}
    <3>1. PICK x \in t : TRUE BY <2>4
    <3>2. t \ {x} \notin Bad BY <2>2, <3>1
    <3>3. PICK g : UpTo(g, t \ {x}) BY <3>2
    <3>4. Cardinality(t \ {x}) = Cardinality(t) - 1 BY <1>a, FS_RemoveElement
    <3> DEFINE h == [s \in SUBSET S |-> SumStep(f, g, s)]
    <3>5. ASSUME NEW s \in SUBSET S, Cardinality(s) <= Cardinality(t)
          PROVE  h[s] = SumStep(f, h, s)
      <4>1. CASE s = {} BY <4>1 DEF SumStep
      <4>2. CASE s # {}
        <5> DEFINE r == s \ {Some(s)}
        <5>1. Some(s) \in s BY <4>2 DEF Some
        <5>2. r \in SUBSET S /\ Cardinality(r) = Cardinality(s) - 1
          BY <1>a, <5>1, FS_RemoveElement
        <5>3. Cardinality(r) <= Cardinality(t \ {x}) BY <1>a, <3>4, <3>5, <5>2
        <5>4. g[r] = SumStep(f, g, r) BY <3>3, <5>2, <5>3
        <5>5. h[r] = g[r] BY <5>2, <5>4
        <5> QED BY <4>2, <5>5 DEF SumStep
      <4> QED BY <4>1, <4>2
    <3>6. UpTo(h, t) BY <3>5
    <3> QED BY <3>6
  <2> QED BY <2>3, <2>4
<1>2. PICK g : UpTo(g, S) BY <1>1
<1> DEFINE h == [s \in SUBSET S |-> g[s]]
<1>3. ASSUME NEW s \in SUBSET S PROVE g[s] = SumStep(f, h, s)
  <2>1. Cardinality(s) <= Cardinality(S) BY FS_Subset
  <2>2. g[s] = SumStep(f, g, s) BY <1>2, <2>1
  <2>3. SumStep(f, h, s) = SumStep(f, g, s) BY DEF SumStep
  <2> QED BY <2>2, <2>3
<1>4. SumsUp(f, h, S) BY <1>3 DEF SumsUp
<1> QED BY <1>4

\* Two such functions agree where both are defined.
LEMMA SumsUpUnique ==
  ASSUME NEW f, NEW S, IsFiniteSet(S), NEW T \in SUBSET S,
         NEW g, NEW h, SumsUp(f, g, S), SumsUp(f, h, T), NEW u \in SUBSET T
  PROVE  g[u] = h[u]
<1> DEFINE Bad == {t \in SUBSET T : g[t] # h[t]}
<1>1. SUFFICES ASSUME Bad # {} PROVE FALSE OBVIOUS
<1>2. PICK t \in Bad : \A v \in Bad : v \subseteq t => v = t
  <2>1. IsFiniteSet(T) BY FS_Subset
  <2> HIDE DEF Bad
  <2>2. Bad \subseteq SUBSET T BY DEF Bad
  <2> QED BY <1>1, <2>1, <2>2, SmallestMember
<1>3. g[t] = SumStep(f, g, t) /\ h[t] = SumStep(f, h, t) BY DEF SumsUp
<1>4. t # {} BY <1>3 DEF SumStep
<1>5. Some(t) \in t BY <1>4 DEF Some
<1>6. t \ {Some(t)} \notin Bad BY <1>2, <1>5
<1>7. g[t \ {Some(t)}] = h[t \ {Some(t)}] BY <1>6
<1> QED BY <1>3, <1>7 DEF SumStep

\* The recursion the operator stands for.
LEMMA SumRecursion ==
  ASSUME NEW f, NEW S, IsFiniteSet(S)
  PROVE  SumFunctionOnSet(f, S) =
           IF S = {} THEN 0
           ELSE f[Some(S)] + SumFunctionOnSet(f, S \ {Some(S)})
<1> DEFINE g == CHOOSE k : SumsUp(f, k, S)
<1>1. SumsUp(f, g, S) BY SumsUpExists
<1>2. SumFunctionOnSet(f, S) = g[S] BY SumUnfold
<1>3. g[S] = SumStep(f, g, S) BY <1>1 DEF SumsUp
<1>4. CASE S = {} BY <1>2, <1>3, <1>4 DEF SumStep
<1>5. CASE S # {}
  <2> DEFINE R == S \ {Some(S)}
             h == CHOOSE k : SumsUp(f, k, R)
  <2>1. IsFiniteSet(R) BY FS_Subset
  <2>2. SumsUp(f, h, R) BY <2>1, SumsUpExists
  <2>3. SumFunctionOnSet(f, R) = h[R] BY SumUnfold
  <2>4. g[R] = h[R]
    <3> HIDE DEF g, h
    <3>1. R \in SUBSET S /\ R \in SUBSET R OBVIOUS
    <3> HIDE DEF R
    <3> QED BY <1>1, <2>2, <3>1, SumsUpUnique
  <2> QED BY <1>2, <1>3, <1>5, <2>3, <2>4 DEF SumStep
<1> QED BY <1>4, <1>5

-----------------------------------------------------------------------------
(* Sums of integers                                                        *)

LEMMA SumEmpty ==
  ASSUME NEW f
  PROVE  SumFunctionOnSet(f, {}) = 0
BY FS_EmptySet, SumRecursion

\* A sum of integers is an integer.
LEMMA SumInt ==
  ASSUME NEW f, NEW S, IsFiniteSet(S), \A x \in S : f[x] \in Int
  PROVE  SumFunctionOnSet(f, S) \in Int
<1> DEFINE Bad == {t \in SUBSET S : SumFunctionOnSet(f, t) \notin Int}
<1>1. SUFFICES ASSUME Bad # {} PROVE FALSE OBVIOUS
<1>2. PICK t \in Bad : \A v \in Bad : v \subseteq t => v = t
  <2> HIDE DEF Bad
  <2>2. Bad \subseteq SUBSET S BY DEF Bad
  <2> QED BY <1>1, <2>2, SmallestMember
<1>3. IsFiniteSet(t) BY FS_Subset
<1>4. t # {} BY SumEmpty
<1>5. Some(t) \in t BY <1>4 DEF Some
<1>6. t \ {Some(t)} \notin Bad BY <1>2, <1>5
<1>7. SumFunctionOnSet(f, t \ {Some(t)}) \in Int BY <1>6
<1>8. f[Some(t)] \in Int BY <1>5
<1> QED BY <1>3, <1>4, <1>7, <1>8, SumRecursion

\* Functions that agree on a set have the same sum over it.
LEMMA SumEqual ==
  ASSUME NEW f, NEW g, NEW S, IsFiniteSet(S), \A x \in S : f[x] = g[x]
  PROVE  SumFunctionOnSet(f, S) = SumFunctionOnSet(g, S)
<1> DEFINE Bad == {t \in SUBSET S : SumFunctionOnSet(f, t) # SumFunctionOnSet(g, t)}
<1>1. SUFFICES ASSUME Bad # {} PROVE FALSE OBVIOUS
<1>2. PICK t \in Bad : \A v \in Bad : v \subseteq t => v = t
  <2> HIDE DEF Bad
  <2>2. Bad \subseteq SUBSET S BY DEF Bad
  <2> QED BY <1>1, <2>2, SmallestMember
<1>3. IsFiniteSet(t) BY FS_Subset
<1>4. t # {} BY SumEmpty
<1>5. Some(t) \in t BY <1>4 DEF Some
<1>6. t \ {Some(t)} \notin Bad BY <1>2, <1>5
<1>7. SumFunctionOnSet(f, t \ {Some(t)}) = SumFunctionOnSet(g, t \ {Some(t)}) BY <1>6
<1>8. f[Some(t)] = g[Some(t)] BY <1>5
<1> QED BY <1>3, <1>4, <1>7, <1>8, SumRecursion

\* The order of the summands does not matter: any one can be taken out.
LEMMA SumTake ==
  ASSUME NEW f, NEW S, IsFiniteSet(S), \A x \in S : f[x] \in Int, NEW x \in S
  PROVE  SumFunctionOnSet(f, S) = f[x] + SumFunctionOnSet(f, S \ {x})
<1> DEFINE Takes(t, y) ==
             SumFunctionOnSet(f, t) = f[y] + SumFunctionOnSet(f, t \ {y})
           Bad == {t \in SUBSET S : \E y \in t : ~Takes(t, y)}
<1>1. SUFFICES ASSUME Bad # {} PROVE FALSE OBVIOUS
<1>2. PICK t \in Bad : \A v \in Bad : v \subseteq t => v = t
  <2> HIDE DEF Bad
  <2>2. Bad \subseteq SUBSET S BY DEF Bad
  <2> QED BY <1>1, <2>2, SmallestMember
<1>3. PICK y \in t : ~Takes(t, y) OBVIOUS
<1> DEFINE z == Some(t)
           r == t \ {y}
<1>4. z \in t BY <1>3 DEF Some
<1>5. IsFiniteSet(t) /\ IsFiniteSet(r) BY FS_Subset
<1>6. Takes(t, z) BY <1>3, <1>5, SumRecursion
<1>7. z # y BY <1>3, <1>6
<1>8. t \ {z} \notin Bad /\ r \notin Bad BY <1>2, <1>3, <1>4
<1>9. Takes(t \ {z}, y) BY <1>3, <1>7, <1>8
<1>10. Takes(r, z) BY <1>4, <1>7, <1>8
<1>11. (t \ {z}) \ {y} = r \ {z} OBVIOUS
<1>12. f[y] \in Int /\ f[z] \in Int BY <1>3, <1>4
<1>13. SumFunctionOnSet(f, r \ {z}) \in Int
  <2>1. IsFiniteSet(r \ {z}) BY <1>5, FS_Subset
  <2> QED BY <2>1, SumInt
<1> DEFINE rest == SumFunctionOnSet(f, r \ {z})
<1>14. SumFunctionOnSet(f, t) = f[z] + (f[y] + rest) BY <1>6, <1>9, <1>11
<1>15. SumFunctionOnSet(f, r) = f[z] + rest BY <1>10
<1>16. SumFunctionOnSet(f, t) = f[y] + SumFunctionOnSet(f, r)
  BY <1>12, <1>13, <1>14, <1>15
<1> QED BY <1>3, <1>16

\* The sum changes by what changes at one index.
LEMMA SumChange ==
  ASSUME NEW f, NEW g, NEW S, IsFiniteSet(S), NEW x \in S,
         \A y \in S : y # x => g[y] = f[y],
         \A y \in S : f[y] \in Int, g[x] \in Int
  PROVE  SumFunctionOnSet(g, S) = SumFunctionOnSet(f, S) - f[x] + g[x]
<1> DEFINE R == S \ {x}
<1>1. IsFiniteSet(R) BY FS_Subset
<1>2. SumFunctionOnSet(g, R) = SumFunctionOnSet(f, R)
  <2>1. \A y \in R : g[y] = f[y] OBVIOUS
  <2> QED BY <1>1, <2>1, SumEqual
<1>3. SumFunctionOnSet(f, R) \in Int BY <1>1, SumInt
<1>4. SumFunctionOnSet(f, S) = f[x] + SumFunctionOnSet(f, R) BY SumTake
<1>5. \A y \in S : g[y] \in Int OBVIOUS
<1>6. SumFunctionOnSet(g, S) = g[x] + SumFunctionOnSet(g, R) BY <1>5, SumTake
<1>7. f[x] \in Int OBVIOUS
<1> QED BY <1>2, <1>3, <1>4, <1>6, <1>7

\* Indices that contribute nothing may be left out.
LEMMA SumPadded ==
  ASSUME NEW f, NEW T, NEW g, NEW S, IsFiniteSet(S), T \subseteq S,
         \A x \in T : f[x] \in Int /\ g[x] = f[x], \A x \in S : x \notin T => g[x] = 0
  PROVE  SumFunctionOnSet(f, T) = SumFunctionOnSet(g, S)
<1> DEFINE Bad == {t \in SUBSET S : T \subseteq t
                     /\ SumFunctionOnSet(g, t) # SumFunctionOnSet(f, T)}
<1>1. SUFFICES ASSUME Bad # {} PROVE FALSE OBVIOUS
<1>2. PICK t \in Bad : \A v \in Bad : v \subseteq t => v = t
  <2> HIDE DEF Bad
  <2>2. Bad \subseteq SUBSET S BY DEF Bad
  <2> QED BY <1>1, <2>2, SmallestMember
<1>3. IsFiniteSet(t) /\ IsFiniteSet(T) BY FS_Subset
<1>4. SumFunctionOnSet(f, T) = SumFunctionOnSet(g, T) BY <1>3, SumEqual
<1>5. t # T BY <1>4
<1>6. PICK x \in t : x \notin T BY <1>5
<1> DEFINE r == t \ {x}
<1>7. r \notin Bad /\ T \subseteq r BY <1>2, <1>6
<1>8. IsFiniteSet(r) BY FS_Subset
<1>9. SumFunctionOnSet(g, r) = SumFunctionOnSet(f, T) BY <1>7
<1>10. \A y \in t : g[y] \in Int
  <2>1. \A y \in S : g[y] \in Int OBVIOUS
  <2> QED BY <2>1
<1>11. SumFunctionOnSet(g, t) = g[x] + SumFunctionOnSet(g, r) BY <1>3, <1>6, <1>10, SumTake
<1>12. g[x] = 0 BY <1>6
<1>13. SumFunctionOnSet(g, r) \in Int
  <2>1. \A y \in r : g[y] \in Int BY <1>10
  <2> QED BY <1>8, <2>1, SumInt
<1>14. SumFunctionOnSet(g, t) = SumFunctionOnSet(f, T) BY <1>9, <1>11, <1>12, <1>13
<1> QED BY <1>14

\* Larger summands over the same set have the larger sum.
LEMMA SumMonotone ==
  ASSUME NEW f, NEW g, NEW S, IsFiniteSet(S),
         \A x \in S : f[x] \in Int /\ g[x] \in Int /\ f[x] <= g[x]
  PROVE  SumFunctionOnSet(f, S) <= SumFunctionOnSet(g, S)
<1> DEFINE Bad == {t \in SUBSET S : ~(SumFunctionOnSet(f, t) <= SumFunctionOnSet(g, t))}
<1>1. SUFFICES ASSUME Bad # {} PROVE FALSE OBVIOUS
<1>2. PICK t \in Bad : \A v \in Bad : v \subseteq t => v = t
  <2> HIDE DEF Bad
  <2>2. Bad \subseteq SUBSET S BY DEF Bad
  <2> QED BY <1>1, <2>2, SmallestMember
<1>3. IsFiniteSet(t) BY FS_Subset
<1>4. t # {} BY SumEmpty
<1>5. PICK x \in t : TRUE BY <1>4
<1> DEFINE r == t \ {x}
<1>6. r \notin Bad /\ IsFiniteSet(r) BY <1>2, <1>5, FS_Subset
<1>7. SumFunctionOnSet(f, r) <= SumFunctionOnSet(g, r) BY <1>6
<1>8. /\ SumFunctionOnSet(f, t) = f[x] + SumFunctionOnSet(f, r)
      /\ SumFunctionOnSet(g, t) = g[x] + SumFunctionOnSet(g, r)
  BY <1>3, SumTake
<1>9. SumFunctionOnSet(f, r) \in Int /\ SumFunctionOnSet(g, r) \in Int
  BY <1>6, SumInt
<1>10. f[x] \in Int /\ g[x] \in Int /\ f[x] <= g[x] OBVIOUS
<1>11. SumFunctionOnSet(f, t) <= SumFunctionOnSet(g, t) BY <1>7, <1>8, <1>9, <1>10
<1> QED BY <1>11

\* Differences add up to the difference of the sums.
LEMMA SumMinus ==
  ASSUME NEW f, NEW g, NEW h, NEW S, IsFiniteSet(S),
         \A x \in S : f[x] \in Int /\ g[x] \in Int /\ h[x] = f[x] - g[x]
  PROVE  SumFunctionOnSet(h, S) = SumFunctionOnSet(f, S) - SumFunctionOnSet(g, S)
<1> DEFINE Bad == {t \in SUBSET S : SumFunctionOnSet(h, t)
                                      # SumFunctionOnSet(f, t) - SumFunctionOnSet(g, t)}
<1>1. SUFFICES ASSUME Bad # {} PROVE FALSE OBVIOUS
<1>2. PICK t \in Bad : \A v \in Bad : v \subseteq t => v = t
  <2> HIDE DEF Bad
  <2>2. Bad \subseteq SUBSET S BY DEF Bad
  <2> QED BY <1>1, <2>2, SmallestMember
<1>3. IsFiniteSet(t) BY FS_Subset
<1>4. t # {}
  <2>1. /\ SumFunctionOnSet(f, {}) = 0 /\ SumFunctionOnSet(g, {}) = 0
        /\ SumFunctionOnSet(h, {}) = 0
    BY SumEmpty
  <2> QED BY <2>1
<1>5. PICK x \in t : TRUE BY <1>4
<1> DEFINE r == t \ {x}
<1>6. r \notin Bad /\ IsFiniteSet(r) BY <1>2, <1>5, FS_Subset
<1>7. SumFunctionOnSet(h, r) = SumFunctionOnSet(f, r) - SumFunctionOnSet(g, r) BY <1>6
<1>8. \A y \in t : f[y] \in Int /\ g[y] \in Int /\ h[y] \in Int /\ h[y] = f[y] - g[y]
  OBVIOUS
<1>9. /\ SumFunctionOnSet(f, t) = f[x] + SumFunctionOnSet(f, r)
      /\ SumFunctionOnSet(g, t) = g[x] + SumFunctionOnSet(g, r)
      /\ SumFunctionOnSet(h, t) = h[x] + SumFunctionOnSet(h, r)
  BY <1>3, <1>8, SumTake
<1>10. SumFunctionOnSet(f, r) \in Int /\ SumFunctionOnSet(g, r) \in Int
  BY <1>6, <1>8, SumInt
<1>11. f[x] \in Int /\ g[x] \in Int /\ h[x] = f[x] - g[x] BY <1>8
<1>12. SumFunctionOnSet(h, t) = SumFunctionOnSet(f, t) - SumFunctionOnSet(g, t)
  BY <1>7, <1>9, <1>10, <1>11
<1> QED BY <1>12

\* A sum of nothing but zeros.
LEMMA SumZero ==
  ASSUME NEW f, NEW S, IsFiniteSet(S), \A x \in S : f[x] = 0
  PROVE  SumFunctionOnSet(f, S) = 0
<1> DEFINE Bad == {t \in SUBSET S : SumFunctionOnSet(f, t) # 0}
<1>1. SUFFICES ASSUME Bad # {} PROVE FALSE OBVIOUS
<1>2. PICK t \in Bad : \A v \in Bad : v \subseteq t => v = t
  <2> HIDE DEF Bad
  <2>2. Bad \subseteq SUBSET S BY DEF Bad
  <2> QED BY <1>1, <2>2, SmallestMember
<1>3. IsFiniteSet(t) BY FS_Subset
<1>4. t # {} BY SumEmpty
<1>5. Some(t) \in t BY <1>4 DEF Some
<1>6. t \ {Some(t)} \notin Bad BY <1>2, <1>5
<1> QED BY <1>3, <1>4, <1>5, <1>6, SumRecursion

\* A sum of natural numbers is one, and no summand exceeds it.
LEMMA SumNat ==
  ASSUME NEW f, NEW S, IsFiniteSet(S), \A x \in S : f[x] \in Nat
  PROVE  /\ SumFunctionOnSet(f, S) \in Nat
         /\ \A x \in S : f[x] <= SumFunctionOnSet(f, S)
<1>1. ASSUME NEW T \in SUBSET S PROVE SumFunctionOnSet(f, T) \in Nat
  <2> DEFINE zero == [x \in T |-> 0]
  <2>1. IsFiniteSet(T) BY FS_Subset
  <2>2. SumFunctionOnSet(zero, T) = 0 BY <2>1, SumZero
  <2>3. \A x \in T : zero[x] \in Int /\ f[x] \in Int /\ zero[x] <= f[x] OBVIOUS
  <2> HIDE DEF zero
  <2>4. SumFunctionOnSet(zero, T) <= SumFunctionOnSet(f, T) BY <2>1, <2>3, SumMonotone
  <2>5. SumFunctionOnSet(f, T) \in Int BY <2>1, <2>3, SumInt
  <2> QED BY <2>2, <2>4, <2>5
<1>2. ASSUME NEW x \in S PROVE f[x] <= SumFunctionOnSet(f, S)
  <2>1. \A y \in S : f[y] \in Int OBVIOUS
  <2>2. SumFunctionOnSet(f, S) = f[x] + SumFunctionOnSet(f, S \ {x}) BY <2>1, SumTake
  <2>3. SumFunctionOnSet(f, S \ {x}) \in Nat BY <1>1
  <2> QED BY <2>2, <2>3
<1> QED BY <1>1, <1>2

\* Natural numbers over a subset add up to no more.
LEMMA SumSubset ==
  ASSUME NEW f, NEW S, IsFiniteSet(S), \A x \in S : f[x] \in Nat, NEW T \in SUBSET S
  PROVE  SumFunctionOnSet(f, T) <= SumFunctionOnSet(f, S)
<1> DEFINE Bad == {t \in SUBSET S : T \subseteq t
                     /\ ~(SumFunctionOnSet(f, T) <= SumFunctionOnSet(f, t))}
<1>1. SUFFICES ASSUME Bad # {} PROVE FALSE OBVIOUS
<1>2. PICK t \in Bad : \A v \in Bad : v \subseteq t => v = t
  <2> HIDE DEF Bad
  <2>2. Bad \subseteq SUBSET S BY DEF Bad
  <2> QED BY <1>1, <2>2, SmallestMember
<1>3. IsFiniteSet(t) /\ IsFiniteSet(T) BY FS_Subset
<1>4. SumFunctionOnSet(f, T) \in Nat /\ SumFunctionOnSet(f, t) \in Nat BY <1>3, SumNat
<1>5. t # T BY <1>4
<1>6. PICK x \in t : x \notin T BY <1>5
<1> DEFINE r == t \ {x}
<1>7. r \notin Bad /\ T \subseteq r BY <1>2, <1>6
<1>8. IsFiniteSet(r) BY FS_Subset
<1>9. SumFunctionOnSet(f, r) \in Nat BY <1>8, SumNat
<1>10. SumFunctionOnSet(f, T) <= SumFunctionOnSet(f, r) BY <1>7
<1>11. \A y \in t : f[y] \in Int OBVIOUS
<1>12. SumFunctionOnSet(f, t) = f[x] + SumFunctionOnSet(f, r) BY <1>3, <1>6, <1>11, SumTake
<1>13. f[x] \in Nat BY <1>6
<1>14. SumFunctionOnSet(f, T) <= SumFunctionOnSet(f, t)
  BY <1>4, <1>9, <1>10, <1>12, <1>13
<1> QED BY <1>14

\* Renaming the indices does not change the sum.
LEMMA SumRenamed ==
  ASSUME NEW S, IsFiniteSet(S), NEW m, \A x, y \in S : m[x] = m[y] => x = y,
         NEW T, \A x \in S : m[x] \in T, \A y \in T : \E x \in S : y = m[x],
         NEW f, NEW g, \A x \in S : f[x] \in Int /\ g[m[x]] = f[x]
  PROVE  IsFiniteSet(T) /\ SumFunctionOnSet(g, T) = SumFunctionOnSet(f, S)
<1> DEFINE Im(t) == {m[x] : x \in t}
           Good(t) == IsFiniteSet(Im(t)) /\ SumFunctionOnSet(g, Im(t)) = SumFunctionOnSet(f, t)
           Bad == {t \in SUBSET S : ~Good(t)}
<1>1. SUFFICES ASSUME Bad # {} PROVE FALSE
  <2>1. T = Im(S) OBVIOUS
  <2>2. S \in SUBSET S OBVIOUS
  <2> QED BY <2>1, <2>2
<1>2. PICK t \in Bad : \A v \in Bad : v \subseteq t => v = t
  <2> HIDE DEF Bad
  <2>2. Bad \subseteq SUBSET S BY DEF Bad
  <2> QED BY <1>1, <2>2, SmallestMember
<1>3. IsFiniteSet(t) BY FS_Subset
<1>4. t # {}
  <2>1. Im({}) = {} OBVIOUS
  <2>2. Good({}) BY <2>1, SumEmpty, FS_EmptySet
  <2> QED BY <2>2
<1>5. PICK x \in t : TRUE BY <1>4
<1> DEFINE r == t \ {x}
<1>6. r \notin Bad BY <1>2, <1>5
<1>7. Good(r) BY <1>6
<1>8. Im(t) = Im(r) \cup {m[x]} /\ Im(t) \ {m[x]} = Im(r) /\ m[x] \in Im(t)
  <2>1. t = r \cup {x} /\ x \in t /\ x \notin r /\ t \subseteq S BY <1>5
  <2>2. m[x] \notin Im(r) BY <2>1
  <2>3. Im(t) = Im(r) \cup {m[x]} BY <2>1
  <2>4. m[x] \in Im(t) BY <2>1
  <2> HIDE DEF Im
  <2> QED BY <2>2, <2>3, <2>4
<1>9. IsFiniteSet(Im(t))
  <2>1. IsFiniteSet(Im(r)) BY <1>7
  <2>2. Im(t) = Im(r) \cup {m[x]} BY <1>8
  <2> HIDE DEF Im, r
  <2> QED BY <2>1, <2>2, FS_AddElement
<1>10. \A y \in Im(t) : g[y] \in Int OBVIOUS
<1>11. SumFunctionOnSet(g, Im(t)) = g[m[x]] + SumFunctionOnSet(g, Im(r))
  <2> HIDE DEF Im, r
  <2>1. SumFunctionOnSet(g, Im(t)) = g[m[x]] + SumFunctionOnSet(g, Im(t) \ {m[x]})
    BY <1>8, <1>9, <1>10, SumTake
  <2> QED BY <1>8, <2>1
<1>12. SumFunctionOnSet(f, t) = f[x] + SumFunctionOnSet(f, r) BY <1>3, <1>5, SumTake
<1>13. g[m[x]] = f[x] BY <1>5
<1>14. Good(t) BY <1>7, <1>9, <1>11, <1>12, <1>13
<1> QED BY <1>14

\* The sum of a function over its domain.
LEMMA SumOver ==
  ASSUME NEW f, NEW S, DOMAIN f = S
  PROVE  SumFunction(f) = SumFunctionOnSet(f, S)
BY DEF SumFunction

=============================================================================
