----------------------------- MODULE FoldProofs -----------------------------
(***************************************************************************)
(* Facts about folds over finite sets, and about sums in particular, for   *)
(* the sums of DetectionRules and the lookup of TariffCatalog.             *)
(*                                                                         *)
(* The library's induction rules range over predicates.  Here induction is *)
(* over SETS of numbers instead, by the least number outside (FromZeroOn). *)
(***************************************************************************)
EXTENDS Integers, FiniteSets, Functions, FiniteSetTheorems, TLAPS

\* Induction: a set with 0 and every successor holds all natural numbers.
LEMMA FromZeroOn ==
  ASSUME NEW N \in SUBSET Nat, 0 \in N, \A n \in N : n + 1 \in N
  PROVE  \A n \in Nat : n \in N
<1> SUFFICES ASSUME Nat \ N # {} PROVE FALSE
  OBVIOUS
<1>1. PICK x \in Nat \ N : \A y \in Nat \ N : <<y, x>> \notin OpToRel(<, Nat)
  BY NatLessThanWellFounded, WFMin, Zenon
<1>2. x # 0 /\ x - 1 \in Nat /\ x - 1 < x
  OBVIOUS
<1>3. <<x - 1, x>> \in OpToRel(<, Nat)
  BY <1>2 DEF OpToRel
<1>4. x - 1 \in N
  BY <1>1, <1>2, <1>3
<1> QED BY <1>2, <1>4

\* What a fold needs of cardinalities.
LEMMA SubsetSizes ==
  ASSUME NEW S, IsFiniteSet(S)
  PROVE  \A s \in SUBSET S :
           /\ IsFiniteSet(s) /\ Cardinality(s) \in Nat
           /\ Cardinality(s) <= Cardinality(S)
           /\ Cardinality(s) = 0 <=> s = {}
           /\ \A x \in s : /\ s \ {x} \in SUBSET S
                           /\ Cardinality(s \ {x}) = Cardinality(s) - 1
BY FS_Subset, FS_CardinalityType, FS_RemoveElement, FS_EmptySet

\* g is the recursion of a fold that begins with b: c chooses an element of a set,
\* o[s] is what is done for it with the result of the others.
Solves(g, S, b, c, o) ==
  \A s \in SUBSET S : g[s] = IF s = {} THEN b ELSE o[s][g[s \ {c[s]}]]

Chooses(c, S) == \A s \in SUBSET S : s # {} => c[s] \in s

\* It has a solution.
LEMMA IterationExists ==
  ASSUME NEW S, IsFiniteSet(S), NEW Y, NEW b \in Y,
         NEW c, Chooses(c, S),
         NEW o \in [SUBSET S -> [Y -> Y]]
  PROVE  \E g \in [SUBSET S -> Y] : Solves(g, S, b, c, o)
<1> DEFINE Step(g, s) == IF s = {} THEN b ELSE o[s][g[s \ {c[s]}]]
           Upto(g, n) == \A s \in SUBSET S : Cardinality(s) <= n => g[s] = Step(g, s)
           N == {n \in Nat : \E g \in [SUBSET S -> Y] : Upto(g, n)}
<1>0. \A s \in SUBSET S : s # {} => c[s] \in s
  BY DEF Chooses
<1>1. 0 \in N
  <2> DEFINE g == [s \in SUBSET S |-> b]
  <2>1. \A s \in SUBSET S : Cardinality(s) <= 0 => s = {}
    BY SubsetSizes
  <2>2. Upto(g, 0) /\ g \in [SUBSET S -> Y]
    BY <2>1
  <2> QED BY <2>2
<1>2. ASSUME NEW n \in N PROVE n + 1 \in N
  <2>1. PICK g \in [SUBSET S -> Y] : Upto(g, n)
    BY <1>2
  <2> DEFINE h == [s \in SUBSET S |-> IF Cardinality(s) <= n THEN g[s] ELSE Step(g, s)]
  <2>2. h \in [SUBSET S -> Y]
    BY <1>0, SubsetSizes
  <2>3. ASSUME NEW s \in SUBSET S, Cardinality(s) <= n + 1
        PROVE  h[s] = Step(h, s)
    <3>1. CASE s = {}
      BY <3>1, <2>1
    <3>2. CASE s # {}
      <4> DEFINE r == s \ {c[s]}
      <4>1. r \in SUBSET S /\ Cardinality(r) <= n
        BY <1>0, <3>2, <2>3, SubsetSizes
      <4>2. h[r] = g[r]
        BY <4>1
      <4>3. h[s] = Step(g, s)
        BY <2>1
      <4> QED BY <4>2, <4>3
    <3> QED BY <3>1, <3>2
  <2>4. Upto(h, n + 1)
    BY <2>3
  <2> HIDE DEF h
  <2>5. n + 1 \in Nat
    OBVIOUS
  <2> QED BY <2>2, <2>4, <2>5
<1>3. Cardinality(S) \in N
  <2> HIDE DEF N
  <2>1. N \subseteq Nat
    BY DEF N
  <2> QED BY <1>1, <1>2, <2>1, FromZeroOn, SubsetSizes
<1>4. PICK g \in [SUBSET S -> Y] : Upto(g, Cardinality(S))
  BY <1>3
<1>5. Solves(g, S, b, c, o)
  BY <1>4, SubsetSizes DEF Solves
<1> QED BY <1>5

-----------------------------------------------------------------------------
(***************************************************************************)
(* Sums.                                                                   *)
(***************************************************************************)

Some(s) == CHOOSE x \in s : TRUE

\* The recursion of SumFunctionOnSet.
SumBody(f, S, g) ==
  [s \in SUBSET S |-> IF s = {} THEN 0 ELSE f[Some(s)] + g[s \ {Some(s)}]]

SumIter(f, S) == CHOOSE g : g = SumBody(f, S, g)

LEMMA SumIsIter ==
  ASSUME NEW f, NEW S
  PROVE  SumFunctionOnSet(f, S) = SumIter(f, S)[S]
BY Zenon DEF SumFunctionOnSet, FoldFunctionOnSet, MapThenFoldSet, SumIter, SumBody, Some

LEMMA SumIterSolves ==
  ASSUME NEW S, IsFiniteSet(S), NEW f, \A x \in S : f[x] \in Int
  PROVE  /\ SumIter(f, S) = SumBody(f, S, SumIter(f, S))
         /\ \A s \in SUBSET S : SumIter(f, S)[s] \in Int
<1> DEFINE c == [s \in SUBSET S |-> Some(s)]
           o == [s \in SUBSET S |-> [y \in Int |-> IF s = {} THEN 0 ELSE f[Some(s)] + y]]
<1>1. \A s \in SUBSET S : s # {} => Some(s) \in s /\ f[Some(s)] \in Int
  BY DEF Some
<1>2. Chooses(c, S)
  BY <1>1 DEF Chooses
<1>3. o \in [SUBSET S -> [Int -> Int]]
  BY <1>1
<1>4. \E g \in [SUBSET S -> Int] : Solves(g, S, 0, c, o)
  <2> DEFINE Y == Int
  <2>1. 0 \in Y /\ o \in [SUBSET S -> [Y -> Y]]
    BY <1>3
  <2> HIDE DEF c, o, Y
  <2>2. \E g \in [SUBSET S -> Y] : Solves(g, S, 0, c, o)
    BY <1>2, <2>1, IterationExists
  <2> QED BY <2>2 DEF Y
<1>5. PICK g \in [SUBSET S -> Int] : \A s \in SUBSET S :
        g[s] = IF s = {} THEN 0 ELSE o[s][g[s \ {c[s]}]]
  BY <1>4 DEF Solves
<1>6. \A s \in SUBSET S : s # {} =>
        /\ s \ {Some(s)} \in SUBSET S
        /\ g[s \ {Some(s)}] \in Int
        /\ g[s] = f[Some(s)] + g[s \ {Some(s)}]
  BY <1>5
<1>7. g = SumBody(f, S, g)
  BY <1>5, <1>6 DEF SumBody
<1>8. SumIter(f, S) = SumBody(f, S, SumIter(f, S))
  BY <1>7 DEF SumIter
<1> DEFINE h == SumIter(f, S)
           N == {n \in Nat : \A s \in SUBSET S : Cardinality(s) <= n => h[s] \in Int}
<1> HIDE DEF c, o, h
<1>9. \A s \in SUBSET S : h[s] = IF s = {} THEN 0 ELSE f[Some(s)] + h[s \ {Some(s)}]
  BY <1>8 DEF h, SumBody
<1>10. 0 \in N
  <2>1. \A s \in SUBSET S : Cardinality(s) <= 0 => s = {}
    BY SubsetSizes
  <2>2. \A s \in SUBSET S : s = {} => h[s] = 0
    BY <1>9
  <2> QED BY <2>1, <2>2
<1>11. ASSUME NEW n \in N PROVE n + 1 \in N
  <2>1. ASSUME NEW s \in SUBSET S, Cardinality(s) <= n + 1, s # {}
        PROVE  h[s] \in Int
    <3>1. Cardinality(s \ {Some(s)}) <= n /\ s \ {Some(s)} \in SUBSET S
      BY <1>1, <2>1, SubsetSizes
    <3> QED BY <1>1, <1>9, <2>1, <3>1
  <2> QED BY <1>9, <2>1
<1>12. Cardinality(S) \in N
  <2> HIDE DEF N
  <2>1. N \subseteq Nat
    BY DEF N
  <2> QED BY <1>10, <1>11, <2>1, FromZeroOn, SubsetSizes
<1> QED BY <1>8, <1>12, SubsetSizes DEF h

\* What the sum over a set does with a subset is what the sum over that does.
LEMMA SumIterAgrees ==
  ASSUME NEW S, IsFiniteSet(S), NEW f, \A x \in S : f[x] \in Int,
         NEW T \in SUBSET S
  PROVE  SumIter(f, T)[T] = SumIter(f, S)[T]
<1> DEFINE g == SumIter(f, T)
           h == SumIter(f, S)
           N == {n \in Nat : \A s \in SUBSET T : Cardinality(s) <= n => g[s] = h[s]}
<1>1. IsFiniteSet(T)
  BY SubsetSizes
<1>2. \A s \in SUBSET T :
        /\ g[s] = IF s = {} THEN 0 ELSE f[Some(s)] + g[s \ {Some(s)}]
        /\ h[s] = IF s = {} THEN 0 ELSE f[Some(s)] + h[s \ {Some(s)}]
  <2>1. g = SumBody(f, T, g) /\ h = SumBody(f, S, h)
    BY <1>1, SumIterSolves
  <2> HIDE DEF g, h
  <2> QED BY <2>1 DEF SumBody
<1> HIDE DEF g, h
<1>3. 0 \in N
  <2>1. \A s \in SUBSET T : Cardinality(s) <= 0 => s = {}
    BY <1>1, SubsetSizes
  <2> QED BY <1>2, <2>1
<1>4. ASSUME NEW n \in N PROVE n + 1 \in N
  <2>1. ASSUME NEW s \in SUBSET T, Cardinality(s) <= n + 1, s # {}
        PROVE  g[s] = h[s]
    <3>1. Some(s) \in s
      BY <2>1 DEF Some
    <3>2. Cardinality(s \ {Some(s)}) <= n /\ s \ {Some(s)} \in SUBSET T
      BY <1>1, <2>1, <3>1, SubsetSizes
    <3> QED BY <1>2, <2>1, <3>2
  <2> QED BY <1>2, <2>1
<1>5. Cardinality(T) \in N
  <2> HIDE DEF N
  <2>1. N \subseteq Nat
    BY DEF N
  <2> QED BY <1>1, <1>3, <1>4, <2>1, FromZeroOn, SubsetSizes
<1> QED BY <1>1, <1>5, SubsetSizes DEF g, h

\* The sum over no element, and over one more.
LEMMA SumUnfold ==
  ASSUME NEW S, IsFiniteSet(S), NEW f, \A x \in S : f[x] \in Int
  PROVE  /\ SumFunctionOnSet(f, {}) = 0
         /\ SumFunctionOnSet(f, S) \in Int
         /\ S # {} => /\ Some(S) \in S
                      /\ SumFunctionOnSet(f, S)
                           = f[Some(S)] + SumFunctionOnSet(f, S \ {Some(S)})
<1> DEFINE h == SumIter(f, S)
<1>1. h = SumBody(f, S, h) /\ h[S] \in Int
  BY SumIterSolves
<1>2. S # {} => Some(S) \in S
  BY DEF Some
<1>3. SumFunctionOnSet(f, S) = h[S] /\ SumFunctionOnSet(f, {}) = h[{}]
  BY SumIsIter, SumIterAgrees
<1>4. SumFunctionOnSet(f, S \ {Some(S)}) = h[S \ {Some(S)}]
  BY SumIsIter, SumIterAgrees
<1> HIDE DEF h
<1> QED BY <1>1, <1>2, <1>3, <1>4 DEF SumBody

\* The same, for any element: the order in which they are added plays no part.
LEMMA SumRemove ==
  ASSUME NEW S, IsFiniteSet(S), NEW f, \A x \in S : f[x] \in Int
  PROVE  \A x \in S : SumFunctionOnSet(f, S) = f[x] + SumFunctionOnSet(f, S \ {x})
<1> DEFINE Sum(s) == SumFunctionOnSet(f, s)
           N == {n \in Nat : \A s \in SUBSET S : Cardinality(s) <= n =>
                   \A x \in s : Sum(s) = f[x] + Sum(s \ {x})}
<1>1. \A s \in SUBSET S :
        /\ Sum(s) \in Int
        /\ s # {} => /\ Some(s) \in s
                     /\ Sum(s) = f[Some(s)] + Sum(s \ {Some(s)})
  BY SumUnfold, SubsetSizes
<1> HIDE DEF Sum
<1>2. 0 \in N
  <2>1. \A s \in SUBSET S : Cardinality(s) <= 0 => s = {}
    BY SubsetSizes
  <2> QED BY <2>1
<1>3. ASSUME NEW n \in N PROVE n + 1 \in N
  <2>1. ASSUME NEW s \in SUBSET S, Cardinality(s) <= n + 1, NEW x \in s
        PROVE  Sum(s) = f[x] + Sum(s \ {x})
    <3> DEFINE y == Some(s)
    <3>1. y \in s /\ Sum(s) = f[y] + Sum(s \ {y})
      BY <1>1
    <3> HIDE DEF y
    <3>2. CASE x = y
      BY <3>1, <3>2
    <3>3. CASE x # y
      <4>1. /\ s \ {y} \in SUBSET S /\ Cardinality(s \ {y}) <= n /\ x \in s \ {y}
            /\ s \ {x} \in SUBSET S /\ Cardinality(s \ {x}) <= n /\ y \in s \ {x}
        BY <2>1, <3>1, <3>3, SubsetSizes
      <4>2. Sum(s \ {y}) = f[x] + Sum((s \ {y}) \ {x})
        BY <1>3, <4>1
      <4>3. Sum(s \ {x}) = f[y] + Sum((s \ {x}) \ {y})
        BY <1>3, <4>1
      <4>4. Sum((s \ {y}) \ {x}) = Sum((s \ {x}) \ {y})
        <5>1. (s \ {y}) \ {x} = (s \ {x}) \ {y}
          OBVIOUS
        <5> QED BY <5>1, Zenon
      <4>5. f[x] \in Int /\ f[y] \in Int /\ Sum((s \ {x}) \ {y}) \in Int
        BY <1>1, <3>1
      <4> QED BY <3>1, <4>2, <4>3, <4>4, <4>5
    <3> QED BY <3>2, <3>3
  <2> QED BY <2>1
<1>4. Cardinality(S) \in N
  <2> HIDE DEF N
  <2>1. N \subseteq Nat
    BY DEF N
  <2> QED BY <1>2, <1>3, <2>1, FromZeroOn, SubsetSizes
<1> QED BY <1>4, SubsetSizes DEF Sum

\* All that the proofs below need to know of sums.
LEMMA SumFacts ==
  ASSUME NEW S, IsFiniteSet(S), NEW f, \A x \in S : f[x] \in Int
  PROVE  /\ SumFunctionOnSet(f, {}) = 0
         /\ \A s \in SUBSET S :
              /\ SumFunctionOnSet(f, s) \in Int
              /\ \A x \in s : SumFunctionOnSet(f, s)
                                = f[x] + SumFunctionOnSet(f, s \ {x})
<1>1. SumFunctionOnSet(f, {}) = 0
  BY SumUnfold
<1>2. ASSUME NEW s \in SUBSET S
      PROVE  /\ SumFunctionOnSet(f, s) \in Int
             /\ \A x \in s : SumFunctionOnSet(f, s)
                               = f[x] + SumFunctionOnSet(f, s \ {x})
  <2>1. IsFiniteSet(s) /\ \A x \in s : f[x] \in Int
    BY SubsetSizes
  <2> QED BY <2>1, SumUnfold, SumRemove
<1> QED BY <1>1, <1>2

\* Terms that are not negative: an injection that lowers none of them cannot raise
\* the sum.
LEMMA SumInjection ==
  ASSUME NEW S, NEW T, IsFiniteSet(T),
         NEW f, \A x \in S : f[x] \in Nat, NEW g, \A y \in T : g[y] \in Nat,
         NEW h \in [S -> T], \A x, y \in S : h[x] = h[y] => x = y,
         \A x \in S : f[x] <= g[h[x]]
  PROVE  /\ IsFiniteSet(S)
         /\ SumFunctionOnSet(f, S) <= SumFunctionOnSet(g, T)
<1> DEFINE Image(s) == {h[x] : x \in s}
           N == {n \in Nat : \A s \in SUBSET S, t \in SUBSET T :
                   Image(s) \subseteq t /\ Cardinality(t) <= n =>
                     SumFunctionOnSet(f, s) <= SumFunctionOnSet(g, t)}
<1>1. h \in Injection(S, T)
  BY DEF Injection, IsInjective
<1>2. IsFiniteSet(S)
  BY <1>1, FS_Injection
<1>3. /\ SumFunctionOnSet(f, {}) = 0
      /\ \A s \in SUBSET S :
           /\ SumFunctionOnSet(f, s) \in Int
           /\ \A x \in s : SumFunctionOnSet(f, s)
                             = f[x] + SumFunctionOnSet(f, s \ {x})
  <2>1. \A x \in S : f[x] \in Int
    OBVIOUS
  <2> QED BY <1>2, <2>1, SumFacts
<1>4. /\ SumFunctionOnSet(g, {}) = 0
      /\ \A t \in SUBSET T :
           /\ SumFunctionOnSet(g, t) \in Int
           /\ \A y \in t : SumFunctionOnSet(g, t)
                             = g[y] + SumFunctionOnSet(g, t \ {y})
  <2>1. \A y \in T : g[y] \in Int
    OBVIOUS
  <2> QED BY <2>1, SumFacts
<1>5. 0 \in N
  <2>1. \A t \in SUBSET T : Cardinality(t) <= 0 => t = {}
    BY SubsetSizes
  <2>2. ASSUME NEW s \in SUBSET S, NEW t \in SUBSET T,
               Image(s) \subseteq t, Cardinality(t) <= 0
        PROVE  SumFunctionOnSet(f, s) = 0 /\ SumFunctionOnSet(g, t) = 0
    <3>1. t = {}
      BY <2>1, <2>2
    <3>2. s = {}
      BY <2>2, <3>1
    <3> QED BY <1>3, <1>4, <3>1, <3>2, Zenon
  <2> QED BY <2>2
<1>6. ASSUME NEW n \in N PROVE n + 1 \in N
  <2>1. ASSUME NEW s \in SUBSET S, NEW t \in SUBSET T,
               Image(s) \subseteq t, Cardinality(t) <= n + 1
        PROVE  SumFunctionOnSet(f, s) <= SumFunctionOnSet(g, t)
    <3>1. CASE t = {}
      <4>1. s = {}
        BY <2>1, <3>1
      <4> QED BY <1>3, <1>4, <3>1, <4>1
    <3>2. CASE t # {}
      <4>1. PICK y \in t : TRUE
        BY <3>2
      <4> DEFINE r == t \ {y}
      <4>2. r \in SUBSET T /\ Cardinality(r) <= n
        BY <2>1, SubsetSizes
      <4>3. /\ SumFunctionOnSet(g, t) = g[y] + SumFunctionOnSet(g, r)
            /\ g[y] \in Nat /\ SumFunctionOnSet(g, r) \in Int
        BY <1>4, <4>2
      <4> HIDE DEF r
      <4>4. CASE \E x \in s : h[x] = y
        <5>1. PICK x \in s : h[x] = y
          BY <4>4
        <5>2. Image(s \ {x}) \subseteq r /\ s \ {x} \in SUBSET S
          BY <2>1, <5>1 DEF r
        <5>3. SumFunctionOnSet(f, s \ {x}) <= SumFunctionOnSet(g, r)
          BY <1>6, <4>2, <5>2
        <5>4. /\ SumFunctionOnSet(f, s) = f[x] + SumFunctionOnSet(f, s \ {x})
              /\ f[x] <= g[y] /\ f[x] \in Nat /\ SumFunctionOnSet(f, s \ {x}) \in Int
          BY <1>3, <5>1, <5>2
        <5> QED BY <4>3, <5>3, <5>4
      <4>5. CASE ~ \E x \in s : h[x] = y
        <5>1. Image(s) \subseteq r
          BY <2>1, <4>5 DEF r
        <5>2. SumFunctionOnSet(f, s) <= SumFunctionOnSet(g, r)
          BY <1>6, <4>2, <5>1
        <5> QED BY <1>3, <4>3, <5>2
      <4> QED BY <4>4, <4>5
    <3> QED BY <3>1, <3>2
  <2> QED BY <2>1
<1>7. Cardinality(T) \in N
  <2> HIDE DEF N
  <2>1. N \subseteq Nat
    BY DEF N
  <2> QED BY <1>5, <1>6, <2>1, FromZeroOn, SubsetSizes
<1>8. Image(S) \subseteq T /\ S \in SUBSET S /\ T \in SUBSET T
  OBVIOUS
<1>9. Cardinality(T) \in Nat
  BY SubsetSizes
<1> QED BY <1>2, <1>7, <1>8, <1>9

\* A sum over the terms of another one, under other names.
LEMMA SumRenamed ==
  ASSUME NEW S, NEW T, IsFiniteSet(T), NEW f \in [S -> Nat], NEW g \in [T -> Nat],
         NEW h \in Bijection(S, T), \A x \in S : f[x] = g[h[x]]
  PROVE  SumFunction(f) = SumFunction(g)
<1>1. /\ h \in [S -> T] /\ \A x, y \in S : h[x] = h[y] => x = y
      /\ \A y \in T : \E x \in S : h[x] = y
  BY DEF Bijection, Injection, Surjection, IsInjective
<1> DEFINE k == [y \in T |-> CHOOSE x \in S : h[x] = y]
<1>2. \A y \in T : k[y] \in S /\ h[k[y]] = y
  BY <1>1
<1>3. k \in [T -> S] /\ \A x, y \in T : k[x] = k[y] => x = y
  BY <1>2
<1> HIDE DEF k
<1>4. \A x \in S : f[x] <= g[h[x]]
  OBVIOUS
<1>5. \A y \in T : g[y] <= f[k[y]]
  BY <1>2
<1>6. IsFiniteSet(S) /\ SumFunctionOnSet(f, S) <= SumFunctionOnSet(g, T)
  BY <1>1, <1>4, SumInjection
<1>7. SumFunctionOnSet(g, T) <= SumFunctionOnSet(f, S)
  BY <1>3, <1>5, <1>6, SumInjection
<1>8. SumFunctionOnSet(f, S) \in Int /\ SumFunctionOnSet(g, T) \in Int
  BY <1>6, SumFacts
<1>9. SumFunctionOnSet(f, S) = SumFunctionOnSet(g, T)
  BY <1>6, <1>7, <1>8
<1>10. DOMAIN f = S /\ DOMAIN g = T
  OBVIOUS
<1> QED BY <1>9, <1>10, Zenon DEF SumFunction

\* N terms of at least m each.
LEMMA SumAtLeast ==
  ASSUME NEW S, IsFiniteSet(S), NEW f, \A x \in S : f[x] \in Nat, NEW m \in Nat,
         \A x \in S : f[x] >= m
  PROVE  SumFunctionOnSet(f, S) >= Cardinality(S) * m
<1> DEFINE N == {n \in Nat : \A s \in SUBSET S :
                   Cardinality(s) = n => SumFunctionOnSet(f, s) >= n * m}
<1>1. /\ SumFunctionOnSet(f, {}) = 0
      /\ \A s \in SUBSET S :
           /\ SumFunctionOnSet(f, s) \in Int
           /\ \A x \in s : SumFunctionOnSet(f, s)
                             = f[x] + SumFunctionOnSet(f, s \ {x})
  <2>1. \A x \in S : f[x] \in Int
    OBVIOUS
  <2> QED BY <2>1, SumFacts
<1>2. 0 \in N
  <2>1. ASSUME NEW s \in SUBSET S, Cardinality(s) = 0
        PROVE  SumFunctionOnSet(f, s) = 0
    <3>1. s = {}
      BY <2>1, SubsetSizes
    <3> QED BY <1>1, <3>1, Zenon
  <2>2. 0 * m = 0
    OBVIOUS
  <2> QED BY <2>1, <2>2
<1>3. ASSUME NEW n \in N PROVE n + 1 \in N
  <2>1. ASSUME NEW s \in SUBSET S, Cardinality(s) = n + 1
        PROVE  SumFunctionOnSet(f, s) >= (n + 1) * m
    <3>1. PICK x \in s : TRUE
      BY <2>1, SubsetSizes
    <3>2. s \ {x} \in SUBSET S /\ Cardinality(s \ {x}) = n
      BY <2>1, SubsetSizes
    <3>3. SumFunctionOnSet(f, s \ {x}) >= n * m
      BY <1>3, <3>2
    <3>4. SumFunctionOnSet(f, s) = f[x] + SumFunctionOnSet(f, s \ {x})
      BY <1>1
    <3>5. /\ f[x] \in Nat /\ f[x] >= m
          /\ SumFunctionOnSet(f, s \ {x}) \in Int
      BY <1>1, <3>2
    <3>6. (n + 1) * m = n * m + m /\ n * m \in Int
      OBVIOUS
    <3> QED BY <3>3, <3>4, <3>5, <3>6
  <2> QED BY <2>1
<1>4. Cardinality(S) \in N
  <2> HIDE DEF N
  <2>1. N \subseteq Nat
    BY DEF N
  <2> QED BY <1>2, <1>3, <2>1, FromZeroOn, SubsetSizes
<1> QED BY <1>4

=============================================================================
