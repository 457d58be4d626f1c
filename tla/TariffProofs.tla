---------------------------- MODULE TariffProofs ----------------------------
(***************************************************************************)
(* Proofs about TariffCatalog: the one pass over the catalog finds the     *)
(* longest prefix, for any number.                                         *)
(***************************************************************************)
EXTENDS TariffCatalog, FoldProofs, SequenceTheorems

LEMMA CatalogTypeOK ==
  /\ Catalog \in Seq(Tariffs)
  /\ fallback \in Tariffs
BY DEF Catalog, fallback, Tariff, Tariffs

-----------------------------------------------------------------------------
(***************************************************************************)
(* FoldLeft is a recursion over sets of positions that leaves out the last *)
(* one each time.                                                          *)
(***************************************************************************)

Positions == DOMAIN Catalog

Pick(msisdn, best, t) == IF Better(best, t, msisdn) THEN t ELSE best

PassBody(msisdn, g) ==
  [s \in SUBSET Positions |->
     IF s = {} THEN fallback
               ELSE Pick(msisdn, g[s \ {Max(s)}], Catalog[Max(s)])]

Pass(msisdn) == CHOOSE g : g = PassBody(msisdn, g)

LEMMA LookupIsPass ==
  ASSUME NEW msisdn
  PROVE  Lookup(msisdn) = Pass(msisdn)[Positions]
BY Zenon DEF Lookup, FoldLeft, MapThenFoldSet, Pass, PassBody, Pick, Positions

\* The best entry before the first of the catalog, and after each.
BestAfter(msisdn) == [n \in 0 .. Len(Catalog) |-> Pass(msisdn)[1 .. n]]

LEMMA MaxOfRange ==
  ASSUME NEW n \in Nat, n > 0
  PROVE  Max(1 .. n) = n
BY DEF Max

\* Some positions have a last one.
LEMMA MaxOfSome ==
  ASSUME NEW n \in Nat, NEW s \in SUBSET (1 .. n), s # {}
  PROVE  Max(s) \in s /\ \A x \in s : x <= Max(s)
<1> DEFINE HasMax(t) == \E y \in t : \A x \in t : y >= x
           N == {k \in Nat : \A t \in SUBSET (1 .. k) : t # {} => HasMax(t)}
<1>1. 0 \in N
  <2>1. \A t \in SUBSET (1 .. 0) : t = {}
    OBVIOUS
  <2> QED BY <2>1
<1>2. ASSUME NEW k \in N PROVE k + 1 \in N
  <2>1. ASSUME NEW t \in SUBSET (1 .. k + 1), t # {}
        PROVE  HasMax(t)
    <3>1. CASE k + 1 \in t
      BY <3>1
    <3>2. CASE k + 1 \notin t
      <4>1. t \in SUBSET (1 .. k)
        BY <3>2
      <4> QED BY <1>2, <2>1, <4>1
    <3> QED BY <3>1, <3>2
  <2> QED BY <2>1
<1>3. n \in N
  <2> HIDE DEF N
  <2>1. N \subseteq Nat
    BY DEF N
  <2> QED BY <1>1, <1>2, <2>1, FromZeroOn
<1>4. HasMax(s)
  BY <1>3
<1> QED BY <1>4 DEF Max

LEMMA PositionsAreFinite ==
  /\ IsFiniteSet(Positions)
  /\ Len(Catalog) \in Nat
  /\ Positions = 1 .. Len(Catalog)
  /\ \A i \in Positions : Catalog[i] \in Tariffs
<1>1. /\ Positions = 1 .. Len(Catalog) /\ Len(Catalog) \in Nat
      /\ \A i \in Positions : Catalog[i] \in Tariffs
  <2> DEFINE c == Catalog
  <2>1. c \in Seq(Tariffs)
    BY CatalogTypeOK
  <2> HIDE DEF c
  <2>2. DOMAIN c = 1 .. Len(c) /\ Len(c) \in Nat /\ \A i \in DOMAIN c : c[i] \in Tariffs
    BY <2>1
  <2> QED BY <2>2 DEF c, Positions
<1>2. IsFiniteSet(Positions)
  BY <1>1, FS_Interval
<1> QED BY <1>1, <1>2

LEMMA PassSolves ==
  ASSUME NEW msisdn
  PROVE  Pass(msisdn) = PassBody(msisdn, Pass(msisdn))
<1> DEFINE c == [s \in SUBSET Positions |-> Max(s)]
           o == [s \in SUBSET Positions |-> [best \in Tariffs |->
                   IF s = {} THEN fallback ELSE Pick(msisdn, best, Catalog[Max(s)])]]
<1>1. \A s \in SUBSET Positions : s # {} => Max(s) \in s /\ Catalog[Max(s)] \in Tariffs
  BY PositionsAreFinite, MaxOfSome
<1>2. Chooses(c, Positions)
  BY <1>1 DEF Chooses
<1>3. o \in [SUBSET Positions -> [Tariffs -> Tariffs]]
  BY <1>1, CatalogTypeOK DEF Pick
<1>4. \E g \in [SUBSET Positions -> Tariffs] : Solves(g, Positions, fallback, c, o)
  <2> HIDE DEF c, o
  <2> QED BY <1>2, <1>3, PositionsAreFinite, CatalogTypeOK, IterationExists
<1>5. PICK g \in [SUBSET Positions -> Tariffs] : \A s \in SUBSET Positions :
        g[s] = IF s = {} THEN fallback ELSE o[s][g[s \ {c[s]}]]
  BY <1>4 DEF Solves
<1>6. \A s \in SUBSET Positions : s # {} =>
        g[s] = Pick(msisdn, g[s \ {Max(s)}], Catalog[Max(s)])
  BY <1>5
<1>7. g = PassBody(msisdn, g)
  BY <1>5, <1>6 DEF PassBody
<1> QED BY <1>7 DEF Pass

\* The pass, entry by entry.
LEMMA PassUnfolds ==
  ASSUME NEW msisdn
  PROVE  LET best == BestAfter(msisdn)
         IN  /\ best[0] = fallback
             /\ \A n \in 0 .. Len(Catalog) - 1 :
                  best[n + 1] = Pick(msisdn, best[n], Catalog[n + 1])
             /\ Lookup(msisdn) = best[Len(Catalog)]
<1> DEFINE g == Pass(msisdn)
<1>1. \A s \in SUBSET Positions :
        g[s] = IF s = {} THEN fallback
                         ELSE Pick(msisdn, g[s \ {Max(s)}], Catalog[Max(s)])
  <2>1. g = PassBody(msisdn, g)
    BY PassSolves
  <2> HIDE DEF g
  <2> QED BY <2>1 DEF PassBody
<1>2. \A n \in 0 .. Len(Catalog) : BestAfter(msisdn)[n] = g[1 .. n]
  BY DEF BestAfter
<1>3. Lookup(msisdn) = g[1 .. Len(Catalog)]
  BY LookupIsPass, PositionsAreFinite
<1> HIDE DEF g
<1>4. g[1 .. 0] = fallback
  BY <1>1
<1>5. ASSUME NEW n \in 0 .. Len(Catalog) - 1
      PROVE  g[1 .. n + 1] = Pick(msisdn, g[1 .. n], Catalog[n + 1])
  <2> DEFINE s == 1 .. n + 1
  <2>1. n \in Nat /\ n + 1 \in Nat /\ n + 1 > 0
    BY PositionsAreFinite
  <2>2. Max(s) = n + 1
    BY <2>1, MaxOfRange
  <2>3. s \in SUBSET Positions /\ s # {}
    BY PositionsAreFinite
  <2>4. s \ {n + 1} = 1 .. n
    BY <2>1
  <2> HIDE DEF s
  <2>5. g[s] = Pick(msisdn, g[s \ {Max(s)}], Catalog[Max(s)])
    BY <1>1, <2>3
  <2>6. g[s \ {Max(s)}] = g[1 .. n]
    BY <2>2, <2>4, Zenon
  <2> QED BY <2>2, <2>5, <2>6 DEF s
<1> QED BY <1>2, <1>3, <1>4, <1>5, PositionsAreFinite

-----------------------------------------------------------------------------
\* Whatever the number, the tariff is one of the catalog's, or the fallback.
LEMMA BestIsATariff ==
  ASSUME NEW msisdn, NEW n \in 0 .. Len(Catalog)
  PROVE  BestAfter(msisdn)[n] \in {Catalog[i] : i \in 1 .. n} \cup {fallback}
<1> DEFINE best == BestAfter(msisdn)
           N == {k \in Nat : k <= Len(Catalog) =>
                   best[k] \in {Catalog[i] : i \in 1 .. k} \cup {fallback}}
<1> HIDE DEF best
<1>0. Len(Catalog) \in Nat
  BY PositionsAreFinite
<1>1. 0 \in N
  BY PassUnfolds DEF best
<1>2. ASSUME NEW k \in N PROVE k + 1 \in N
  <2>1. CASE k + 1 <= Len(Catalog)
    <3>1. best[k + 1] = Pick(msisdn, best[k], Catalog[k + 1])
      BY <1>0, <2>1, PassUnfolds DEF best
    <3>2. best[k] \in {Catalog[i] : i \in 1 .. k} \cup {fallback}
      BY <1>0, <2>1
    <3> QED BY <3>1, <3>2 DEF Pick
  <2>2. CASE ~ (k + 1 <= Len(Catalog))
    BY <2>2
  <2> QED BY <2>1, <2>2
<1>3. n \in N
  <2> HIDE DEF N
  <2>1. N \subseteq Nat
    BY DEF N
  <2> QED BY <1>0, <1>1, <1>2, <2>1, FromZeroOn
<1> QED BY <1>0, <1>3 DEF best

THEOREM LookupType ==
  ASSUME NEW msisdn
  PROVE  /\ Lookup(msisdn) \in ToSet(Catalog) \cup {fallback}
         /\ Lookup(msisdn) \in Tariffs
<1>1. Len(Catalog) \in 0 .. Len(Catalog) /\ DOMAIN Catalog = 1 .. Len(Catalog)
  BY PositionsAreFinite DEF Positions
<1>2. Lookup(msisdn) \in {Catalog[i] : i \in 1 .. Len(Catalog)} \cup {fallback}
  BY <1>1, PassUnfolds, BestIsATariff
<1>3. {Catalog[i] : i \in 1 .. Len(Catalog)} = ToSet(Catalog)
  BY <1>1, Zenon DEF ToSet
<1> QED BY <1>1, <1>2, <1>3, PositionsAreFinite, CatalogTypeOK

LEMMA EmptyPrefix ==
  ASSUME NEW msisdn \in Seq(Nat)
  PROVE  IsPrefix(fallback.prefix, msisdn)
<1>1. fallback.prefix = <<>>
  BY DEF fallback, Tariff
<1>2. Len(<<>>) = 0 /\ SubSeq(<<>>, 1, 0) = <<>> /\ SubSeq(msisdn, 1, 0) = <<>>
  OBVIOUS
<1>3. 0 <= Len(msisdn)
  OBVIOUS
<1> QED BY <1>1, <1>2, <1>3 DEF IsPrefix

\* Lookup's comment, "longest-prefix match", of every number: TLC compares the
\* lookup with it for numbers of up to four digits, this theorem for all.
THEOREM LongestMatch ==
  ASSUME NEW msisdn \in Seq(Nat)
  PROVE  MatchesLongest(msisdn)
<1> DEFINE best == BestAfter(msisdn)
           Found(k) == /\ best[k] \in Tariffs
                       /\ IsPrefix(best[k].prefix, msisdn)
                       /\ \A i \in 1 .. k :
                            IsPrefix(Catalog[i].prefix, msisdn) =>
                              Len(Catalog[i].prefix) <= Len(best[k].prefix)
           N == {k \in Nat : k <= Len(Catalog) => Found(k)}
<1>0. /\ Len(Catalog) \in Nat
      /\ \A i \in 1 .. Len(Catalog) : Catalog[i] \in Tariffs
      /\ \A t \in Tariffs : Len(t.prefix) \in Nat
  BY PositionsAreFinite DEF Tariffs
<1> HIDE DEF best
<1>1. 0 \in N
  <2>1. best[0] = fallback
    BY PassUnfolds DEF best
  <2> QED BY <2>1, CatalogTypeOK, EmptyPrefix
<1>2. ASSUME NEW k \in N PROVE k + 1 \in N
  <2>1. CASE k + 1 <= Len(Catalog)
    <3> DEFINE t == Catalog[k + 1]
    <3>1. best[k + 1] = Pick(msisdn, best[k], t)
      BY <1>0, <2>1, PassUnfolds DEF best
    <3>2. Found(k) /\ t \in Tariffs
      BY <1>0, <2>1
    <3>3. \A i \in 1 .. k + 1 : i \in 1 .. k \/ Catalog[i] = t
      OBVIOUS
    <3>4. \A i \in 1 .. k : Len(Catalog[i].prefix) \in Nat
      BY <1>0, <2>1
    <3>5. Len(t.prefix) \in Nat /\ Len(best[k].prefix) \in Nat
      BY <1>0, <3>2
    <3> HIDE DEF t
    <3>6. CASE Better(best[k], t, msisdn)
      <4>1. best[k + 1] = t
        BY <3>1, <3>6 DEF Pick
      <4>2. Len(best[k].prefix) < Len(t.prefix) /\ IsPrefix(t.prefix, msisdn)
        BY <3>6 DEF Better
      <4>3. \A i \in 1 .. k + 1 : IsPrefix(Catalog[i].prefix, msisdn) =>
              Len(Catalog[i].prefix) <= Len(t.prefix)
        BY <3>2, <3>3, <3>4, <3>5, <4>2
      <4> QED BY <3>2, <4>1, <4>2, <4>3
    <3>7. CASE ~ Better(best[k], t, msisdn)
      <4>1. best[k + 1] = best[k]
        BY <3>1, <3>7 DEF Pick
      <4>2. IsPrefix(t.prefix, msisdn) => Len(t.prefix) <= Len(best[k].prefix)
        BY <3>5, <3>7 DEF Better
      <4>3. \A i \in 1 .. k + 1 : IsPrefix(Catalog[i].prefix, msisdn) =>
              Len(Catalog[i].prefix) <= Len(best[k].prefix)
        BY <3>2, <3>3, <4>2
      <4> QED BY <3>2, <4>1, <4>3
    <3> QED BY <3>6, <3>7
  <2>2. CASE ~ (k + 1 <= Len(Catalog))
    BY <2>2
  <2> QED BY <2>1, <2>2
<1>3. Len(Catalog) \in N
  <2> HIDE DEF N
  <2>1. N \subseteq Nat
    BY DEF N
  <2> QED BY <1>0, <1>1, <1>2, <2>1, FromZeroOn
<1>4. Lookup(msisdn) = best[Len(Catalog)]
  BY PassUnfolds DEF best
<1>5. \A t \in ToSet(Catalog) : \E i \in 1 .. Len(Catalog) : t = Catalog[i]
  BY PositionsAreFinite DEF ToSet, Positions
<1> QED BY <1>0, <1>3, <1>4, <1>5 DEF MatchesLongest

=============================================================================
