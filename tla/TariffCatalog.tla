--------------------------- MODULE TariffCatalog ---------------------------
(***************************************************************************)
(* internal/tariff: the destination tariffs and their lookup.  A number    *)
(* and a prefix are the sequences of their digits, without the "+" all of  *)
(* them begin with; a rate is in hundredths per minute.                    *)
(***************************************************************************)
EXTENDS Naturals, SequencesExt

CONSTANT Numbers   \* the numbers that can be called

ASSUME NumbersAssumption == Numbers \subseteq Seq(Nat)

Tariff(prefix, rate, premium) ==
  [prefix |-> prefix, rate |-> rate, premium |-> premium]

Tariffs == [prefix : Seq(Nat), rate : Nat, premium : BOOLEAN]

Catalog == <<
  Tariff(<<9, 0>>,      10, FALSE),
  Tariff(<<1>>,         40, FALSE),
  Tariff(<<4, 4>>,      50, FALSE),
  Tariff(<<4, 9>>,      50, FALSE),
  Tariff(<<8, 8, 1>>, 1200, TRUE),
  Tariff(<<8, 8, 2>>,  900, TRUE),
  Tariff(<<8, 8, 3>>,  900, TRUE),
  Tariff(<<9, 0, 0>>,  800, TRUE) >>

fallback == Tariff(<<>>, 100, FALSE)

\* Deviation: the first entry that matches is taken.
BetterFirstMatch(best, t, msisdn) ==
  best = fallback /\ IsPrefix(t.prefix, msisdn)

\* The entry t replaces the best one so far.
Better(best, t, msisdn) ==
  IsPrefix(t.prefix, msisdn) /\ Len(t.prefix) > Len(best.prefix)

\* One pass over the catalog, in its order.
Lookup(msisdn) ==
  LET Pick(best, t) == IF Better(best, t, msisdn) THEN t ELSE best
  IN  FoldLeft(Pick, fallback, Catalog)

\* Lookup's comment, "longest-prefix match": the tariff found matches, and no entry
\* that matches has a longer prefix; the order of the catalog plays no part.  With
\* +90 and +900 in one catalog a premium number could otherwise pass for a
\* domestic one.
MatchesLongest(msisdn) ==
  LET found == Lookup(msisdn)
  IN  /\ IsPrefix(found.prefix, msisdn)
      /\ \A t \in ToSet(Catalog) :
           IsPrefix(t.prefix, msisdn) => Len(t.prefix) <= Len(found.prefix)

=============================================================================
