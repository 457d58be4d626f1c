--------------------------- MODULE DetectionRules ---------------------------
(***************************************************************************)
(* The fraud rules as pure decisions (internal/rules) and the Redis sorted *)
(* set the fraud service counts and sums with (services/fraud/window.go,   *)
(* spend.go).                                                              *)
(*                                                                         *)
(* Time is in whole seconds.  Scores and evidence, which follow from the   *)
(* verdict, are left out, and so are coordinates: Distance gives the       *)
(* kilometres between two cells, as geo.HaversineKm does from their        *)
(* coordinates.  Costs are integers.                                       *)
(***************************************************************************)
EXTENDS Integers, FiniteSets, FiniteSetsExt, Functions

CONSTANTS
  VelocityWindow,      \* VELOCITY_WINDOW_SEC
  VelocityThreshold,   \* VELOCITY_THRESHOLD; 0 turns the rule off
  MaxSpeed,            \* IMPOSSIBLE_TRAVEL_MAX_KMH, in km per unit of time
  Distance,            \* [cell \X cell -> km]
  SpendWindow,         \* IRSF_WINDOW_SEC
  SpendThreshold       \* IRSF_SPEND_THRESHOLD; 0 turns the rule off

ASSUME RulesAssumption ==
  /\ {VelocityWindow, VelocityThreshold, MaxSpeed,
      SpendWindow, SpendThreshold} \subseteq Nat

Rules == {"velocity", "impossible_travel", "irsf"}

-----------------------------------------------------------------------------
(***************************************************************************)
(* A Redis sorted set, as its set of entries, one per member.              *)
(***************************************************************************)

ZAdd(z, member, score) ==
  {e \in z : e.member # member} \cup {[member |-> member, score |-> score]}

ZRemRangeByScore(z, lo, hi) == {e \in z : e.score < lo \/ e.score > hi}

\* The MULTI/EXEC of slidingWindowCount and premiumSpendInWindow: record the call
\* at its event time, then drop the entries a window or more OLDER.  Entries that
\* are newer than the call stay.
Slide(z, member, at, window) ==
  ZRemRangeByScore(ZAdd(z, member, at), 0, at - window)

\* The members in the spend window carry their cost.
SpendIn(z) == SumFunction([e \in z |-> e.member.cost])

-----------------------------------------------------------------------------
(***************************************************************************)
(* The verdicts.  A threshold of 0 never triggers.                         *)
(***************************************************************************)

VelocityTriggered(count) ==
  VelocityThreshold > 0 /\ count >= VelocityThreshold

\* Calls less than a second apart count as a second apart.
TravelTriggered(km, dt) ==
  /\ km > 0
  /\ MaxSpeed > 0
  /\ km > MaxSpeed * Max({dt, 1})

SpendTriggered(spend) ==
  SpendThreshold > 0 /\ spend >= SpendThreshold

\* Deviation: the sign is kept.
ElapsedSigned(at, lastAt) == at - lastAt

\* The time between two calls, whichever came first.
Elapsed(at, lastAt) == IF at < lastAt THEN lastAt - at ELSE at - lastAt

=============================================================================
