------------------------------ MODULE MCFraud ------------------------------
(***************************************************************************)
(* FraudService on a small partition, for TLC: the calls of one or two     *)
(* subscribers between two cells 3 km apart.                               *)
(***************************************************************************)
EXTENDS FraudService, TLC

CONSTANTS c1, c2

MCRecordId == [o \in 0 .. LogEnd - 1 |-> o]

Km == {<<"north", "south">>, <<"south", "north">>}
MCDistance ==
  [p \in {"north", "south"} \X {"north", "south"} |-> IF p \in Km THEN 3 ELSE 0]

OneCaller(start, cell, cost) ==
  [r \in 0 .. LogEnd - 1 |->
     [caller |-> "alice", start |-> start[r + 1], cell |-> cell[r + 1],
      premium |-> cost[r + 1] > 0, cost |-> cost[r + 1]]]

\* Call 2 is a second after call 1, which is 2 after call 0.
LatePair == <<0, 2, 3>>

\* Call 1 is a second after call 0; call 2 is exactly 2 after call 1, and exactly 3
\* after call 0.
EarlyPair == <<0, 1, 3>>

Stay == <<"north", "north", "north">>

\* From call 1 to call 2 the subscriber is in two places at once; from call 0 to
\* call 2 there was time to travel.
Travel == <<"north", "north", "south">>

\* Time to travel from call 0 to call 1, and none to be back for call 2.
ThereAndBack == <<"north", "south", "north">>

Free == <<0, 0, 0>>
Premium == <<1, 0, 1>>
AllPremium == <<1, 1, 1>>

PairCalls == OneCaller(LatePair, Stay, Free)
SpendCalls == OneCaller(LatePair, Stay, Premium)
CountCalls == OneCaller(EarlyPair, Stay, Premium)
TravelCalls == OneCaller(LatePair, Travel, AllPremium)
TripCalls == OneCaller(LatePair, ThereAndBack, Free)

\* The loop's histories and the dead-letter topic are written, never read by a
\* step, nor by the properties of the runs with this view.
WithoutHistory ==
  <<groupVars, loopVars, seen, checkVars, redisVars, alerts, silenced>>

\* Likewise, where MaxSpeed is 0 and no location is ever compared.
OfCounts == <<groupVars, loopVars, seen, checkVars, velocity, spend, alerted, alerts>>

\* What a step or a liveness property reads: that a record is settled, and that
\* it is processed.
OfProgress ==
  <<groupVars, loopVars, seen, Settled, processed, checkVars, redisVars>>

\* SIGTERM is left to MCConsumer.
NoShutdown == cancelled' = {}

\* No cooldown runs out.
InsideCooldown == alerted \subseteq alerted'

\* Nothing fails and nothing expires: replicas only get and lose the partition.
\* (Of premium calls: for others a skipped IRSF check is the same step as NotPremium.)
OnlyRebalance ==
  /\ ~ \E c \in Consumers : CallFails(c) \/ EnrichmentUnavailable(c) \/ Crash(c)
  /\ InsideCooldown
  /\ seen \subseteq seen'
  /\ \A u \in Callers : lastloc[u] # Nowhere => lastloc'[u] # Nowhere

=============================================================================
