---------------------------- MODULE FraudService ----------------------------
(***************************************************************************)
(* The fraud service with its rules: CdrConsumer's loop, where the step    *)
(* "checks" is expanded into what processor.handle does with a new record: *)
(*   services/fraud/main.go     checkVelocity, checkImpossibleTravel,      *)
(*                              checkIRSF, maybeEmit, emit                 *)
(*   services/fraud/window.go   slidingWindowCount                         *)
(*   services/fraud/spend.go    premiumSpendInWindow                       *)
(*   services/fraud/lastloc.go  getLastLocation, setLastLocation           *)
(*                                                                         *)
(* Each step is one call to Redis or Kafka, and may fail.  Redis drops a   *)
(* key when its TTL runs out; a replica can lag or be down for any length  *)
(* of wall-clock time between two steps, so that is an action of its own,  *)
(* at any time.                                                            *)
(***************************************************************************)
EXTENDS CdrConsumer, DetectionRules

CONSTANTS
  Call,          \* [record_id -> the CDR's caller, start, cell, premium, cost]
  Nowhere,       \* Redis has no "lastloc:" key
  Failing        \* of OutageSpec: offsets an outage of Redis or Kafka may hit

\* Event times count from 1970; a cost is a rate times a duration; a cell is no
\* distance from itself.
ASSUME CallAssumption ==
  \A r \in RecordIds :
    /\ Call[r].start \in Nat
    /\ Call[r].cost \in Nat
    /\ Distance[<<Call[r].cell, Call[r].cell>>] = 0
    /\ \A q \in RecordIds : Distance[<<Call[q].cell, Call[r].cell>>] \in Nat

Callers == {Call[r].caller : r \in RecordIds}

VARIABLES
  rule,          \* [Consumers -> the check handle is in]
  step,          \* [Consumers -> the call that check makes next]
  velocity,      \* [Callers -> the sorted set "velocity:<caller>"]
  spend,         \* [Callers -> the sorted set "spend:<caller>"]
  lastloc,       \* [Callers -> "lastloc:<caller>": cell and time, or Nowhere]
  alerted,       \* the live "alerted:<rule>:<caller>" keys
  alerts,        \* the alerts published on cdr.fraud.alert
  silenced       \* history: record_ids whose travel alert a cooldown held back

checkVars == <<rule, step>>
redisVars == <<velocity, spend, lastloc, alerted>>
fraudVars == <<consumerVars, checkVars, redisVars, alerts, silenced>>

Steps == {"evaluate", "exists", "emit", "flag", "advance"}

SpendMember(r) == [id |-> r, cost |-> Call[r].cost]
Location(r) == [cell |-> Call[r].cell, at |-> Call[r].start]
CallsOf(u) == {r \in RecordIds : Call[r].caller = u}
PremiumCallsOf(u) == {r \in CallsOf(u) : Call[r].premium}

RulesTypeOK ==
  /\ rule \in [Consumers -> Rules]
  /\ step \in [Consumers -> Steps]
  /\ DOMAIN velocity = Callers
  /\ \A u \in Callers : velocity[u] \subseteq
       {[member |-> r, score |-> Call[r].start] : r \in CallsOf(u)}
  /\ DOMAIN spend = Callers
  /\ \A u \in Callers : spend[u] \subseteq
       {[member |-> SpendMember(r), score |-> Call[r].start] : r \in PremiumCallsOf(u)}
  /\ DOMAIN lastloc = Callers
  /\ \A u \in Callers :
       lastloc[u] \in {Location(r) : r \in CallsOf(u)} \cup {Nowhere}
  /\ alerted \subseteq Rules \X Callers
  /\ alerts \subseteq [record_id : RecordIds, rule : Rules]
  /\ silenced \subseteq RecordIds

FraudInit ==
  /\ ConsumerInit
  /\ rule = [c \in Consumers |-> "velocity"]
  /\ step = [c \in Consumers |-> "evaluate"]
  /\ velocity = [u \in Callers |-> {}]
  /\ spend = [u \in Callers |-> {}]
  /\ lastloc = [u \in Callers |-> Nowhere]
  /\ alerted = {}
  /\ alerts = {}
  /\ silenced = {}

-----------------------------------------------------------------------------
(***************************************************************************)
(* Moving from call to call.                                               *)
(***************************************************************************)
CallInHand(c) == Call[Record(c)]
Caller(c) == CallInHand(c).caller
AlertKey(c) == <<rule[c], Caller(c)>>
Alert(c) == [record_id |-> Record(c), rule |-> rule[c]]

Checking(c, r, s) == At(c, "checks") /\ rule[c] = r /\ step[c] = s

GotoStep(c, s) ==
  /\ step' = [step EXCEPT ![c] = s]
  /\ UNCHANGED <<consumerVars, rule>>

Rewind(c) ==
  /\ rule' = [rule EXCEPT ![c] = "velocity"]
  /\ step' = [step EXCEPT ![c] = "evaluate"]

\* A check returned nil: the next check, or all three are done.
NextRule(c) ==
  IF rule[c] = "irsf"
    THEN ChecksDone(c) /\ Rewind(c)
    ELSE /\ rule' = [rule EXCEPT ![c] = IF @ = "velocity" THEN "impossible_travel"
                                                          ELSE "irsf"]
         /\ step' = [step EXCEPT ![c] = "evaluate"]
         /\ UNCHANGED consumerVars

\* A check returned an error: handle returns it.
AbortChecks(c) == ChecksError(c) /\ Rewind(c)

\* Deviation: a failed lookup fails the record.
SkipRuleFails(c) == AbortChecks(c)

\* subscriber-service is unavailable and the key is not cached, or it does not
\* know the cell: the rule is skipped.
SkipRule(c) == NextRule(c)

\* maybeEmit returned nil: impossible-travel still has to advance the location.
AfterEmit(c) ==
  IF rule[c] = "impossible_travel" THEN GotoStep(c, "advance") ELSE NextRule(c)

\* The rule triggered, or not.
Verdict(c, triggered) ==
  IF triggered THEN GotoStep(c, "exists") ELSE AfterEmit(c)

-----------------------------------------------------------------------------
(***************************************************************************)
(* checkVelocity, checkImpossibleTravel, checkIRSF.                        *)
(***************************************************************************)

\* Deviation: eventMs and windowMs are swapped.
SlideVelocitySwapped(c) ==
  velocity' = [velocity EXCEPT ![Caller(c)] =
                 Slide(@, Record(c), VelocityWindow, CallInHand(c).start)]

\* Deviation: the member is new on every attempt.
SlideVelocityPerAttempt(c) ==
  velocity' = [velocity EXCEPT ![Caller(c)] =
                 Slide(@, <<Record(c), attempt[c]>>, CallInHand(c).start,
                       VelocityWindow)]

\* slidingWindowCount, then Evaluate.  The member is the record_id.
SlideVelocity(c) ==
  velocity' = [velocity EXCEPT ![Caller(c)] =
                 Slide(@, Record(c), CallInHand(c).start, VelocityWindow)]

CheckVelocity(c) ==
  /\ Checking(c, "velocity", "evaluate")
  /\ SlideVelocity(c)
  /\ Verdict(c, VelocityTriggered(Cardinality(velocity'[Caller(c)])))
  /\ UNCHANGED <<spend, lastloc, alerted, alerts, silenced>>

\* The pipeline fails, executed or not.
CheckVelocityError(c) ==
  /\ Checking(c, "velocity", "evaluate")
  /\ SlideVelocity(c) \/ UNCHANGED velocity
  /\ AbortChecks(c)
  /\ UNCHANGED <<spend, lastloc, alerted, alerts, silenced>>

EnrichmentUnavailable(c) ==
  /\ \/ Checking(c, "impossible_travel", "evaluate")
     \/ Checking(c, "irsf", "evaluate")
  /\ SkipRule(c)
  /\ UNCHANGED <<redisVars, alerts, silenced>>

\* The cell's location is there; getLastLocation, then Evaluate.
TooFast(last, current) ==
  TravelTriggered(Distance[<<last.cell, current.cell>>],
                  Elapsed(current.at, last.at))

CheckImpossibleTravel(c) ==
  /\ Checking(c, "impossible_travel", "evaluate")
  /\ Verdict(c, /\ lastloc[Caller(c)] # Nowhere
                /\ TooFast(lastloc[Caller(c)], Location(Record(c))))
  /\ UNCHANGED <<redisVars, alerts, silenced>>

\* The GET fails.
CheckImpossibleTravelError(c) ==
  /\ Checking(c, "impossible_travel", "evaluate")
  /\ AbortChecks(c)
  /\ UNCHANGED <<redisVars, alerts, silenced>>

\* setLastLocation, whatever the verdict was.
Advance(c) == lastloc' = [lastloc EXCEPT ![Caller(c)] = Location(Record(c))]

SetLastLocation(c) ==
  /\ Checking(c, "impossible_travel", "advance")
  /\ Advance(c)
  /\ NextRule(c)
  /\ UNCHANGED <<velocity, spend, alerted, alerts, silenced>>

SetLastLocationError(c) ==
  /\ Checking(c, "impossible_travel", "advance")
  /\ Advance(c) \/ UNCHANGED lastloc
  /\ AbortChecks(c)
  /\ UNCHANGED <<velocity, spend, alerted, alerts, silenced>>

\* The tariff says the destination is not premium: nothing accrues.
NotPremium(c) ==
  /\ Checking(c, "irsf", "evaluate")
  /\ ~ CallInHand(c).premium
  /\ NextRule(c)
  /\ UNCHANGED <<redisVars, alerts, silenced>>

\* Deviation: the member is new on every attempt.
SlideSpendPerAttempt(c) ==
  spend' = [spend EXCEPT ![Caller(c)] =
              Slide(@, [id |-> <<Record(c), attempt[c]>>, cost |-> CallInHand(c).cost],
                    CallInHand(c).start, SpendWindow)]

\* premiumSpendInWindow, then Evaluate.
SlideSpend(c) ==
  spend' = [spend EXCEPT ![Caller(c)] =
              Slide(@, SpendMember(Record(c)), CallInHand(c).start, SpendWindow)]

CheckIRSF(c) ==
  /\ Checking(c, "irsf", "evaluate")
  /\ CallInHand(c).premium
  /\ SlideSpend(c)
  /\ Verdict(c, SpendTriggered(SpendIn(spend'[Caller(c)])))
  /\ UNCHANGED <<velocity, lastloc, alerted, alerts, silenced>>

CheckIRSFError(c) ==
  /\ Checking(c, "irsf", "evaluate")
  /\ CallInHand(c).premium
  /\ SlideSpend(c) \/ UNCHANGED spend
  /\ AbortChecks(c)
  /\ UNCHANGED <<velocity, lastloc, alerted, alerts, silenced>>

-----------------------------------------------------------------------------
(***************************************************************************)
(* maybeEmit: EXISTS, then emit, then SET with the cooldown as TTL.        *)
(***************************************************************************)

\* The rule and subscriber are in cooldown: nil, nothing emitted.
Suppressed(c) ==
  /\ At(c, "checks") /\ step[c] = "exists"
  /\ AlertKey(c) \in alerted
  /\ silenced' = IF rule[c] = "impossible_travel"
                   THEN silenced \cup {Record(c)} ELSE silenced
  /\ AfterEmit(c)
  /\ UNCHANGED <<redisVars, alerts>>

\* Deviation: the flag is set before the alert is emitted.
NotSuppressedFlagFirst(c) ==
  /\ At(c, "checks") /\ step[c] = "exists"
  /\ AlertKey(c) \notin alerted
  /\ alerted' = alerted \cup {AlertKey(c)}
  /\ GotoStep(c, "emit")
  /\ UNCHANGED <<velocity, spend, lastloc, alerts, silenced>>

NotSuppressed(c) ==
  /\ At(c, "checks") /\ step[c] = "exists"
  /\ AlertKey(c) \notin alerted
  /\ GotoStep(c, "emit")
  /\ UNCHANGED <<redisVars, alerts, silenced>>

Emit(c) ==
  /\ At(c, "checks") /\ step[c] = "emit"
  /\ alerts' = alerts \cup {Alert(c)}
  /\ GotoStep(c, "flag")
  /\ UNCHANGED <<redisVars, silenced>>

SetFlag(c) ==
  /\ At(c, "checks") /\ step[c] = "flag"
  /\ alerted' = alerted \cup {AlertKey(c)}
  /\ AfterEmit(c)
  /\ UNCHANGED <<velocity, spend, lastloc, alerts, silenced>>

\* Deviation: the check goes on after a failed emit.
EmitFailedIgnored(c) == AfterEmit(c)

\* maybeEmit returned an error, and so does the check.
EmitFailed(c) == AbortChecks(c)

\* The EXISTS, the write or the SET fails; the last two may have taken effect.
MaybeEmitError(c) ==
  /\ At(c, "checks") /\ step[c] \in {"exists", "emit", "flag"}
  /\ \/ UNCHANGED <<alerts, alerted>>
     \/ /\ step[c] = "emit"
        /\ alerts' = alerts \cup {Alert(c)}
        /\ UNCHANGED alerted
     \/ /\ step[c] = "flag"
        /\ alerted' = alerted \cup {AlertKey(c)}
        /\ UNCHANGED alerts
  /\ EmitFailed(c)
  /\ UNCHANGED <<velocity, spend, lastloc, silenced>>

-----------------------------------------------------------------------------
(***************************************************************************)
(* Redis drops a key when its TTL runs out.                                *)
(***************************************************************************)
VelocityExpire(u) ==
  /\ velocity[u] # {}
  /\ velocity' = [velocity EXCEPT ![u] = {}]
  /\ UNCHANGED <<consumerVars, checkVars, spend, lastloc, alerted,
                  alerts, silenced>>

SpendExpire(u) ==
  /\ spend[u] # {}
  /\ spend' = [spend EXCEPT ![u] = {}]
  /\ UNCHANGED <<consumerVars, checkVars, velocity, lastloc, alerted,
                  alerts, silenced>>

LastLocExpire(u) ==
  /\ lastloc[u] # Nowhere
  /\ lastloc' = [lastloc EXCEPT ![u] = Nowhere]
  /\ UNCHANGED <<consumerVars, checkVars, velocity, spend, alerted,
                  alerts, silenced>>

CooldownExpire(k) ==
  /\ k \in alerted
  /\ alerted' = alerted \ {k}
  /\ UNCHANGED <<consumerVars, checkVars, velocity, spend, lastloc,
                  alerts, silenced>>

-----------------------------------------------------------------------------
\* A step of handle's three checks.
CheckStep(c) ==
  \/ CheckVelocity(c)
  \/ EnrichmentUnavailable(c)
  \/ CheckImpossibleTravel(c)
  \/ SetLastLocation(c)
  \/ NotPremium(c)
  \/ CheckIRSF(c)
  \/ Suppressed(c)
  \/ NotSuppressed(c)
  \/ Emit(c)
  \/ SetFlag(c)

CheckError(c) ==
  \/ CheckVelocityError(c)
  \/ CheckImpossibleTravelError(c)
  \/ SetLastLocationError(c)
  \/ CheckIRSFError(c)
  \/ MaybeEmitError(c)

\* The rest of the loop leaves the rules' state alone.
PlainLoopStep(c) == LoopStep(c) /\ UNCHANGED <<checkVars, redisVars, alerts, silenced>>

ReplicaStep(c) == PlainLoopStep(c) \/ CheckStep(c) \/ CheckError(c)

\* A crash inside handle loses the replica's place in it.
OutsideStep ==
  /\ GroupStep
  /\ rule' = [c \in Consumers |-> IF pc'[c] = "checks" THEN rule[c] ELSE "velocity"]
  /\ step' = [c \in Consumers |-> IF pc'[c] = "checks" THEN step[c] ELSE "evaluate"]
  /\ UNCHANGED <<redisVars, alerts, silenced>>

Expiry ==
  \/ \E u \in Callers : VelocityExpire(u) \/ SpendExpire(u) \/ LastLocExpire(u)
  \/ \E k \in alerted : CooldownExpire(k)

FraudNext ==
  \/ \E c \in Consumers : ReplicaStep(c)
  \/ OutsideStep
  \/ Expiry

FraudSpec == FraudInit /\ [][FraudNext]_fraudVars

\* Every call of the loop returns within its timeout, with a result or an error,
\* so a replica that is up takes its next step, and a fetch hands out a record the
\* log has for it; Kubernetes restarts a replica; the group coordinator assigns a
\* partition nobody owns.  No call to Redis, to subscriber-service or to the
\* alert and dead-letter topics is assumed ever to succeed, nor any commit.
FraudFairness ==
  /\ \A c \in Consumers :
       /\ WF_fraudVars(ReplicaStep(c))
       /\ WF_fraudVars(OutsideStep /\ Restart(c))
  /\ WF_fraudVars(OutsideStep /\ owner = NoOne /\ \E c \in Consumers : Assign(c))

-----------------------------------------------------------------------------
(***************************************************************************)
(* Properties.                                                             *)
(***************************************************************************)

\* VelocityThreshold calls of r's caller are no more than a window older than r.
VelocityBacked(r) ==
  Cardinality({q \in CallsOf(Call[r].caller) :
                 Call[q].start > Call[r].start - VelocityWindow})
    >= VelocityThreshold

\* Likewise premium calls that together cost the threshold.
SpendBacked(r) ==
  LET recent == {q \in PremiumCallsOf(Call[r].caller) :
                   Call[q].start > Call[r].start - SpendWindow}
  IN  SumFunction([q \in recent |-> Call[q].cost]) >= SpendThreshold

\* Nobody gets from one location to the other in time, in either direction.
Impossible(p, q) ==
  Distance[<<p.cell, q.cell>>]
    > MaxSpeed * Max({p.at - q.at, q.at - p.at, 1})

\* r cannot follow, or precede, some other call of its caller.
TravelBacked(r) ==
  \E q \in CallsOf(Call[r].caller) \ {r} : Impossible(Location(q), Location(r))

\* A velocity alert is backed by VelocityThreshold DISTINCT calls, each less than a
\* window older than the call it names, or newer: retries, redeliveries and failed
\* calls that took effect cannot inflate the count (window.go, "IDEMPOTENT").  That
\* the calls share ONE window is more than the code gives: see VelocityWithinWindow.
VelocityGenuine ==
  \A a \in alerts : a.rule = "velocity" => VelocityBacked(a.record_id)

\* An IRSF alert is backed by premium calls that cost the threshold, each counted
\* once and less than a window older than the call it names, or newer (spend.go,
\* "rather than double-counting the spend").
SpendGenuine ==
  \A a \in alerts : a.rule = "irsf" => SpendBacked(a.record_id)

\* An impossible-travel alert names a call that cannot follow, or precede, some
\* other call of the subscriber: not itself on a redelivery, and not a call that
\* was really far enough away in time.
TravelGenuine ==
  \A a \in alerts : a.rule = "impossible_travel" => TravelBacked(a.record_id)

\* The part of their inductive invariant about a replica whose rule triggered: what
\* triggered it is a matter of the log, whatever has become of the windows since.
TriggeredIsBacked ==
  \A c \in Consumers :
    pc[c] = "checks" /\ step[c] \in {"exists", "emit", "flag"} =>
      /\ rule[c] = "velocity" => VelocityBacked(Record(c))
      /\ rule[c] = "impossible_travel" => TravelBacked(Record(c))
      /\ rule[c] = "irsf" => SpendBacked(Record(c))

BackedInv == TriggeredIsBacked /\ VelocityGenuine /\ TravelGenuine /\ SpendGenuine

\* A cooldown flag is set only after the alert is out (maybeEmit): a rule is never
\* silenced for a subscriber nobody was alerted about.
FlagMeansAlerted ==
  \A k \in alerted : \E a \in alerts :
    a.rule = k[1] /\ Call[a.record_id].caller = k[2]

\* The parts of its inductive invariant: outside the checks nothing is under way,
\* and a replica about to set a flag has published the alert.
AtRest ==
  \A c \in Consumers :
    pc[c] # "checks" => rule[c] = "velocity" /\ step[c] = "evaluate"

EmittedBeforeFlag ==
  \A c \in Consumers :
    pc[c] = "checks" /\ step[c] = "flag" => Alert(c) \in alerts

FlagInv == AtRest /\ EmittedBeforeFlag /\ FlagMeansAlerted

TripAlert(r) == [record_id |-> r, rule |-> "impossible_travel"]

\* The rule's verdict on r is out, or was held back by a cooldown.
TripReported(r) == TripAlert(r) \in alerts \/ r \in silenced

\* What a step may do to a last location: forget it, or move it, and if nobody
\* makes that trip, only to a call that was reported.
TripStep(u) ==
  \/ lastloc[u] = Nowhere
  \/ lastloc'[u] = Nowhere
  \/ Impossible(lastloc[u], lastloc'[u]) =>
       \E r \in CallsOf(u) : lastloc'[u] = Location(r) /\ TripReported(r)

\* checkImpossibleTravel emits BEFORE advancing the stored location: the location
\* moves over an impossible trip only to a call that has an alert of its own, or
\* one that a cooldown held back.  Nothing is said where nothing is compared: the
\* first call after the location expired, and a call whose check is skipped.
NoTripMissed == [][\A u \in Callers : TripStep(u)]_fraudVars

\* Its inductive invariant: a replica about to advance the location has no
\* unreported trip in hand.
AdvanceIsCovered ==
  \A c \in Consumers :
    pc[c] = "checks" /\ step[c] = "advance" =>
      \/ lastloc[Caller(c)] = Nowhere
      \/ Impossible(lastloc[Caller(c)], Location(Record(c)))
           => TripReported(Record(c))

\* A call to Redis or Kafka on the way of c's record fails.
CallFails(c) ==
  CheckError(c) \/ HandleError(c) \/ MarkSeenError(c) \/ DeadLetterError(c)

\* The behaviours in which those calls fail only for the records in Failing.
\* Commits may fail for any record, replicas crash, stop and rebalance, keys run
\* out, and subscriber-service may be unavailable, for good.
OutageNext ==
  \/ \E c \in Consumers :
       ReplicaStep(c) /\ (CallFails(c) => inhand[c] \in Failing)
  \/ OutsideStep
  \/ Expiry

OutageSpec == FraudInit /\ [][OutageNext]_fraudVars /\ FraudFairness

\* main.go, "gRPC enrichment degrades gracefully": once the replicas are left
\* alone, a record on whose way no call to Redis or Kafka fails is processed, even
\* if subscriber-service never answers and whatever became of the records around
\* it; it is not retried into the dead-letter topic.
DegradesGracefully ==
  <>[][~ Disruption]_fraudVars =>
    \A o \in Offsets \ Failing : <>(o \in processed)

\* window.go, "how many distinct calls fall within the last windowMs": a velocity
\* alert means VelocityThreshold calls inside one window.
\* The code does NOT guarantee it: see the README.
VelocityWithinWindow ==
  \A a \in alerts : a.rule = "velocity" =>
    LET u == Call[a.record_id].caller
    IN  \E last \in CallsOf(u) :
          Cardinality({r \in CallsOf(u) :
                         /\ Call[r].start > Call[last].start - VelocityWindow
                         /\ Call[r].start <= Call[last].start})
            >= VelocityThreshold

\* lastloc.go, "one consumer owns a subscriber and the get-then-set below is
\* race-free": when two records in a row are processed, calls of one subscriber, and
\* nobody makes the trip from the first to the second, it is reported; of behaviours
\* in which nothing fails or runs out.
\* The code does NOT guarantee it: see the README.
TripsReported ==
  \A o, next \in processed :
    LET q == RecordId[o]
        r == RecordId[next]
    IN  next = o + 1 /\ Call[q].caller = Call[r].caller
          /\ Impossible(Location(q), Location(r)) => TripReported(r)

\* maybeEmit, "at most once per (rule, subscriber) within the cooldown window":
\* of behaviours in which no cooldown runs out.
\* The code does NOT guarantee it: see the README.
OneAlertPerCooldown ==
  \A a, b \in alerts :
    /\ a.rule = b.rule
    /\ Call[a.record_id].caller = Call[b.record_id].caller
    => a = b

=============================================================================
