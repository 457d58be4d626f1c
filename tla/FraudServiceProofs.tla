-------------------------- MODULE FraudServiceProofs --------------------------
(***************************************************************************)
(* Proofs about FraudService, for any log, thresholds and number of        *)
(* replicas: it implements CdrConsumer, so everything CdrConsumerProofs    *)
(* proves holds of it; a cooldown flag means an alert was published, and   *)
(* alerts of every rule name calls that deserve them; and one replica      *)
(* alone moves the stored location over no unreported impossible trip.     *)
(***************************************************************************)
EXTENDS FraudService, CdrConsumerProofs, FoldProofs

-----------------------------------------------------------------------------
(***************************************************************************)
(* FraudService implements CdrConsumer.                                    *)
(***************************************************************************)

\* Leaving a check, whichever way, stutters or ends the step "checks".
LEMMA RuleControl ==
  ASSUME NEW c \in Consumers,
         \/ NextRule(c) \/ AfterEmit(c) \/ SkipRule(c) \/ AbortChecks(c)
         \/ \E s \in Steps : GotoStep(c, s)
         \/ \E triggered \in BOOLEAN : Verdict(c, triggered)
  PROVE  ChecksStep(c) \/ UNCHANGED consumerVars
BY DEF NextRule, AfterEmit, SkipRule, AbortChecks, GotoStep, Verdict, Steps,
       ChecksStep

\* A step of the fraud service is a step of the consume loop, or none.
LEMMA ConsumerStep ==
  ASSUME FraudNext
  PROVE  Next \/ UNCHANGED consumerVars
<1>1. ASSUME NEW c \in Consumers, PlainLoopStep(c)
      PROVE  Next
  BY <1>1 DEF PlainLoopStep, Next
<1>2. ASSUME NEW c \in Consumers, CheckStep(c)
      PROVE  Next \/ UNCHANGED consumerVars
  <2>1. ChecksStep(c) \/ UNCHANGED consumerVars
    <3>1. CASE CheckVelocity(c)
      BY <3>1, RuleControl DEF CheckVelocity, VelocityTriggered
    <3>2. CASE EnrichmentUnavailable(c)
      BY <3>2, RuleControl DEF EnrichmentUnavailable
    <3>3. CASE CheckImpossibleTravel(c)
      BY <3>3, RuleControl DEF CheckImpossibleTravel
    <3>4. CASE SetLastLocation(c) \/ NotPremium(c)
      BY <3>4, RuleControl DEF SetLastLocation, NotPremium
    <3>5. CASE CheckIRSF(c)
      BY <3>5, RuleControl DEF CheckIRSF, SpendTriggered
    <3>6. CASE Suppressed(c) \/ NotSuppressed(c) \/ Emit(c) \/ SetFlag(c)
      BY <3>6, RuleControl DEF Suppressed, NotSuppressed, Emit, SetFlag, Steps
    <3> QED
      BY <1>2, <3>1, <3>2, <3>3, <3>4, <3>5, <3>6 DEF CheckStep
  <2> QED
    BY <2>1 DEF Next
<1>3. ASSUME NEW c \in Consumers, CheckError(c)
      PROVE  Next \/ UNCHANGED consumerVars
  <2>1. AbortChecks(c)
    BY <1>3
    DEF CheckError, CheckVelocityError, CheckImpossibleTravelError,
        SetLastLocationError, CheckIRSFError, MaybeEmitError, EmitFailed
  <2> QED
    BY <2>1, RuleControl DEF Next
<1>4. CASE OutsideStep
  BY <1>4 DEF OutsideStep, Next
<1>5. CASE Expiry
  BY <1>5
  DEF Expiry, VelocityExpire, SpendExpire, LastLocExpire, CooldownExpire
<1> QED
  BY <1>1, <1>2, <1>3, <1>4, <1>5 DEF FraudNext, ReplicaStep

\* processor.handle, run by runWithRetry, is one of the handlers CdrConsumer allows.
THEOREM ImplementsConsumer == FraudSpec => Spec
<1>1. FraudInit => ConsumerInit
  BY DEF FraudInit
<1>2. [FraudNext]_fraudVars => [Next]_consumerVars
  BY ConsumerStep DEF fraudVars
<1> QED
  BY <1>1, <1>2, PTL DEF FraudSpec, Spec

\* The rules keep what the loop guarantees: a committed offset covers only settled
\* records.
THEOREM FraudCommitSafety == FraudSpec => []CommitCoversSettled
BY ImplementsConsumer, CommitSafety, PTL

\* With its rules, the service still delivers a partition at least once.
THEOREM FraudRefinement == FraudSpec => ImplementsDelivery
BY ImplementsConsumer, Refinement, PTL

-----------------------------------------------------------------------------
(***************************************************************************)
(* Types of the rules' state.  What CdrConsumer's invariant says of the    *)
(* loop holds before and after every step, by ImplementsConsumer.          *)
(***************************************************************************)

\* Adding a call to a window adds that entry at most.
LEMMA SlideAdds ==
  ASSUME NEW z, NEW member, NEW at, NEW window
  PROVE  Slide(z, member, at, window)
           \subseteq z \cup {[member |-> member, score |-> at]}
BY DEF Slide, ZAdd, ZRemRangeByScore

\* A replica in the checks has a record in hand, of one of the callers.
LEMMA RecordInHand ==
  ASSUME TypeOK, LoopInv, NEW c \in Consumers, At(c, "checks")
  PROVE  /\ inhand[c] \in Offsets
         /\ Record(c) \in RecordIds
         /\ Caller(c) \in Callers
         /\ Record(c) \in CallsOf(Caller(c))
<1>1. inhand[c] \in Offsets
  BY DEF TypeOK, LoopInv, HandFull, At, Idle, GroupTypeOK
<1>2. Record(c) \in RecordIds
  BY <1>1, ConstantFacts DEF Record
<1> QED
  BY <1>1, <1>2 DEF Caller, CallInHand, Callers, CallsOf

\* Leaving a check moves this replica only, and to a known call of a known check;
\* only a failed or completed handle lets it out of the checks.
LEMMA RuleMove ==
  ASSUME TypeOK, RulesTypeOK, NEW c \in Consumers, At(c, "checks"),
         \/ NextRule(c) \/ AfterEmit(c) \/ SkipRule(c) \/ AbortChecks(c)
         \/ \E s \in Steps \ {"flag"} : GotoStep(c, s)
         \/ \E triggered \in BOOLEAN : Verdict(c, triggered)
  PROVE  /\ rule' \in [Consumers -> Rules]
         /\ step' \in [Consumers -> Steps]
         /\ step'[c] # "flag"
         /\ pc'[c] # "checks" => rule'[c] = "velocity" /\ step'[c] = "evaluate"
         /\ \A d \in Consumers \ {c} :
              /\ pc'[d] = pc[d] /\ inhand'[d] = inhand[d]
              /\ rule'[d] = rule[d] /\ step'[d] = step[d]
<1> USE DEF TypeOK, RulesTypeOK, Rules, Steps, At, GroupTypeOK
<1>1. CASE AbortChecks(c)
  BY <1>1
  DEF AbortChecks, ChecksError, Rewind, Fail, GiveUp, Release, Goto, LetGo
<1>2. ASSUME NEW s \in Steps \ {"flag"}, GotoStep(c, s)
      PROVE  /\ rule' = rule
             /\ step' = [step EXCEPT ![c] = s]
             /\ pc' = pc /\ inhand' = inhand
  BY <1>2 DEF GotoStep, consumerVars, loopVars
<1>3. CASE NextRule(c)
  <2>1. CASE rule[c] = "irsf"
    BY <1>3, <2>1 DEF NextRule, ChecksDone, Rewind, Goto
  <2>2. CASE rule[c] # "irsf"
    BY <1>3, <2>2 DEF NextRule, consumerVars, loopVars
  <2> QED
    BY <2>1, <2>2
<1>4. CASE \E s \in Steps \ {"flag"} : GotoStep(c, s)
  BY <1>2, <1>4
<1> QED
  BY <1>1, <1>3, <1>4 DEF AfterEmit, SkipRule, Verdict

\* Every step of the fraud service keeps the types of the rules' state.
LEMMA RulesTypeStep ==
  ASSUME TypeOK, LoopInv, RulesTypeOK, FraudNext
  PROVE  RulesTypeOK'
<1>1. ASSUME NEW c \in Consumers, PlainLoopStep(c)
      PROVE  RulesTypeOK'
  BY <1>1 DEF PlainLoopStep, RulesTypeOK, checkVars, redisVars
<1>2. ASSUME NEW c \in Consumers, CheckStep(c) \/ CheckError(c)
      PROVE  RulesTypeOK'
  <2> USE <1>2 DEF CheckStep, CheckError
  <2>0. At(c, "checks")
    BY DEF CheckVelocity, CheckVelocityError, EnrichmentUnavailable,
           CheckImpossibleTravel, CheckImpossibleTravelError, SetLastLocation,
           SetLastLocationError, NotPremium, CheckIRSF, CheckIRSFError,
           Suppressed, NotSuppressed, Emit, SetFlag, MaybeEmitError, Checking
  <2>1. /\ Caller(c) \in Callers
        /\ Record(c) \in CallsOf(Caller(c))
        /\ Record(c) \in RecordIds
    BY <2>0, RecordInHand
  <2>2. rule' \in [Consumers -> Rules] /\ step' \in [Consumers -> Steps]
    <3>1. CASE Emit(c)
      BY <3>1 DEF Emit, GotoStep, RulesTypeOK, Steps
    <3>2. CASE ~ Emit(c)
      BY <2>0, <3>2, RuleMove
      DEF CheckVelocity, CheckVelocityError, EnrichmentUnavailable,
          CheckImpossibleTravel, CheckImpossibleTravelError, SetLastLocation,
          SetLastLocationError, NotPremium, CheckIRSF, CheckIRSFError,
          Suppressed, NotSuppressed, SetFlag, MaybeEmitError, EmitFailed,
          VelocityTriggered, SpendTriggered, Steps
    <3> QED
      BY <3>1, <3>2
  <2>3. \/ UNCHANGED velocity
        \/ velocity' = [velocity EXCEPT ![Caller(c)] = Slide(@, Record(c),
                          Call[Record(c)].start, VelocityWindow)]
    BY DEF CheckVelocity, CheckVelocityError, SlideVelocity, CallInHand,
           EnrichmentUnavailable, CheckImpossibleTravel,
           CheckImpossibleTravelError, SetLastLocation, SetLastLocationError,
           NotPremium, CheckIRSF, CheckIRSFError, Suppressed, NotSuppressed,
           Emit, SetFlag, MaybeEmitError, redisVars
  <2>4. \/ UNCHANGED spend
        \/ /\ Call[Record(c)].premium
           /\ spend' = [spend EXCEPT ![Caller(c)] = Slide(@, SpendMember(Record(c)),
                          Call[Record(c)].start, SpendWindow)]
    BY DEF CheckVelocity, CheckVelocityError, SlideSpend, CallInHand,
           EnrichmentUnavailable, CheckImpossibleTravel,
           CheckImpossibleTravelError, SetLastLocation, SetLastLocationError,
           NotPremium, CheckIRSF, CheckIRSFError, Suppressed, NotSuppressed,
           Emit, SetFlag, MaybeEmitError, redisVars
  <2>5. \/ UNCHANGED lastloc
        \/ lastloc' = [lastloc EXCEPT ![Caller(c)] = Location(Record(c))]
    BY DEF CheckVelocity, CheckVelocityError, Advance,
           EnrichmentUnavailable, CheckImpossibleTravel,
           CheckImpossibleTravelError, SetLastLocation, SetLastLocationError,
           NotPremium, CheckIRSF, CheckIRSFError, Suppressed, NotSuppressed,
           Emit, SetFlag, MaybeEmitError, redisVars
  <2>6. /\ alerted' \subseteq alerted \cup {AlertKey(c)}
        /\ alerts' \subseteq alerts \cup {Alert(c)}
        /\ silenced' \subseteq silenced \cup {Record(c)}
    BY DEF CheckVelocity, CheckVelocityError,
           EnrichmentUnavailable, CheckImpossibleTravel,
           CheckImpossibleTravelError, SetLastLocation, SetLastLocationError,
           NotPremium, CheckIRSF, CheckIRSFError, Suppressed, NotSuppressed,
           Emit, SetFlag, MaybeEmitError, redisVars
  <2>7. /\ DOMAIN velocity' = Callers
        /\ \A u \in Callers : velocity'[u] \subseteq
             {[member |-> r, score |-> Call[r].start] : r \in CallsOf(u)}
    BY <2>1, <2>3, SlideAdds DEF RulesTypeOK
  <2>8. /\ DOMAIN spend' = Callers
        /\ \A u \in Callers : spend'[u] \subseteq
             {[member |-> SpendMember(r), score |-> Call[r].start] :
                r \in PremiumCallsOf(u)}
    BY <2>1, <2>4, SlideAdds DEF RulesTypeOK, PremiumCallsOf
  <2>9. /\ DOMAIN lastloc' = Callers
        /\ \A u \in Callers :
             lastloc'[u] \in {Location(r) : r \in CallsOf(u)} \cup {Nowhere}
    BY <2>1, <2>5 DEF RulesTypeOK
  <2>10. /\ alerted' \subseteq Rules \X Callers
         /\ alerts' \subseteq [record_id : RecordIds, rule : Rules]
         /\ silenced' \subseteq RecordIds
    BY <2>1, <2>6 DEF RulesTypeOK, AlertKey, Alert
  <2> QED
    BY <2>2, <2>7, <2>8, <2>9, <2>10 DEF RulesTypeOK
<1>3. CASE OutsideStep
  <2>1. rule' \in [Consumers -> Rules] /\ step' \in [Consumers -> Steps]
    BY <1>3 DEF OutsideStep, RulesTypeOK, Rules, Steps
  <2> QED
    BY <1>3, <2>1 DEF OutsideStep, RulesTypeOK, redisVars
<1>4. CASE Expiry
  BY <1>4
  DEF Expiry, VelocityExpire, SpendExpire, LastLocExpire, CooldownExpire,
      RulesTypeOK, checkVars
<1> QED
  BY <1>1, <1>2, <1>3, <1>4 DEF FraudNext, ReplicaStep

\* The state of the fraud service has its types: windows hold the caller's own
\* calls under their own event times, and a location is that of one of its calls.
THEOREM FraudTypeCorrect == FraudSpec => [](TypeOK /\ RulesTypeOK)
<1>1. FraudInit => RulesTypeOK
  BY DEF FraudInit, RulesTypeOK, Rules, Steps
<1>2. TypeOK /\ LoopInv /\ RulesTypeOK /\ [FraudNext]_fraudVars => RulesTypeOK'
  <2>1. RulesTypeOK /\ UNCHANGED fraudVars => RulesTypeOK'
    BY DEF RulesTypeOK, fraudVars, checkVars, redisVars
  <2> QED
    BY <2>1, RulesTypeStep
<1>3. FraudSpec => [](TypeOK /\ LoopInv)
  BY ImplementsConsumer, LoopInvariance, PTL
<1>4. FraudSpec => []RulesTypeOK
  BY <1>1, <1>2, <1>3, PTL DEF FraudSpec
<1> QED
  BY <1>3, <1>4, PTL

-----------------------------------------------------------------------------
(***************************************************************************)
(* A cooldown flag means an alert was published.                           *)
(***************************************************************************)

\* Alerts only accumulate, so what was published, or held back, stays so.
LEMMA AlertsGrow ==
  ASSUME FraudNext
  PROVE  alerts \subseteq alerts' /\ silenced \subseteq silenced'
BY DEF FraudNext, ReplicaStep, PlainLoopStep, CheckStep, CheckError,
       CheckVelocity, CheckVelocityError, EnrichmentUnavailable,
       CheckImpossibleTravel, CheckImpossibleTravelError, SetLastLocation,
       SetLastLocationError, NotPremium, CheckIRSF, CheckIRSFError, Suppressed,
       NotSuppressed, Emit, SetFlag, MaybeEmitError, OutsideStep, Expiry,
       VelocityExpire, SpendExpire, LastLocExpire, CooldownExpire

\* The loop's own steps never touch a replica that is in the checks, except by
\* failing or finishing handle, and bring none to a half-done check.
LEMMA LoopMove ==
  ASSUME TypeOK, AtRest, NEW c \in Consumers, PlainLoopStep(c)
  PROVE  /\ AtRest'
         /\ \A d \in Consumers : pc'[d] = "checks" /\ step[d] # "evaluate" =>
              pc[d] = "checks" /\ inhand'[d] = inhand[d]
<1> USE
    DEF TypeOK, AtRest, PlainLoopStep, LoopStep, checkVars, At, Goto, Fail,
        GiveUp, Release, GroupTypeOK, LetGo
<1>1. ASSUME NEW d \in Consumers
      PROVE  \/ pc'[d] = pc[d] /\ inhand'[d] = inhand[d]
             \/ pc[d] # "checks"
  BY
  DEF Fetch, HandleUnparseable, HandleSeen, HandleNew, HandleError, MarkSeen,
      MarkSeenError, Retry, BackoffCancelled, DeadLetter, DeadLetterError,
      Commit, Stop, HandOut, CommitMessages
<1> QED
  BY <1>1

\* What happens outside the loop leaves a replica that stays in the checks alone.
LEMMA OutsideMove ==
  ASSUME TypeOK, OutsideStep, NEW d \in Consumers, pc'[d] = "checks"
  PROVE  /\ pc[d] = "checks" /\ inhand'[d] = inhand[d]
         /\ rule'[d] = rule[d] /\ step'[d] = step[d]
<1>1. pc[d] = "checks" /\ inhand'[d] = inhand[d]
  BY DEF OutsideStep, GroupStep, Cancel, Crash, Restart, Assign, DropBuffer,
         SeenExpire, Goto, loopVars, TypeOK, LetGo, TakeOver, DropReader,
         GroupTypeOK
<1> QED
  BY <1>1 DEF OutsideStep

\* Every step keeps FlagInv.
LEMMA FlagStep ==
  ASSUME TypeOK, LoopInv, RulesTypeOK, FlagInv, FraudNext
  PROVE  FlagInv'
<1> USE DEF FlagInv
<1>0. alerts \subseteq alerts'
  BY AlertsGrow
<1>1. ASSUME UNCHANGED alerted \/ alerted' \subseteq alerted
      PROVE  FlagMeansAlerted'
  BY <1>0, <1>1 DEF FlagMeansAlerted
<1>2. ASSUME NEW c \in Consumers, PlainLoopStep(c)
      PROVE  FlagInv'
  <2>1. AtRest' /\ EmittedBeforeFlag'
    BY <1>0, <1>2, LoopMove
    DEF EmittedBeforeFlag, PlainLoopStep, checkVars, Alert, Record
  <2> QED
    BY <1>1, <1>2, <2>1 DEF PlainLoopStep, redisVars
<1>3. ASSUME NEW c \in Consumers, CheckStep(c) \/ CheckError(c), ~ Emit(c)
      PROVE  AtRest' /\ EmittedBeforeFlag'
  <2> USE <1>3 DEF CheckStep, CheckError
  <2>0. At(c, "checks")
    BY DEF CheckVelocity, CheckVelocityError, EnrichmentUnavailable,
           CheckImpossibleTravel, CheckImpossibleTravelError, SetLastLocation,
           SetLastLocationError, NotPremium, CheckIRSF, CheckIRSFError,
           Suppressed, NotSuppressed, SetFlag, MaybeEmitError, Checking
  <2>1. /\ step'[c] # "flag"
        /\ pc'[c] # "checks" => rule'[c] = "velocity" /\ step'[c] = "evaluate"
        /\ \A d \in Consumers \ {c} :
             /\ pc'[d] = pc[d] /\ inhand'[d] = inhand[d]
             /\ rule'[d] = rule[d] /\ step'[d] = step[d]
    BY <2>0, RuleMove
    DEF CheckVelocity, CheckVelocityError, EnrichmentUnavailable,
        CheckImpossibleTravel, CheckImpossibleTravelError, SetLastLocation,
        SetLastLocationError, NotPremium, CheckIRSF, CheckIRSFError,
        Suppressed, NotSuppressed, SetFlag, MaybeEmitError, EmitFailed,
        VelocityTriggered, SpendTriggered, Steps
  <2> QED
    BY <1>0, <2>1 DEF AtRest, EmittedBeforeFlag, Alert, Record
<1>4. ASSUME NEW c \in Consumers, CheckStep(c) \/ CheckError(c)
      PROVE  FlagInv'
  <2>1. CASE Emit(c)
    <3>1. AtRest' /\ EmittedBeforeFlag'
      BY <1>0, <2>1
      DEF Emit, GotoStep, At, consumerVars, loopVars, AtRest,
          EmittedBeforeFlag, Alert, Record, RulesTypeOK
    <3> QED
      BY <1>1, <2>1, <3>1 DEF Emit, redisVars
  <2>2. CASE ~ Emit(c)
    <3>1. CASE UNCHANGED alerted
      BY <1>1, <1>3, <1>4, <2>2, <3>1
    <3>2. CASE alerted' = alerted \cup {AlertKey(c)} /\ At(c, "checks")
                 /\ step[c] = "flag"
      <4>1. Alert(c) \in alerts'
        BY <1>0, <3>2 DEF EmittedBeforeFlag, At
      <4>2. /\ AlertKey(c)[1] = Alert(c).rule
            /\ AlertKey(c)[2] = Call[Alert(c).record_id].caller
        BY DEF AlertKey, Alert, Caller, CallInHand
      <4>3. FlagMeansAlerted'
        BY <1>0, <3>2, <4>1, <4>2 DEF FlagMeansAlerted
      <4> QED
        BY <1>3, <1>4, <2>2, <4>3
    <3> QED
      BY <1>4, <2>2, <3>1, <3>2
      DEF CheckStep, CheckError, CheckVelocity, CheckVelocityError,
          EnrichmentUnavailable, CheckImpossibleTravel,
          CheckImpossibleTravelError, SetLastLocation, SetLastLocationError,
          NotPremium, CheckIRSF, CheckIRSFError, Suppressed, NotSuppressed,
          SetFlag, MaybeEmitError, redisVars
  <2> QED
    BY <2>1, <2>2
<1>5. CASE OutsideStep
  <2>1. AtRest'
    BY <1>5 DEF OutsideStep, AtRest
  <2>2. EmittedBeforeFlag'
    BY <1>0, <1>5, OutsideMove DEF EmittedBeforeFlag, Alert, Record
  <2> QED
    BY <1>1, <1>5, <2>1, <2>2 DEF OutsideStep, redisVars
<1>6. CASE Expiry
  <2>1. /\ UNCHANGED <<consumerVars, checkVars>>
        /\ alerted' \subseteq alerted
    BY <1>6
    DEF Expiry, VelocityExpire, SpendExpire, LastLocExpire, CooldownExpire
  <2> QED
    BY <1>0, <1>1, <2>1
    DEF consumerVars, loopVars, checkVars, AtRest, EmittedBeforeFlag, Alert,
        Record
<1> QED
  BY <1>2, <1>4, <1>5, <1>6 DEF FraudNext, ReplicaStep

\* FlagInv is an invariant of the service.
LEMMA FlagInvariance == FraudSpec => []FlagInv
<1>1. FraudInit => FlagInv
  BY
  DEF FraudInit, ConsumerInit, FlagInv, AtRest, EmittedBeforeFlag,
      FlagMeansAlerted, GroupInit
<1>2. TypeOK /\ LoopInv /\ RulesTypeOK /\ FlagInv /\ [FraudNext]_fraudVars
        => FlagInv'
  <2>1. FlagInv /\ UNCHANGED fraudVars => FlagInv'
    BY DEF FlagInv, AtRest, EmittedBeforeFlag, FlagMeansAlerted, Alert, Record,
           fraudVars, consumerVars, loopVars, checkVars, redisVars
  <2> QED
    BY <2>1, FlagStep
<1>3. FraudSpec => [](TypeOK /\ LoopInv)
  BY ImplementsConsumer, LoopInvariance, PTL
<1>4. FraudSpec => []RulesTypeOK
  BY FraudTypeCorrect, PTL
<1> QED
  BY <1>1, <1>2, <1>3, <1>4, PTL DEF FraudSpec

\* maybeEmit sets the cooldown flag only after the alert is out, on every path:
\* no subscriber is silenced without an alert, whatever fails, crashes or moves.
THEOREM FlagSafety == FraudSpec => []FlagMeansAlerted
<1>1. FlagInv => FlagMeansAlerted
  BY DEF FlagInv
<1> QED
  BY <1>1, FlagInvariance, PTL

-----------------------------------------------------------------------------
(***************************************************************************)
(* Alerts are backed by the log.                                           *)
(***************************************************************************)

\* The log is finite.
LEMMA RecordsAreFinite == IsFiniteSet(RecordIds)
<1> DEFINE id == [o \in Offsets |-> RecordId[o]]
<1>1. IsFiniteSet(Offsets)
  BY FS_Interval, PartitionAssumption DEF Offsets
<1>2. id \in Surjection(Offsets, RecordIds)
  BY DEF Surjection, RecordIds
<1> QED
  BY <1>1, <1>2, FS_Surjection

\* A sorted set that slid to r's event time holds no more calls than the log has
\* within a window before r, or after it.
LEMMA WindowCount ==
  ASSUME RulesTypeOK, NEW r \in RecordIds
  PROVE  LET u == Call[r].caller
             z == Slide(velocity[u], r, Call[r].start, VelocityWindow)
             q == {x \in CallsOf(u) : Call[x].start > Call[r].start - VelocityWindow}
         IN  /\ Cardinality(z) \in Nat
             /\ Cardinality(q) \in Nat
             /\ Cardinality(z) <= Cardinality(q)
<1> DEFINE u == Call[r].caller
           z == Slide(velocity[u], r, Call[r].start, VelocityWindow)
           q == {x \in CallsOf(u) : Call[x].start > Call[r].start - VelocityWindow}
           member == [e \in z |-> e.member]
<1>4. IsFiniteSet(q)
  BY RecordsAreFinite, FS_Subset DEF CallsOf
<1>5. u \in Callers /\ r \in CallsOf(u)
  BY DEF Callers, CallsOf
<1>6. ASSUME NEW e \in z
      PROVE  e.member \in q /\ e.score = Call[e.member].start
             /\ e = [member |-> e.member, score |-> e.score]
  <2>1. e \in {[member |-> x, score |-> Call[x].start] : x \in CallsOf(u)}
    BY <1>5, <1>6, SlideAdds DEF RulesTypeOK
  <2>2. PICK x \in CallsOf(u) : e = [member |-> x, score |-> Call[x].start]
    BY <2>1
  <2>3. e.score < 0 \/ e.score > Call[r].start - VelocityWindow
    BY <1>6 DEF Slide, ZRemRangeByScore
  <2>4. Call[x].start \in Nat
    BY CallAssumption DEF CallsOf
  <2> QED
    BY <2>2, <2>3, <2>4
<1>7. member \in Injection(z, q)
  BY <1>6 DEF Injection, IsInjective
<1> HIDE DEF z, q, member
<1>8. IsFiniteSet(z) /\ Cardinality(z) <= Cardinality(q)
  BY <1>4, <1>7, FS_Injection
<1>9. Cardinality(z) \in Nat /\ Cardinality(q) \in Nat
  BY <1>4, <1>8, FS_CardinalityType
<1> QED
  BY <1>8, <1>9 DEF z, q

\* Likewise of its cost: every entry is a premium call of its own.
LEMMA WindowSpend ==
  ASSUME RulesTypeOK, NEW r \in RecordIds,
         SpendTriggered(SpendIn(Slide(spend[Call[r].caller], SpendMember(r),
                                      Call[r].start, SpendWindow))),
         Call[r].premium
  PROVE  SpendBacked(r)
<1> DEFINE u == Call[r].caller
           z == Slide(spend[u], SpendMember(r), Call[r].start, SpendWindow)
           q == {x \in PremiumCallsOf(u) : Call[x].start > Call[r].start - SpendWindow}
           cost == [e \in z |-> e.member.cost]
           fee == [x \in q |-> Call[x].cost]
           id == [e \in z |-> e.member.id]
<1>1. IsFiniteSet(q)
  BY RecordsAreFinite, FS_Subset DEF CallsOf, PremiumCallsOf
<1>2. u \in Callers /\ r \in PremiumCallsOf(u)
  BY DEF Callers, CallsOf, PremiumCallsOf
<1>3. ASSUME NEW e \in z
      PROVE  \E x \in q : e = [member |-> SpendMember(x), score |-> Call[x].start]
  <2>1. e \in {[member |-> SpendMember(x), score |-> Call[x].start] :
                 x \in PremiumCallsOf(u)}
    BY <1>2, <1>3, SlideAdds DEF RulesTypeOK
  <2>2. PICK x \in PremiumCallsOf(u) :
          e = [member |-> SpendMember(x), score |-> Call[x].start]
    BY <2>1
  <2>3. e.score < 0 \/ e.score > Call[r].start - SpendWindow
    BY <1>3 DEF Slide, ZRemRangeByScore
  <2>4. Call[x].start \in Nat
    BY CallAssumption DEF CallsOf, PremiumCallsOf
  <2> QED
    BY <2>2, <2>3, <2>4
<1>4. \A e \in z : /\ id[e] \in q
                   /\ e = [member |-> SpendMember(id[e]), score |-> Call[id[e]].start]
                   /\ cost[e] = Call[id[e]].cost
  BY <1>3 DEF SpendMember
<1>5. \A x \in q : fee[x] = Call[x].cost /\ fee[x] \in Nat
  BY CallAssumption DEF CallsOf, PremiumCallsOf
<1>6. DOMAIN cost = z /\ DOMAIN fee = q /\ id \in [z -> q]
  BY <1>4
<1> HIDE DEF z, q, cost, fee, id
<1>7. /\ \A e \in z : cost[e] \in Nat /\ cost[e] <= fee[id[e]]
      /\ \A e, g \in z : id[e] = id[g] => e = g
  BY <1>4, <1>5, <1>6
<1>8. IsFiniteSet(z) /\ SumFunctionOnSet(cost, z) <= SumFunctionOnSet(fee, q)
  BY <1>1, <1>5, <1>6, <1>7, SumInjection
<1>9. SumFunctionOnSet(cost, z) \in Int /\ SumFunctionOnSet(fee, q) \in Int
  BY <1>1, <1>5, <1>7, <1>8, SumFacts
<1>10. SumFunction(cost) >= SpendThreshold
  BY DEF SpendTriggered, SpendIn, cost, z
<1>11. SumFunction(fee) >= SpendThreshold
  BY <1>6, <1>8, <1>9, <1>10, RulesAssumption DEF SumFunction
<1> QED
  BY <1>11 DEF SpendBacked, fee, q

\* The greatest of the two times there can be between two calls, and a second.
LEMMA TimeBetween ==
  ASSUME NEW x \in Nat, NEW y \in Nat
  PROVE  Max({Elapsed(y, x), 1}) = Max({x - y, y - x, 1})
<1> DEFINE m == IF x - y > y - x
                  THEN (IF x - y > 1 THEN x - y ELSE 1)
                  ELSE (IF y - x > 1 THEN y - x ELSE 1)
<1>1. Max({Elapsed(y, x), 1}) = m
  BY DEF Max, Elapsed
<1>2. Max({x - y, y - x, 1}) = m
  BY DEF Max
<1> QED
  BY <1>1, <1>2

\* A trip the rule finds too fast is one between two different calls.
LEMMA TripIsBacked ==
  ASSUME RulesTypeOK, NEW r \in RecordIds,
         lastloc[Call[r].caller] # Nowhere,
         TooFast(lastloc[Call[r].caller], Location(r))
  PROVE  TravelBacked(r)
<1> DEFINE u == Call[r].caller
<1>1. PICK q \in CallsOf(u) : lastloc[u] = Location(q)
  BY DEF RulesTypeOK, Callers
<1>2. q \in RecordIds /\ Call[q].start \in Nat /\ Call[r].start \in Nat
  BY CallAssumption DEF CallsOf
<1>3. /\ Distance[<<Call[q].cell, Call[r].cell>>] > 0
      /\ Distance[<<Call[q].cell, Call[r].cell>>]
           > MaxSpeed * Max({Elapsed(Call[r].start, Call[q].start), 1})
  BY <1>1 DEF TooFast, TravelTriggered, Location
<1>4. q # r
  BY <1>3, CallAssumption
<1>5. Impossible(Location(q), Location(r))
  BY <1>2, <1>3, TimeBetween DEF Impossible, Location
<1> QED
  BY <1>1, <1>4, <1>5 DEF TravelBacked

\* Leaving a check, or failing in it, leaves nothing triggered.
LEMMA RuleLeft ==
  ASSUME RulesTypeOK, NEW c \in Consumers,
         \/ NextRule(c) \/ AfterEmit(c) \/ SkipRule(c) \/ AbortChecks(c)
         \/ Verdict(c, FALSE)
  PROVE  step'[c] \in {"evaluate", "advance"}
BY DEF NextRule, AfterEmit, SkipRule, AbortChecks, Verdict, GotoStep, Rewind,
       RulesTypeOK

\* Every step keeps BackedInv.
LEMMA BackedStep ==
  ASSUME TypeOK, LoopInv, RulesTypeOK, AtRest, BackedInv, FraudNext
  PROVE  BackedInv'
<1> USE DEF BackedInv
<1> DEFINE Triggered == {"exists", "emit", "flag"}
           Backed(ru, r) == /\ ru = "velocity" => VelocityBacked(r)
                            /\ ru = "impossible_travel" => TravelBacked(r)
                            /\ ru = "irsf" => SpendBacked(r)
           Genuine == VelocityGenuine /\ TravelGenuine /\ SpendGenuine
<1>1. ASSUME NEW d \in Consumers, pc[d] = "checks", step[d] \in Triggered
      PROVE  Backed(rule[d], Record(d))
  BY <1>1 DEF TriggeredIsBacked
<1>2. ASSUME alerts' \subseteq alerts
      PROVE  Genuine'
  BY <1>2 DEF VelocityGenuine, TravelGenuine, SpendGenuine
<1>3. ASSUME \A d \in Consumers : pc'[d] = "checks" /\ step'[d] \in Triggered =>
               /\ pc[d] = "checks" /\ inhand'[d] = inhand[d]
               /\ rule'[d] = rule[d] /\ step'[d] = step[d]
      PROVE  TriggeredIsBacked'
  BY <1>1, <1>3 DEF TriggeredIsBacked, Record
<1>4. ASSUME NEW c \in Consumers, PlainLoopStep(c)
      PROVE  BackedInv'
  <2>1. TriggeredIsBacked'
    BY <1>3, <1>4, LoopMove DEF PlainLoopStep, checkVars
  <2> QED
    BY <1>2, <1>4, <2>1 DEF PlainLoopStep
<1>5. ASSUME NEW c \in Consumers, CheckStep(c) \/ CheckError(c)
      PROVE  BackedInv'
  <2>0. At(c, "checks")
    BY <1>5
    DEF CheckStep, CheckError, CheckVelocity, CheckVelocityError,
        EnrichmentUnavailable, CheckImpossibleTravel,
        CheckImpossibleTravelError, SetLastLocation, SetLastLocationError,
        NotPremium, CheckIRSF, CheckIRSFError, Suppressed, NotSuppressed, Emit,
        SetFlag, MaybeEmitError, Checking
  <2>1. Record(c) \in RecordIds
    BY <2>0, RecordInHand
  <2>2. \A d \in Consumers \ {c} :
          /\ pc'[d] = pc[d] /\ inhand'[d] = inhand[d]
          /\ rule'[d] = rule[d] /\ step'[d] = step[d]
    <3>1. CASE Emit(c)
      BY <3>1 DEF Emit, GotoStep, consumerVars, loopVars, RulesTypeOK
    <3>2. CASE ~ Emit(c)
      BY <1>5, <2>0, <3>2, RuleMove
      DEF CheckStep, CheckError, CheckVelocity, CheckVelocityError,
          EnrichmentUnavailable, CheckImpossibleTravel,
          CheckImpossibleTravelError, SetLastLocation, SetLastLocationError,
          NotPremium, CheckIRSF, CheckIRSFError, Suppressed, NotSuppressed,
          SetFlag, MaybeEmitError, EmitFailed, VelocityTriggered,
          SpendTriggered, Steps
    <3> QED
      BY <3>1, <3>2
  <2>3. ASSUME step'[c] \in Triggered =>
                 inhand'[c] = inhand[c] /\ Backed(rule'[c], Record(c))
        PROVE  TriggeredIsBacked'
    BY <1>1, <2>2, <2>3 DEF TriggeredIsBacked, Record
  <2>4. ASSUME NEW s \in Steps, GotoStep(c, s)
        PROVE  step'[c] = s /\ inhand' = inhand /\ rule' = rule
    BY <2>4 DEF GotoStep, consumerVars, loopVars, RulesTypeOK
  <2>5. ASSUME alerts' \subseteq alerts \cup {Alert(c)},
               Alert(c) \in alerts' => Backed(rule[c], Record(c)) \/ Alert(c) \in alerts
        PROVE  Genuine'
    BY <2>5 DEF VelocityGenuine, TravelGenuine, SpendGenuine, Alert
  <2>6. CASE CheckVelocity(c)
    <3>1. Genuine'
      BY <1>2, <2>6 DEF CheckVelocity
    <3>2. CASE VelocityTriggered(Cardinality(velocity'[Caller(c)]))
      <4>1. Caller(c) \in Callers
        BY <2>1 DEF Caller, CallInHand, Callers
      <4>2. velocity'[Caller(c)] = Slide(velocity[Caller(c)], Record(c),
                                         Call[Record(c)].start, VelocityWindow)
        BY <2>6, <4>1
        DEF CheckVelocity, SlideVelocity, CallInHand, RulesTypeOK
      <4>3. VelocityBacked(Record(c))
        BY <2>1, <3>2, <4>2, WindowCount, RulesAssumption
        DEF VelocityTriggered, VelocityBacked, Caller, CallInHand
      <4>4. GotoStep(c, "exists") /\ rule[c] = "velocity"
        BY <2>6, <3>2 DEF CheckVelocity, Verdict, Checking
      <4>5. TriggeredIsBacked'
        BY <2>3, <2>4, <4>3, <4>4 DEF Steps
      <4> QED
        BY <3>1, <4>5
    <3>3. CASE ~ VelocityTriggered(Cardinality(velocity'[Caller(c)]))
      <4>1. step'[c] \in {"evaluate", "advance"}
        BY <2>6, <3>3, RuleLeft DEF CheckVelocity, Verdict
      <4> QED
        BY <2>3, <3>1, <4>1
    <3> QED
      BY <3>2, <3>3
  <2>7. CASE CheckImpossibleTravel(c)
    <3> DEFINE trip == /\ lastloc[Caller(c)] # Nowhere
                       /\ TooFast(lastloc[Caller(c)], Location(Record(c)))
    <3>1. Genuine'
      BY <1>2, <2>7 DEF CheckImpossibleTravel
    <3>2. CASE trip
      <4>1. TravelBacked(Record(c))
        BY <2>1, <3>2, TripIsBacked DEF Caller, CallInHand
      <4>2. GotoStep(c, "exists") /\ rule[c] = "impossible_travel"
        BY <2>7, <3>2 DEF CheckImpossibleTravel, Verdict, Checking
      <4>3. TriggeredIsBacked'
        BY <2>3, <2>4, <4>1, <4>2 DEF Steps
      <4> QED
        BY <3>1, <4>3
    <3>3. CASE ~ trip
      <4>1. step'[c] \in {"evaluate", "advance"}
        BY <2>7, <3>3, RuleLeft DEF CheckImpossibleTravel, Verdict
      <4> QED
        BY <2>3, <3>1, <4>1
    <3> QED
      BY <3>2, <3>3
  <2>8. CASE CheckIRSF(c)
    <3>1. Genuine'
      BY <1>2, <2>8 DEF CheckIRSF
    <3>2. CASE SpendTriggered(SpendIn(spend'[Caller(c)]))
      <4>1. Caller(c) \in Callers
        BY <2>1 DEF Caller, CallInHand, Callers
      <4>2. spend'[Caller(c)] = Slide(spend[Caller(c)], SpendMember(Record(c)),
                                      Call[Record(c)].start, SpendWindow)
        BY <2>8, <4>1 DEF CheckIRSF, SlideSpend, CallInHand, RulesTypeOK
      <4>3. SpendBacked(Record(c))
        BY <2>1, <2>8, <3>2, <4>2, WindowSpend DEF CheckIRSF, Caller, CallInHand
      <4>4. GotoStep(c, "exists") /\ rule[c] = "irsf"
        BY <2>8, <3>2 DEF CheckIRSF, Verdict, Checking
      <4>5. TriggeredIsBacked'
        BY <2>3, <2>4, <4>3, <4>4 DEF Steps
      <4> QED
        BY <3>1, <4>5
    <3>3. CASE ~ SpendTriggered(SpendIn(spend'[Caller(c)]))
      <4>1. step'[c] \in {"evaluate", "advance"}
        BY <2>8, <3>3, RuleLeft DEF CheckIRSF, Verdict
      <4> QED
        BY <2>3, <3>1, <4>1
    <3> QED
      BY <3>2, <3>3
  <2>9. CASE NotSuppressed(c) \/ Emit(c)
    <3>1. Backed(rule[c], Record(c))
      BY <1>1, <2>9 DEF NotSuppressed, Emit, At
    <3>2. alerts' \subseteq alerts \cup {Alert(c)}
      BY <2>9 DEF NotSuppressed, Emit
    <3>3. GotoStep(c, "emit") \/ GotoStep(c, "flag")
      BY <2>9 DEF NotSuppressed, Emit
    <3>4. TriggeredIsBacked'
      BY <2>3, <2>4, <3>1, <3>3 DEF Steps
    <3> QED
      BY <2>5, <3>1, <3>2, <3>4
  <2>10. CASE MaybeEmitError(c)
    <3>1. \/ alerts' = alerts
          \/ alerts' \subseteq alerts \cup {Alert(c)} /\ step[c] = "emit"
      BY <2>10 DEF MaybeEmitError
    <3>2. Genuine'
      BY <1>1, <1>2, <2>0, <2>5, <3>1 DEF At
    <3>3. step'[c] \in {"evaluate", "advance"}
      BY <2>10, RuleLeft DEF MaybeEmitError, EmitFailed
    <3> QED
      BY <2>3, <3>2, <3>3
  <2>11. CASE \/ CheckVelocityError(c) \/ EnrichmentUnavailable(c)
              \/ CheckImpossibleTravelError(c) \/ SetLastLocation(c)
              \/ SetLastLocationError(c) \/ NotPremium(c) \/ CheckIRSFError(c)
              \/ Suppressed(c) \/ SetFlag(c)
    <3>1. /\ alerts' = alerts
          /\ NextRule(c) \/ AfterEmit(c) \/ SkipRule(c) \/ AbortChecks(c)
      BY <2>11
      DEF CheckVelocityError, EnrichmentUnavailable, CheckImpossibleTravelError,
          SetLastLocation, SetLastLocationError, NotPremium, CheckIRSFError,
          Suppressed, SetFlag
    <3>2. step'[c] \in {"evaluate", "advance"}
      BY <3>1, RuleLeft
    <3> QED
      BY <1>2, <2>3, <3>1, <3>2
  <2> QED
    BY <1>5, <2>6, <2>7, <2>8, <2>9, <2>10, <2>11 DEF CheckStep, CheckError
<1>6. CASE OutsideStep
  <2>1. TriggeredIsBacked'
    BY <1>3, <1>6, OutsideMove
  <2> QED
    BY <1>2, <1>6, <2>1 DEF OutsideStep
<1>7. CASE Expiry
  <2>1. UNCHANGED <<consumerVars, checkVars, alerts>>
    BY <1>7
    DEF Expiry, VelocityExpire, SpendExpire, LastLocExpire, CooldownExpire
  <2>2. TriggeredIsBacked'
    BY <1>3, <2>1 DEF consumerVars, loopVars, checkVars
  <2> QED
    BY <1>2, <2>1, <2>2
<1> QED
  BY <1>4, <1>5, <1>6, <1>7 DEF FraudNext, ReplicaStep

\* The windows are idempotent and the last location is a call's: whatever fails, is
\* retried, redelivered or moves to another replica, an alert of any rule
\* names a call whose log deserves it.
THEOREM BackedSafety ==
  FraudSpec => [](VelocityGenuine /\ TravelGenuine /\ SpendGenuine)
<1>1. FraudInit => BackedInv
  BY
  DEF FraudInit, ConsumerInit, BackedInv, TriggeredIsBacked, VelocityGenuine,
      TravelGenuine, SpendGenuine, GroupInit
<1>2. TypeOK /\ LoopInv /\ RulesTypeOK /\ AtRest /\ BackedInv
        /\ [FraudNext]_fraudVars => BackedInv'
  <2>1. BackedInv /\ UNCHANGED fraudVars => BackedInv'
    BY DEF BackedInv, TriggeredIsBacked, VelocityGenuine, TravelGenuine,
           SpendGenuine, Record, fraudVars, consumerVars, loopVars, checkVars
  <2> QED
    BY <2>1, BackedStep
<1>3. FraudSpec => [](TypeOK /\ LoopInv)
  BY ImplementsConsumer, LoopInvariance, PTL
<1>4. FraudSpec => []RulesTypeOK
  BY FraudTypeCorrect, PTL
<1>5. FlagInv => AtRest
  BY DEF FlagInv
<1>6. FraudSpec => []AtRest
  BY <1>5, FlagInvariance, PTL
<1>7. BackedInv => VelocityGenuine /\ TravelGenuine /\ SpendGenuine
  BY DEF BackedInv
<1> QED
  BY <1>1, <1>2, <1>3, <1>4, <1>6, <1>7, PTL DEF FraudSpec

\* slidingWindowCount cannot be made to count a call twice.
THEOREM VelocitySafety == FraudSpec => []VelocityGenuine
BY BackedSafety, PTL

\* A redelivered call is never a trip from itself, and the time of a trip is
\* counted whichever call is handled first.
THEOREM TravelSafety == FraudSpec => []TravelGenuine
BY BackedSafety, PTL

\* premiumSpendInWindow cannot be made to count a call's cost twice, nor that of a
\* call to another destination, or of one a window older than the call at hand.
THEOREM SpendSafety == FraudSpec => []SpendGenuine
BY BackedSafety, PTL

-----------------------------------------------------------------------------
(***************************************************************************)
(* One replica passes over no impossible trip.                             *)
(***************************************************************************)

\* A trip the rule lets pass is a possible one.
LEMMA PossibleTrip ==
  ASSUME NEW q \in RecordIds, NEW r \in RecordIds, MaxSpeed > 0,
         ~ TooFast(Location(q), Location(r))
  PROVE  ~ Impossible(Location(q), Location(r))
<1> DEFINE m == Max({Call[q].start - Call[r].start, Call[r].start - Call[q].start, 1})
<1>1. Call[q].start \in Nat /\ Call[r].start \in Nat
  BY CallAssumption
<1>2. m = Max({Elapsed(Call[r].start, Call[q].start), 1})
  BY <1>1, TimeBetween
<1>3. m \in Nat
  BY <1>1 DEF Max
<1> HIDE DEF m
<1>4. MaxSpeed * m \in Nat
  BY <1>3, RulesAssumption
<1>5. Distance[<<Call[q].cell, Call[r].cell>>] \in Nat
  BY CallAssumption
<1>6. Distance[<<Call[q].cell, Call[r].cell>>] <= MaxSpeed * m
  BY <1>2, <1>4, <1>5 DEF TooFast, TravelTriggered, Location
<1> QED
  BY <1>4, <1>5, <1>6 DEF Impossible, Location, m

\* Nobody travels from a call to itself.
LEMMA NoTripToItself ==
  ASSUME NEW r \in RecordIds
  PROVE  ~ Impossible(Location(r), Location(r))
<1> DEFINE m == Max({Call[r].start - Call[r].start, Call[r].start - Call[r].start, 1})
<1>1. Call[r].start \in Nat
  BY CallAssumption
<1>2. m \in Nat
  BY <1>1 DEF Max
<1> HIDE DEF m
<1>3. MaxSpeed * m \in Nat
  BY <1>2, RulesAssumption
<1> QED
  BY <1>3, CallAssumption DEF Impossible, Location, m

\* The last location of a caller is that of a call of the log, if there is one.
LEMMA LastLocation ==
  ASSUME RulesTypeOK, NEW u \in Callers, lastloc[u] # Nowhere
  PROVE  \E q \in RecordIds : lastloc[u] = Location(q)
BY DEF RulesTypeOK, CallsOf

\* A step that only forgets locations passes over no trip.
LEMMA Forgetting ==
  ASSUME RulesTypeOK, NEW u \in Callers,
         lastloc'[u] \in {lastloc[u], Nowhere}
  PROVE  TripStep(u)
BY LastLocation, NoTripToItself DEF TripStep

\* Every step of the only replica keeps AdvanceIsCovered and passes over no trip.
LEMMA AdvanceStep ==
  ASSUME NEW only, Consumers = {only}, MaxSpeed > 0,
         TypeOK, LoopInv, RulesTypeOK, FlagInv, AdvanceIsCovered, FraudNext
  PROVE  AdvanceIsCovered' /\ \A u \in Callers : TripStep(u)
<1>0. alerts \subseteq alerts' /\ silenced \subseteq silenced'
  BY AlertsGrow
<1>1. ASSUME NEW r, TripReported(r)
      PROVE  TripReported(r)'
  BY <1>0, <1>1 DEF TripReported, TripAlert
<1>2. ASSUME \A d \in Consumers : pc'[d] = "checks" /\ step'[d] = "advance" =>
               /\ pc[d] = "checks" /\ inhand'[d] = inhand[d]
               /\ step'[d] = step[d],
             \A u \in Callers : lastloc'[u] \in {lastloc[u], Nowhere}
      PROVE  AdvanceIsCovered' /\ \A u \in Callers : TripStep(u)
  <2>1. \A u \in Callers : TripStep(u)
    BY <1>2, Forgetting
  <2>2. ASSUME NEW d \in Consumers, pc'[d] = "checks", step'[d] = "advance"
        PROVE  /\ Caller(d)' = Caller(d) /\ Record(d)' = Record(d)
               /\ Caller(d) \in Callers
               /\ pc[d] = "checks" /\ step[d] = "advance"
    BY <1>2, <2>2, RecordInHand DEF Caller, CallInHand, Record, At
  <2>3. AdvanceIsCovered'
    BY <1>1, <1>2, <2>2 DEF AdvanceIsCovered
  <2> QED
    BY <2>1, <2>3
<1>3. ASSUME NEW c \in Consumers, PlainLoopStep(c)
      PROVE  AdvanceIsCovered' /\ \A u \in Callers : TripStep(u)
  BY <1>2, <1>3, LoopMove DEF FlagInv, PlainLoopStep, checkVars, redisVars
<1>4. ASSUME NEW c \in Consumers, CheckStep(c) \/ CheckError(c)
      PROVE  AdvanceIsCovered' /\ \A u \in Callers : TripStep(u)
  <2>0. At(c, "checks")
    BY <1>4
    DEF CheckStep, CheckError, CheckVelocity, CheckVelocityError,
        EnrichmentUnavailable, CheckImpossibleTravel,
        CheckImpossibleTravelError, SetLastLocation, SetLastLocationError,
        NotPremium, CheckIRSF, CheckIRSFError, Suppressed, NotSuppressed, Emit,
        SetFlag, MaybeEmitError, Checking
  <2>1. /\ Record(c) \in RecordIds /\ Caller(c) \in Callers
        /\ Caller(c) = Call[Record(c)].caller
    BY <2>0, RecordInHand DEF Caller, CallInHand
  <2>2. Consumers = {c}
    OBVIOUS
  <2>3. ASSUME UNCHANGED lastloc, step'[c] # "advance"
        PROVE  AdvanceIsCovered' /\ \A u \in Callers : TripStep(u)
    BY <1>2, <2>2, <2>3
  <2>4. ASSUME AfterEmit(c), UNCHANGED lastloc,
               rule[c] = "impossible_travel" =>
                 \/ lastloc[Caller(c)] = Nowhere
                 \/ Impossible(lastloc[Caller(c)], Location(Record(c)))
                      => TripReported(Record(c))'
        PROVE  AdvanceIsCovered' /\ \A u \in Callers : TripStep(u)
    <3>1. CASE rule[c] = "impossible_travel"
      <4>1. inhand' = inhand
        BY <2>4, <3>1 DEF AfterEmit, GotoStep, consumerVars, loopVars
      <4>2. Caller(c)' = Caller(c) /\ Record(c)' = Record(c)
        BY <4>1 DEF Caller, CallInHand, Record
      <4>3. AdvanceIsCovered'
        BY <2>2, <2>4, <3>1, <4>2 DEF AdvanceIsCovered, TripReported
      <4>4. \A u \in Callers : TripStep(u)
        BY <2>4, Forgetting
      <4> QED
        BY <4>3, <4>4
    <3>2. CASE rule[c] # "impossible_travel"
      <4>1. step'[c] # "advance"
        BY <2>4, <3>2 DEF AfterEmit, NextRule, Rewind, RulesTypeOK
      <4> QED
        BY <2>3, <2>4, <4>1
    <3> QED
      BY <3>1, <3>2
  <2>5. ASSUME NextRule(c) \/ SkipRule(c) \/ AbortChecks(c)
        PROVE  step'[c] # "advance"
    BY <2>5 DEF NextRule, SkipRule, AbortChecks, Rewind, RulesTypeOK
  <2>6. ASSUME NEW s \in Steps \ {"advance"}, GotoStep(c, s)
        PROVE  step'[c] # "advance"
    BY <2>6 DEF GotoStep, RulesTypeOK
  <2>7. CASE CheckVelocity(c) \/ CheckIRSF(c)
    <3>1. UNCHANGED lastloc /\ rule[c] # "impossible_travel"
      BY <2>7 DEF CheckVelocity, CheckIRSF, Checking
    <3>2. AfterEmit(c) \/ GotoStep(c, "exists")
      BY <2>7 DEF CheckVelocity, CheckIRSF, Verdict
    <3> QED
      BY <2>3, <2>4, <2>6, <3>1, <3>2 DEF Steps
  <2>8. CASE CheckImpossibleTravel(c)
    <3>1. UNCHANGED lastloc
      BY <2>8 DEF CheckImpossibleTravel, redisVars
    <3>2. CASE GotoStep(c, "exists")
      BY <2>3, <2>6, <3>1, <3>2 DEF Steps
    <3>3. CASE ~ GotoStep(c, "exists")
      <4>1. /\ AfterEmit(c)
            /\ \/ lastloc[Caller(c)] = Nowhere
               \/ ~ TooFast(lastloc[Caller(c)], Location(Record(c)))
        BY <2>8, <3>3 DEF CheckImpossibleTravel, Verdict
      <4>2. \/ lastloc[Caller(c)] = Nowhere
            \/ ~ Impossible(lastloc[Caller(c)], Location(Record(c)))
        BY <2>1, <4>1, LastLocation, PossibleTrip
      <4> QED
        BY <2>4, <3>1, <4>1, <4>2
    <3> QED
      BY <3>2, <3>3
  <2>9. CASE Suppressed(c) \/ SetFlag(c)
    <3>1. UNCHANGED lastloc /\ AfterEmit(c)
      BY <2>9 DEF Suppressed, SetFlag, redisVars
    <3>2. ASSUME rule[c] = "impossible_travel"
          PROVE  TripReported(Record(c))'
      <4>0. Record(c)' = Record(c)
        BY <3>1, <3>2 DEF AfterEmit, GotoStep, consumerVars, loopVars, Record
      <4>1. CASE Suppressed(c)
        BY <3>2, <4>0, <4>1 DEF Suppressed, TripReported
      <4>2. CASE SetFlag(c)
        BY <3>2, <4>0, <4>2
        DEF SetFlag, At, FlagInv, EmittedBeforeFlag, Alert, TripReported, TripAlert
      <4> QED
        BY <2>9, <4>1, <4>2
    <3> QED
      BY <2>4, <3>1, <3>2
  <2>10. CASE NotSuppressed(c) \/ Emit(c)
    <3>1. /\ UNCHANGED lastloc
          /\ GotoStep(c, "emit") \/ GotoStep(c, "flag")
      BY <2>10 DEF NotSuppressed, Emit, redisVars
    <3> QED
      BY <2>3, <2>6, <3>1 DEF Steps
  <2>11. CASE \/ CheckVelocityError(c) \/ EnrichmentUnavailable(c)
              \/ CheckImpossibleTravelError(c) \/ NotPremium(c)
              \/ CheckIRSFError(c) \/ MaybeEmitError(c)
    <3>1. /\ UNCHANGED lastloc
          /\ NextRule(c) \/ SkipRule(c) \/ AbortChecks(c)
      BY <2>11
      DEF CheckVelocityError, EnrichmentUnavailable, CheckImpossibleTravelError,
          NotPremium, CheckIRSFError, MaybeEmitError, EmitFailed, redisVars
    <3> QED
      BY <2>3, <2>5, <3>1
  <2>12. CASE SetLastLocation(c) \/ SetLastLocationError(c)
    <3>1. step[c] = "advance" /\ pc[c] = "checks"
      BY <2>12 DEF SetLastLocation, SetLastLocationError, Checking, At
    <3>2. step'[c] # "advance"
      BY <2>5, <2>12 DEF SetLastLocation, SetLastLocationError
    <3>3. AdvanceIsCovered'
      BY <2>2, <3>2 DEF AdvanceIsCovered
    <3>4. \/ UNCHANGED lastloc
          \/ lastloc' = [lastloc EXCEPT ![Caller(c)] = Location(Record(c))]
      BY <2>12 DEF SetLastLocation, SetLastLocationError, Advance
    <3>5. ASSUME NEW u \in Callers
          PROVE  TripStep(u)
      <4>1. CASE lastloc'[u] = lastloc[u]
        BY <4>1, Forgetting
      <4>2. CASE u = Caller(c) /\ lastloc'[u] = Location(Record(c))
        BY <2>1, <3>1, <4>2 DEF AdvanceIsCovered, TripStep, CallsOf
      <4> QED
        BY <2>1, <3>4, <4>1, <4>2 DEF RulesTypeOK
    <3> QED
      BY <3>3, <3>5
  <2> QED
    BY <1>4, <2>7, <2>8, <2>9, <2>10, <2>11, <2>12 DEF CheckStep, CheckError
<1>5. CASE OutsideStep
  BY <1>2, <1>5, OutsideMove DEF OutsideStep, redisVars
<1>6. CASE Expiry
  BY <1>2, <1>6
  DEF Expiry, VelocityExpire, SpendExpire, LastLocExpire, CooldownExpire,
      consumerVars, loopVars, checkVars, RulesTypeOK
<1> QED
  BY <1>3, <1>4, <1>5, <1>6 DEF FraudNext, ReplicaStep

\* checkImpossibleTravel emits before it advances the location: as long as one
\* replica works on a partition (two may race, see the run lastloc_race), and
\* whatever fails, crashes, is redelivered or runs out, the STORED location moves
\* over an impossible trip only to a call with an alert of its own, or one held
\* back by a live cooldown.  Which location is stored is another matter: none after
\* its TTL, and that of an older call after a redelivery.
THEOREM TripSafety ==
  ASSUME NEW CONSTANT only, Consumers = {only}, MaxSpeed > 0
  PROVE  FraudSpec => NoTripMissed
<1>1. FraudInit => AdvanceIsCovered
  BY DEF FraudInit, ConsumerInit, AdvanceIsCovered, GroupInit
<1>2. TypeOK /\ LoopInv /\ RulesTypeOK /\ FlagInv /\ AdvanceIsCovered
        /\ [FraudNext]_fraudVars => AdvanceIsCovered'
  <2>1. AdvanceIsCovered /\ UNCHANGED fraudVars => AdvanceIsCovered'
    BY DEF AdvanceIsCovered, Caller, CallInHand, Record, TripReported, fraudVars,
           consumerVars, loopVars, checkVars, redisVars
  <2> QED
    BY <2>1, AdvanceStep
<1>3. TypeOK /\ LoopInv /\ RulesTypeOK /\ FlagInv /\ AdvanceIsCovered
        /\ [FraudNext]_fraudVars => [\A u \in Callers : TripStep(u)]_fraudVars
  BY AdvanceStep
<1>4. FraudSpec => [](TypeOK /\ LoopInv)
  BY ImplementsConsumer, LoopInvariance, PTL
<1>5. FraudSpec => []RulesTypeOK
  BY FraudTypeCorrect, PTL
<1>6. FraudSpec => [][\A u \in Callers : TripStep(u)]_fraudVars
  BY <1>1, <1>2, <1>3, <1>4, <1>5, FlagInvariance, PTL DEF FraudSpec
<1> QED
  BY <1>6 DEF NoTripMissed

=============================================================================
