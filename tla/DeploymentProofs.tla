-------------------------- MODULE DeploymentProofs --------------------------
(***************************************************************************)
(* Proofs about Topics, Reference and their composition, for any number of *)
(* tries, any catalogs and any TTL: a service past EnsureTopics has its    *)
(* topics, and the reference cache serves recent values and fails only     *)
(* when it must.                                                           *)
(***************************************************************************)
EXTENDS Deployment, TLAPS

-----------------------------------------------------------------------------
(***************************************************************************)
(* Topics.                                                                 *)
(***************************************************************************)
TopicsInv == TopicsTypeOK /\ MadeAsWanted /\ ReadyHasTopics

\* The three mains agree on the topics they share.
LEMMA WantedAgrees ==
  ASSUME NEW s \in Services
  PROVE  /\ DOMAIN Wanted(s) \subseteq TopicNames
         /\ \A t \in DOMAIN Wanted(s) : Wanted(s)[t] = FraudTopics[t]
         /\ \A t \in TopicNames : FraudTopics[t] \in Nat \ {0}
BY TopicsAssumption
DEF Wanted, GeneratorTopics, ReadApiTopics, FraudTopics, TopicNames

\* What the broker makes for one service suits all of them, and removes nothing.
LEMMA MakeSuits ==
  ASSUME TopicsTypeOK, MadeAsWanted,
         NEW s \in Services, NEW made \in SUBSET Missing(s), Make(s, made)
  PROVE  /\ partitions' \in [TopicNames -> Nat]
         /\ MadeAsWanted'
         /\ \A t \in TopicNames : partitions[t] # 0 => partitions'[t] = partitions[t]
         /\ \A t \in made : partitions'[t] = Wanted(s)[t]
<1>1. \A t \in made : /\ t \in TopicNames /\ partitions[t] = 0
                      /\ partitions'[t] = Wanted(s)[t]
                      /\ Wanted(s)[t] = FraudTopics[t]
  BY WantedAgrees DEF Missing, Make
<1>2. \A t \in TopicNames \ made : partitions'[t] = partitions[t]
  BY DEF Make
<1>3. DOMAIN partitions' = TopicNames
  BY DEF Make
<1>4. partitions' \in [TopicNames -> Nat]
  BY <1>1, WantedAgrees DEF Make, TopicsTypeOK
<1>5. MadeAsWanted'
  <2> SUFFICES ASSUME NEW r \in Services, NEW t \in DOMAIN Wanted(r)
               PROVE  partitions'[t] \in {0, Wanted(r)[t]}
    BY DEF MadeAsWanted, Wanted, GeneratorTopics, ReadApiTopics, FraudTopics
  <2>1. t \in TopicNames /\ Wanted(r)[t] = FraudTopics[t]
    BY WantedAgrees
  <2> QED
    BY <2>1, <1>1, <1>2 DEF MadeAsWanted
<1> QED
  BY <1>1, <1>2, <1>4, <1>5

\* Every step keeps TopicsInv.
LEMMA TopicsStep ==
  ASSUME TopicsInv, TopicsNext
  PROVE  TopicsInv'
<1> USE DEF TopicsInv
<1>1. ASSUME NEW s \in Services, TryAgain(s) \/ Exit(s)
      PROVE  /\ phase' \in [Services -> Phases]
             /\ tries' \in [Services -> 0 .. MaxTries - 1]
             /\ \A r \in Services : phase'[r] = "ready" => phase[r] = "ready"
  BY <1>1, TopicsAssumption DEF TryAgain, Exit, RoundsLeft, TopicsTypeOK, Phases
<1>2. ASSUME NEW s \in Services, NEW made \in SUBSET Missing(s), Make(s, made),
             \A r \in Services : phase'[r] = "ready" => phase[r] = "ready"
      PROVE  ReadyHasTopics'
  <2> SUFFICES ASSUME NEW r \in Services, phase[r] = "ready",
                      NEW t \in DOMAIN Wanted(r)
               PROVE  partitions'[t] = Wanted(r)[t]
    BY <1>2
    DEF ReadyHasTopics, Wanted, GeneratorTopics, ReadApiTopics, FraudTopics
  <2>1. t \in TopicNames /\ Wanted(r)[t] # 0 /\ partitions[t] = Wanted(r)[t]
    BY WantedAgrees DEF ReadyHasTopics
  <2> QED
    BY <2>1, <1>2, MakeSuits
<1>3. ASSUME NEW s \in Services, NEW made \in SUBSET Missing(s), Request(s, made)
      PROVE  TopicsInv'
  <2>1. Make(s, made) /\ broker' = broker
    BY <1>3 DEF Request
  <2>2. partitions' \in [TopicNames -> Nat] /\ MadeAsWanted'
    BY <2>1, MakeSuits
  <2>3. CASE ~ Created(s, made)
    BY <1>1, <1>2, <1>3, <2>1, <2>2, <2>3 DEF Request, TopicsTypeOK
  <2>4. CASE Created(s, made)
    <3>1. /\ phase' = [phase EXCEPT ![s] = "ready"]
          /\ tries' = tries
      BY <1>3, <2>4 DEF Request
    <3>2. TopicsTypeOK'
      BY <2>1, <2>2, <3>1 DEF TopicsTypeOK, Phases
    <3>3. ASSUME NEW t \in DOMAIN Wanted(s)
          PROVE  partitions'[t] = Wanted(s)[t]
      <4>1. CASE t \in made
        BY <4>1, <2>1, MakeSuits
      <4>2. CASE t \notin made
        <5>1. t \in TopicNames /\ partitions[t] # 0
          BY <2>4, <4>2, WantedAgrees DEF Created, Missing
        <5> QED
          BY <5>1, <2>1, MakeSuits DEF MadeAsWanted
      <4> QED
        BY <4>1, <4>2
    <3>4. ASSUME NEW r \in Services \ {s}, phase'[r] = "ready",
                 NEW t \in DOMAIN Wanted(r)
          PROVE  partitions'[t] = Wanted(r)[t]
      <4>1. t \in TopicNames /\ Wanted(r)[t] # 0 /\ partitions[t] = Wanted(r)[t]
        BY <3>1, <3>4, WantedAgrees DEF ReadyHasTopics, TopicsTypeOK
      <4> QED
        BY <4>1, <2>1, MakeSuits
    <3>5. ReadyHasTopics'
      BY <3>3, <3>4
      DEF ReadyHasTopics, Wanted, GeneratorTopics, ReadApiTopics, FraudTopics
    <3> QED
      BY <2>2, <3>2, <3>5
  <2> QED
    BY <2>3, <2>4
<1>4. ASSUME NEW s \in Services, CreateTopicsLost(s)
      PROVE  TopicsInv'
  <2>1. PICK made \in SUBSET Missing(s) : Make(s, made)
    BY <1>4 DEF CreateTopicsLost
  <2>2. partitions' \in [TopicNames -> Nat] /\ MadeAsWanted'
    BY <2>1, MakeSuits
  <2> QED
    BY <1>1, <1>2, <1>4, <2>1, <2>2 DEF CreateTopicsLost, TopicsTypeOK
<1>5. ASSUME NEW s \in Services, ServiceStop(s)
      PROVE  TopicsInv'
  BY <1>1, <1>5
  DEF ServiceStop, TopicsTypeOK, MadeAsWanted, ReadyHasTopics, Wanted,
      GeneratorTopics, ReadApiTopics, FraudTopics
<1>6. ASSUME NEW s \in Services, ServiceStart(s)
      PROVE  TopicsInv'
  BY <1>6
  DEF ServiceStart, TopicsTypeOK, Phases, MadeAsWanted, ReadyHasTopics, Wanted,
      GeneratorTopics, ReadApiTopics, FraudTopics
<1>7. CASE BrokerToggle
  BY <1>7
  DEF BrokerToggle, TopicsTypeOK, MadeAsWanted, ReadyHasTopics, Wanted,
      GeneratorTopics, ReadApiTopics, FraudTopics
<1> QED
  BY <1>3, <1>4, <1>5, <1>6, <1>7 DEF TopicsNext, EnsureStep, CreateTopics

LEMMA TopicsInvariance == TopicsSpec => []TopicsInv
<1>1. TopicsInit => TopicsInv
  <2> SUFFICES ASSUME TopicsInit PROVE TopicsInv
    OBVIOUS
  <2>1. TopicsTypeOK
    BY TopicsAssumption DEF TopicsInit, TopicsTypeOK, Phases
  <2>2. MadeAsWanted
    BY WantedAgrees DEF TopicsInit, MadeAsWanted
  <2> QED
    BY <2>1, <2>2 DEF TopicsInit, TopicsInv, ReadyHasTopics
<1>2. TopicsInv /\ [TopicsNext]_topicVars => TopicsInv'
  <2>1. TopicsInv /\ UNCHANGED topicVars => TopicsInv'
    BY DEF TopicsInv, TopicsTypeOK, MadeAsWanted, ReadyHasTopics, topicVars,
           Wanted, GeneratorTopics, ReadApiTopics, FraudTopics
  <2> QED
    BY <2>1, TopicsStep
<1> QED
  BY <1>1, <1>2, PTL DEF TopicsSpec

\* EnsureTopics keeps its promise for whatever services start together.
THEOREM TopicsSafety == TopicsSpec => []ReadyHasTopics
BY TopicsInvariance, PTL DEF TopicsInv

-----------------------------------------------------------------------------
(***************************************************************************)
(* Reference.                                                              *)
(***************************************************************************)
LEMMA ReferenceInitial ==
  ReferenceInit => ReferenceTypeOK /\ ReferenceInv
BY ReferenceAssumption
DEF ReferenceInit, ReferenceTypeOK, ReferenceInv, CacheIsLive, LookupIsLive,
    NotYetRetired, ServedIsRecent, FailsOnlyUncached, Times

\* A value read before the clock shows its time stays live at the time it had.
LEMMA LookupKeepsInv ==
  ASSUME ReferenceTypeOK, ReferenceInv, LookupStep
  PROVE  ReferenceTypeOK' /\ ReferenceInv'
<1> USE ReferenceAssumption
    DEF ReferenceTypeOK, ReferenceInv, CacheIsLive, LookupIsLive, NotYetRetired,
        ServedIsRecent, FailsOnlyUncached, Live, serverVars, Times, Lookup, Entry
<1>1. ASSUME NEW k \in Keys, Hit(k)
      PROVE  ReferenceTypeOK' /\ ReferenceInv'
  <2>1. cache[k] \in Entry /\ cache[k].val \in Versions /\ cache[k].at \in Times
    BY <1>1 DEF Hit, Fresh
  <2>2. /\ result' \in Lookup
        /\ result'.now = clock /\ result'.val = cache[k].val
        /\ result'.val # Nothing
    BY <1>1, <2>1 DEF Hit
  <2>3. ServedIsRecent' /\ FailsOnlyUncached'
    <3>1. cache[k] # Nothing /\ clock - cache[k].at < TTL /\ retired' = retired
      BY <1>1 DEF Hit, Fresh
    <3>2. Live(cache[k].val, cache[k].at)
      BY <3>1
    <3>3. TTL \in Nat /\ MaxTime \in Nat
      OBVIOUS
    <3>4. clock \in Times /\ retired[cache[k].val] \in Times \cup {Nothing}
      BY <2>1 DEF ReferenceTypeOK
    <3>5. cache[k].at \in Times
      BY <2>1
    <3>6. retired[cache[k].val] = Nothing \/ clock < retired[cache[k].val] + TTL
      <4> HIDE DEF ReferenceTypeOK, ReferenceInv
      <4> QED
        BY <3>1, <3>2, <3>3, <3>4, <3>5
    <3> QED
      BY <2>2, <3>1, <3>6
  <2> QED
    BY <1>1, <2>1, <2>2, <2>3 DEF Hit
<1>2. ASSUME NEW k \in Keys, Miss(k)
      PROVE  ReferenceTypeOK' /\ ReferenceInv'
  BY <1>2 DEF Miss, Fresh
<1>3. CASE Answer
  BY <1>3 DEF Answer, Calling
<1>4. CASE NotFound \/ CallFails
  BY <1>4 DEF NotFound, CallFails, Calling, ReturnError
<1>5. CASE Store
  <2>1. lookup \in Lookup /\ lookup.val \in Versions /\ lookup.key \in Keys
    BY <1>5 DEF Store
  <2>2. /\ cache' \in [Keys -> Entry \cup {Nothing}]
        /\ loaded' \in [Keys -> Times \cup {Nothing}]
    BY <1>5, <2>1 DEF Store, Stamp
  <2>3. CacheIsLive'
    <3> SUFFICES ASSUME NEW k \in Keys
                 PROVE  IF cache'[k] = Nothing
                          THEN loaded'[k] = Nothing
                          ELSE /\ loaded'[k] = cache'[k].at
                               /\ cache'[k].at <= clock'
                               /\ Live(cache[k].val, cache[k].at)'
      OBVIOUS
    <3>1. CASE k = lookup.key
      BY <1>5, <2>1, <3>1 DEF Store, Stamp
    <3>2. CASE k # lookup.key
      BY <1>5, <2>1, <3>2 DEF Store, Stamp
    <3> QED
      BY <3>1, <3>2
  <2> QED
    BY <1>5, <2>1, <2>2, <2>3 DEF Store
<1> QED
  BY <1>1, <1>2, <1>3, <1>4, <1>5 DEF LookupStep

LEMMA ReferenceStep ==
  ASSUME ReferenceTypeOK, ReferenceInv, [ReferenceNext]_referenceVars
  PROVE  ReferenceTypeOK' /\ ReferenceInv'
<1> USE ReferenceAssumption
    DEF ReferenceTypeOK, ReferenceInv, CacheIsLive, LookupIsLive, NotYetRetired,
        ServedIsRecent, FailsOnlyUncached, Live, serverVars, cacheVars, Times,
        Lookup, Entry
<1>1. CASE SubscriberStop
  BY <1>1 DEF SubscriberStop
<1>2. CASE SubscriberStart
  BY <1>2 DEF SubscriberStart
<1>3. CASE Tick
  BY <1>3 DEF Tick
<1>4. CASE CacheRestart
  BY <1>4 DEF CacheRestart
<1>5. CASE UNCHANGED referenceVars
  BY <1>5 DEF referenceVars
<1> QED
  BY <1>1, <1>2, <1>3, <1>4, <1>5, LookupKeepsInv
  DEF ReferenceNext, SubscriberStep

LEMMA ReferenceInvariance == ReferenceSpec => [](ReferenceTypeOK /\ ReferenceInv)
<1>1. ReferenceTypeOK /\ ReferenceInv /\ [ReferenceNext]_referenceVars
        => (ReferenceTypeOK /\ ReferenceInv)'
  BY ReferenceStep
<1> QED
  BY <1>1, ReferenceInitial, PTL DEF ReferenceSpec

\* The reference cache keeps its invariant whatever the service, the clock and the
\* process do in the middle of a lookup.
THEOREM ReferenceSafety == ReferenceSpec => []ReferenceInv
BY ReferenceInvariance, PTL

-----------------------------------------------------------------------------
(***************************************************************************)
(* The deployment runs both, and disturbs neither.                         *)
(***************************************************************************)
LEMMA DeploymentRunsBoth == DeploymentSpec => TopicsSpec /\ ReferenceSpec
<1>1. DeploymentInit => TopicsInit /\ ReferenceInit
  BY DEF DeploymentInit
<1>2. ASSUME [DeploymentNext]_deploymentVars
      PROVE  [TopicsNext]_topicVars /\ [ReferenceNext]_referenceVars
  <2>1. CASE StartUp
    BY <2>1 DEF StartUp, TopicsNext
  <2>2. CASE FraudStop
    BY <2>2, DeploymentAssumption DEF FraudStop, TopicsNext, ReferenceNext
  <2>3. CASE Lookups \/ Around
    BY <2>3 DEF Lookups, Around, ReferenceNext
  <2>4. CASE UNCHANGED deploymentVars
    BY <2>4 DEF deploymentVars
  <2> QED
    BY <1>2, <2>1, <2>2, <2>3, <2>4 DEF DeploymentNext
<1> QED
  BY <1>1, <1>2, PTL DEF DeploymentSpec, TopicsSpec, ReferenceSpec

\* A service past EnsureTopics has its topics, of the sizes all services expect.
THEOREM DeployedTopics == DeploymentSpec => []ReadyHasTopics
BY DeploymentRunsBoth, TopicsSafety, PTL

\* The replica's reference cache keeps its invariant.
THEOREM DeployedReference == DeploymentSpec => []ReferenceInv
BY DeploymentRunsBoth, ReferenceSafety, PTL

\* A lookup returns what was the service's answer within the TTL.
THEOREM DeployedServedIsRecent == DeploymentSpec => []ServedIsRecent
<1>1. ReferenceInv => ServedIsRecent
  BY DEF ReferenceInv
<1> QED
  BY <1>1, DeployedReference, PTL

\* A lookup fails only for a key not loaded within the TTL.
THEOREM DeployedFailsOnlyUncached == DeploymentSpec => []FailsOnlyUncached
<1>1. ReferenceInv => FailsOnlyUncached
  BY DEF ReferenceInv
<1> QED
  BY <1>1, DeployedReference, PTL

\* The state of the deployment has its types.
THEOREM DeploymentTypeCorrect == DeploymentSpec => []DeploymentTypeOK
<1>1. TopicsSpec => []TopicsTypeOK
  BY TopicsInvariance, PTL DEF TopicsInv
<1>2. ReferenceSpec => []ReferenceTypeOK
  BY ReferenceInvariance, PTL
<1>3. TopicsTypeOK /\ ReferenceTypeOK => DeploymentTypeOK
  BY DEF DeploymentTypeOK
<1> QED
  BY <1>1, <1>2, <1>3, DeploymentRunsBoth, PTL

=============================================================================
