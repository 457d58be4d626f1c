------------------------------- MODULE Topics -------------------------------
(***************************************************************************)
(* Start-up: every service calls stream.EnsureTopics with the topics it    *)
(* uses before it does anything with Kafka (internal/stream/stream.go and  *)
(* the mains of generator, fraud and read-api).  The services start in any *)
(* order, at the same time, against a broker that may still be starting;   *)
(* the broker creates no topic by itself (KAFKA_AUTO_CREATE_TOPICS_ENABLE  *)
(* is "false"), decides on each topic of a request separately, and keeps   *)
(* what it created.                                                        *)
(***************************************************************************)
EXTENDS Naturals, FiniteSets

CONSTANTS
  Services,      \* the replicas that run, each of them "generator", "fraud", ...
  MaxTries       \* the bound of EnsureTopics' loop, 180

ASSUME TopicsAssumption ==
  /\ Services \subseteq {"generator", "fraud", "read-api"}
  /\ MaxTries \in Nat \ {0}

VARIABLES
  broker,        \* the broker answers
  partitions,    \* [TopicNames -> partitions of the topic, 0 while it is missing]
  phase,         \* [Services -> where the service's main stands]
  tries          \* [Services -> failed rounds of EnsureTopics' loop]

topicVars == <<broker, partitions, phase, tries>>

TopicNames == {"cdr.raw", "cdr.fraud.alert", "cdr.dlq"}
Phases == {"ensuring", "ready", "down"}

-----------------------------------------------------------------------------
(***************************************************************************)
(* The TopicSpecs each main passes.                                        *)
(***************************************************************************)
GeneratorTopics == [t \in {"cdr.raw", "cdr.fraud.alert"} |-> 3]

ReadApiTopics == [t \in {"cdr.fraud.alert"} |-> 3]

FraudTopics == [t \in TopicNames |-> IF t = "cdr.dlq" THEN 1 ELSE 3]

Wanted(s) ==
  IF s = "generator" THEN GeneratorTopics
  ELSE IF s = "fraud" THEN FraudTopics
  ELSE ReadApiTopics

Missing(s) == {t \in DOMAIN Wanted(s) : partitions[t] = 0}

TopicsTypeOK ==
  /\ broker \in BOOLEAN
  /\ partitions \in [TopicNames -> Nat]
  /\ phase \in [Services -> Phases]
  /\ tries \in [Services -> 0 .. MaxTries - 1]

TopicsInit ==
  /\ broker \in BOOLEAN
  /\ partitions = [t \in TopicNames |-> 0]
  /\ phase = [s \in Services |-> "ensuring"]
  /\ tries = [s \in Services |-> 0]

-----------------------------------------------------------------------------
(***************************************************************************)
(* EnsureTopics.                                                           *)
(***************************************************************************)

\* main returns, or the process dies; the loop starts over in the next one.
Exit(s) ==
  /\ phase' = [phase EXCEPT ![s] = "down"]
  /\ tries' = [tries EXCEPT ![s] = 0]

\* Deviation: one round more.
RoundsLeftByOne(s) == tries[s] < MaxTries

RoundsLeft(s) == tries[s] + 1 < MaxTries

\* createTopics failed: a second's wait and another round, or the error is
\* returned and main gives up.
TryAgain(s) ==
  IF RoundsLeft(s)
    THEN tries' = [tries EXCEPT ![s] = @ + 1] /\ UNCHANGED phase
    ELSE Exit(s)

\* Deviation: a topic that exists already makes the request fail.
CreatedStrictly(s, made) == made = DOMAIN Wanted(s)

\* Deviation: "already exists" for one topic hides the failure of another.
CreatedMasked(s, made) == made = Missing(s) \/ Missing(s) # DOMAIN Wanted(s)

\* What createTopics takes for success, of a request that made these topics: no
\* error but "already exists".
Created(s, made) == made = Missing(s)

\* The broker makes these of the topics a request asks for.
Make(s, made) ==
  partitions' =
    [t \in TopicNames |-> IF t \in made THEN Wanted(s)[t] ELSE partitions[t]]

\* One request for all of the service's topics, with the broker's answer.
Request(s, made) ==
  /\ phase[s] = "ensuring"
  /\ broker
  /\ Make(s, made)
  /\ IF Created(s, made)
       THEN phase' = [phase EXCEPT ![s] = "ready"] /\ UNCHANGED tries
       ELSE TryAgain(s)
  /\ UNCHANGED broker

CreateTopics(s) == \E made \in SUBSET Missing(s) : Request(s, made)

\* A dial fails, or the answer is lost after the broker made some topics.
CreateTopicsLost(s) ==
  /\ phase[s] = "ensuring"
  /\ \E made \in SUBSET Missing(s) :
       /\ broker \/ made = {}
       /\ Make(s, made)
  /\ TryAgain(s)
  /\ UNCHANGED broker

\* A crash, or ctx.Done() at any point of main.
ServiceStop(s) ==
  /\ phase[s] # "down"
  /\ Exit(s)
  /\ UNCHANGED <<broker, partitions>>

\* The deployment restarts the container ("restart: unless-stopped").
ServiceStart(s) ==
  /\ phase[s] = "down"
  /\ phase' = [phase EXCEPT ![s] = "ensuring"]
  /\ UNCHANGED <<broker, partitions, tries>>

BrokerToggle ==
  /\ broker' = ~ broker
  /\ UNCHANGED <<partitions, phase, tries>>

-----------------------------------------------------------------------------
EnsureStep(s) == CreateTopics(s) \/ CreateTopicsLost(s) \/ ServiceStart(s)

TopicsNext ==
  \/ \E s \in Services : EnsureStep(s) \/ ServiceStop(s)
  \/ BrokerToggle

TopicsSpec == TopicsInit /\ [][TopicsNext]_topicVars

\* A service that is starting gets on with it, and one that is down is restarted.
TopicsFairness == \A s \in Services : WF_topicVars(EnsureStep(s))

-----------------------------------------------------------------------------
(***************************************************************************)
(* Properties.                                                             *)
(***************************************************************************)

\* EnsureTopics, "idempotent and safe to call from every service": a service past
\* it finds every topic it uses, with the partitions it asked for, whichever
\* service created the topic, however many requests failed half-way.
ReadyHasTopics ==
  \A s \in Services : phase[s] = "ready" =>
    \A t \in DOMAIN Wanted(s) : partitions[t] = Wanted(s)[t]

\* Its inductive invariant: no topic is ever made differently from what any
\* service wants.
MadeAsWanted ==
  \A s \in Services : \A t \in DOMAIN Wanted(s) :
    partitions[t] \in {0, Wanted(s)[t]}

\* EnsureTopics, "retries patiently while the broker warms up", and the restart
\* when it gives up: once the broker is up for good and does not fail every request,
\* every service gets past EnsureTopics, and gets past it again after a crash,
\* whatever earlier requests left behind.
EveryoneReady ==
  /\ <>[]broker
  /\ \A s \in Services : SF_topicVars(Request(s, Missing(s)))
  => \A s \in Services : []<>(phase[s] = "ready")

=============================================================================
