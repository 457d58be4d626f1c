----------------------------- MODULE Deployment -----------------------------
(***************************************************************************)
(* The services as they are deployed: they start together and ensure their *)
(* topics (Topics); a fraud replica past that looks reference data up in a *)
(* cache that dies with it (Reference, services/fraud/main.go).  It does   *)
(* not wait for subscriber-service, which comes and goes as it likes.      *)
(***************************************************************************)
EXTENDS Topics, Reference

ASSUME DeploymentAssumption == "fraud" \in Services

deploymentVars == <<topicVars, referenceVars>>

DeploymentInit == TopicsInit /\ ReferenceInit

\* main goes on from EnsureTopics to the caches and the consume loop.
Lookups ==
  /\ phase["fraud"] = "ready"
  /\ LookupStep
  /\ UNCHANGED topicVars

FraudStop == ServiceStop("fraud") /\ CacheRestart

StartUp ==
  /\ \/ \E s \in Services : EnsureStep(s)
     \/ \E s \in Services \ {"fraud"} : ServiceStop(s)
     \/ BrokerToggle
  /\ UNCHANGED referenceVars

Around ==
  /\ SubscriberStep \/ Tick
  /\ UNCHANGED topicVars

DeploymentNext == StartUp \/ FraudStop \/ Lookups \/ Around

DeploymentSpec ==
  DeploymentInit /\ [][DeploymentNext]_deploymentVars /\ TopicsFairness

DeploymentTypeOK == TopicsTypeOK /\ ReferenceTypeOK

=============================================================================
