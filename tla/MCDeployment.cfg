\* Two services, three topics; two keys, a TTL of two units of time.
CONSTANTS
  Services = {"generator", "fraud"}
  MaxTries = 2
  Keys = {"+90", "ist-1"}
  Versions = {0, 1}
  Catalog <- MCCatalog
  TTL = 2
  MaxTime = 4
  Nothing = Nothing
SPECIFICATION DeploymentSpec
INVARIANTS
  DeploymentTypeOK
  ReadyHasTopics
  ServedIsRecent
  FailsOnlyUncached
  ReferenceInv
PROPERTY EveryoneReady
