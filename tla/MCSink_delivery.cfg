\* Two replicas, one partition of four records; GET /alerts lists the newest.
CONSTANTS
  c1 = c1
  c2 = c2
  NoOne = NoOne
  NoRecord = NoRecord
  Consumers = {c1, c2}
  LogEnd = 4
  AlertId <- MCAlertId
  DetectedAt <- MCDetectedAt
  Unparseable <- MCUnparseable
  Limit = 1
SPECIFICATION SinkFairSpec
INVARIANTS
  SinkTypeOK
  SinkInv
  StoredBeforeCommit
PROPERTIES
  SinkImplementsDelivery
  ListedStays
  AllStored
\* At the end of the log both replicas wait in FetchMessage.
CHECK_DEADLOCK FALSE
