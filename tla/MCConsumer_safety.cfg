\* Two replicas, one partition of three records.
CONSTANTS
  c1 = c1
  c2 = c2
  NoOne = NoOne
  NoRecord = NoRecord
  Consumers = {c1, c2}
  LogEnd = 3
  MaxAttempts = 1
  RecordId <- MCRecordId
  Unparseable <- MCUnparseable
SYMMETRY Symmetry
SPECIFICATION Spec
INVARIANTS
  TypeOK
  CommitCoversSettled
  SeenIsApplied
  ProcessedIsApplied
  LoopInv
PROPERTY ImplementsDelivery
\* At the end of the log both replicas wait in FetchMessage.
CHECK_DEADLOCK FALSE
