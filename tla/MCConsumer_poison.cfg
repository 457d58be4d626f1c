\* An unparseable record is skipped and committed.
CONSTANTS
  c1 = c1
  c2 = c2
  NoOne = NoOne
  NoRecord = NoRecord
  Consumers = {c1}
  LogEnd = 3
  MaxAttempts = 2
  RecordId <- MCRecordId
  Unparseable <- MCUnparseable
SPECIFICATION Spec
ACTION_CONSTRAINT NoShutdown
INVARIANT PoisonDeadLettered
CHECK_DEADLOCK FALSE
