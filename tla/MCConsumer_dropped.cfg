\* The committed offset passes a record whose dead-letter write failed.
CONSTANTS
  c1 = c1
  c2 = c2
  NoOne = NoOne
  NoRecord = NoRecord
  Consumers = {c1}
  LogEnd = 3
  MaxAttempts = 2
  RecordId <- MCRecordId
  Unparseable <- MCUnparseable
SPECIFICATION Spec
ACTION_CONSTRAINT NoShutdown
INVARIANT NoRecordDropped
CHECK_DEADLOCK FALSE
