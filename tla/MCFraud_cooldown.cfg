\* The SET of a cooldown flag fails until the record is dead-lettered.
CONSTANTS
  c1 = c1
  c2 = c2
  NoOne = NoOne
  NoRecord = NoRecord
  Nowhere = Nowhere
  Consumers = {c1}
  LogEnd = 3
  MaxAttempts = 2
  RecordId <- MCRecordId
  Unparseable = {}
  Failing = {}
  Call <- SpendCalls
  VelocityWindow = 0
  VelocityThreshold = 0
  MaxSpeed = 2
  Distance <- MCDistance
  SpendWindow = 3
  SpendThreshold = 1
SPECIFICATION FraudSpec
VIEW WithoutHistory
ACTION_CONSTRAINTS
  NoShutdown
  InsideCooldown
INVARIANT OneAlertPerCooldown
CHECK_DEADLOCK FALSE
