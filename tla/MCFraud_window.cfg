\* A record redelivered after later ones is counted together with them.
CONSTANTS
  c1 = c1
  c2 = c2
  NoOne = NoOne
  NoRecord = NoRecord
  Nowhere = Nowhere
  Consumers = {c1}
  LogEnd = 3
  MaxAttempts = 2
  RecordId <- MCRecordId
  Unparseable = {}
  Failing = {}
  Call <- PairCalls
  VelocityWindow = 2
  VelocityThreshold = 3
  MaxSpeed = 2
  Distance <- MCDistance
  SpendWindow = 3
  SpendThreshold = 2
SPECIFICATION FraudSpec
VIEW WithoutHistory
ACTION_CONSTRAINT NoShutdown
INVARIANT VelocityWithinWindow
CHECK_DEADLOCK FALSE
