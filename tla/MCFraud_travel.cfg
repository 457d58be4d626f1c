\* One replica, three calls, the last of them an impossible trip back; the other
\* rules run, and count nothing.
CONSTANTS
  c1 = c1
  c2 = c2
  NoOne = NoOne
  NoRecord = NoRecord
  Nowhere = Nowhere
  Consumers = {c1}
  LogEnd = 3
  MaxAttempts = 2
  RecordId <- MCRecordId
  Unparseable = {}
  Failing = {}
  Call <- TripCalls
  VelocityWindow = 0
  VelocityThreshold = 0
  MaxSpeed = 2
  Distance <- MCDistance
  SpendWindow = 0
  SpendThreshold = 2
SPECIFICATION FraudSpec
VIEW WithoutHistory
ACTION_CONSTRAINT NoShutdown
INVARIANTS
  RulesTypeOK
  TravelGenuine
PROPERTY NoTripMissed
CHECK_DEADLOCK FALSE
