\* A former owner still has a record in hand when the new owner gets it again; every
\* call is premium, and no spend is too much.
CONSTANTS
  c1 = c1
  c2 = c2
  NoOne = NoOne
  NoRecord = NoRecord
  Nowhere = Nowhere
  Consumers = {c1, c2}
  LogEnd = 3
  MaxAttempts = 1
  RecordId <- MCRecordId
  Unparseable = {}
  Failing = {}
  Call <- TravelCalls
  VelocityWindow = 0
  VelocityThreshold = 0
  MaxSpeed = 2
  Distance <- MCDistance
  SpendWindow = 3
  SpendThreshold = 0
SPECIFICATION FraudSpec
ACTION_CONSTRAINTS
  NoShutdown
  OnlyRebalance
INVARIANT TripsReported
CHECK_DEADLOCK FALSE
