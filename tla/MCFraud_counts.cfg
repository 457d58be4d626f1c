\* One replica, three calls: the last one is exactly a window after the first for
\* the spend, after the second for the count.  No trip is too fast.
CONSTANTS
  c1 = c1
  c2 = c2
  NoOne = NoOne
  NoRecord = NoRecord
  Nowhere = Nowhere
  Consumers = {c1}
  LogEnd = 3
  MaxAttempts = 2
  RecordId <- MCRecordId
  Unparseable = {}
  Failing = {}
  Call <- CountCalls
  VelocityWindow = 2
  VelocityThreshold = 2
  MaxSpeed = 0
  Distance <- MCDistance
  SpendWindow = 3
  SpendThreshold = 2
SPECIFICATION FraudSpec
VIEW OfCounts
ACTION_CONSTRAINT NoShutdown
INVARIANTS
  FlagMeansAlerted
  VelocityGenuine
  SpendGenuine
CHECK_DEADLOCK FALSE
