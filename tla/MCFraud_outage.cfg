\* One replica, three calls that make an impossible trip.  Calls to Redis and Kafka
\* may fail for records 0 and 1; subscriber-service need never answer.
CONSTANTS
  c1 = c1
  c2 = c2
  NoOne = NoOne
  NoRecord = NoRecord
  Nowhere = Nowhere
  Consumers = {c1}
  LogEnd = 3
  MaxAttempts = 2
  RecordId <- MCRecordId
  Unparseable = {}
  Failing = {0, 1}
  Call <- TripCalls
  VelocityWindow = 0
  VelocityThreshold = 0
  MaxSpeed = 2
  Distance <- MCDistance
  SpendWindow = 3
  SpendThreshold = 2
SPECIFICATION OutageSpec
VIEW OfProgress
PROPERTIES
  NeverBlocked
  DegradesGracefully
CHECK_DEADLOCK FALSE
