\* Up to four calls of one subscriber, scenarios included, whose calls follow at
\* once or after one unit of time; other calls start one or four after the last.
CONSTANTS
  a = a
  b = b
  Cells = {a, b}
  UnknownCell = UnknownCell
  NoLocation = NoLocation
  Numbers <- MCNumbers
  Callees <- MCCallees
  Distance <- MCDistance
  Minutes = {0, 1}
  Gaps = {1, 4}
  VelocityWindow = 3
  VelocityThreshold = 3
  MaxSpeed = 2
  SpendWindow = 3
  SpendThreshold = 1600
  Cooldown = 2
  LastLocTTL = 5
  Lags = {0, 2}
  Home = a
  FarKm = 4
  BurstSize = 3
  IrsfCalls = 2
  IrsfMinutes = {1}
  Pause = 1
  DomesticNumber <- Domestic
  PremiumNumber <- Satellite
  MaxCalls = 4
SPECIFICATION TrafficSpec
INVARIANTS
  MemoryFollowsLog
  TrafficTypeOK
  SameAlerts
  AlertsAreDue
  ScenarioFlagged
  LongestPrefix
ACTION_CONSTRAINT SomeDurationAndStart
