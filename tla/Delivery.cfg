SPECIFICATION DeliveryLive
CONSTANTS
  FlushSize = 3
  MaxSends = 3
  Poison = {2}
  MaxEvents = 3
  MaxRuns = 2
INVARIANTS
  DeliveryTypeOK
  OneBatchPerEvent
  LoggedSurvives
  ValidEventsLand
  WalFirst
PROPERTIES
  LogDrains
